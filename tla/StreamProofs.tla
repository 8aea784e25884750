----------------------------- MODULE StreamProofs -----------------------------
(***************************************************************************)
(* What RemoveReader guarantees to a session, for any number of readers,   *)
(* of every protocol and codec, and queues of any size.                    *)
(*                                                                         *)
(* The property is not inductive: that the goroutine is over when          *)
(* RemoveReader returns rests on where it can be in each state of the      *)
(* session, and that the mutex is free on who may hold it.  Then what the  *)
(* queues of the readers hold, whatever the publisher writes: that rests   *)
(* on what the processor knows of what was sent.                           *)
(*                                                                         *)
(* The last part follows the units into the recorder, a reader of the      *)
(* stream: the operations on segments one by one, what a callback makes of *)
(* a sample, then the invariant: where each sample is.                     *)
(***************************************************************************)
EXTENDS Stream, Recorder, FiniteSetTheorems, TLAPS

Shapes ==
  /\ owner \in [Readers -> Owners]
  /\ DOMAIN sr = Readers
  /\ \A r \in Readers : {"in", "at"} \subseteq DOMAIN sr[r]

(* Where the goroutine of a reader can be, by what its session has done:   *)
(* it runs from StartReader on, and hands its error to one receiver only,  *)
(* the session or RemoveReader.                                            *)
Goroutine(r) ==
  /\ owner[r] \in {"out", "refused", "failed", "added"} => sr[r].at = "none"
  /\ owner[r] = "started" => sr[r].at \in {"pull", "read", "telling"}
  /\ owner[r] = "told" => sr[r].at = "ended"
  /\ owner[r] = "removing" => sr[r].at \in {"pull", "read", "telling", "ended"}
  /\ owner[r] = "removed" => sr[r].at \in {"none", "ended"}

(* RemoveReader takes the reader out of the formats first.                 *)
Registered(r) == owner[r] \in {"out", "refused", "removing", "removed"} => sr[r].in = "no"

(* The mutex is held by the reader that is being removed, if any.          *)
Holder(r) == lock = r <=> owner[r] = "removing"

Inv == Shapes /\ \A r \in Readers : Goroutine(r) /\ Registered(r) /\ Holder(r)

LEMMA InvRemoves == Inv => NothingAfterRemove
  BY DEF Inv, NothingAfterRemove, Goroutine, Registered, Holder

LEMMA InitInv == Init => Inv
<1> SUFFICES ASSUME Init PROVE Inv
  OBVIOUS
<1>1. \A r \in Readers : owner[r] = "out" /\ sr[r] = NoStreamReader
  BY DEF Init
<1>2. Shapes
  BY <1>1 DEF Init, Shapes, Owners, NoStreamReader
<1>3. \A r \in Readers : Goroutine(r) /\ Registered(r)
  BY <1>1 DEF Goroutine, Registered, NoStreamReader
<1>4. \A r \in Readers : Holder(r)
  BY <1>1, NobodyIsNoReader DEF Init, Holder
<1>5. QED
  BY <1>2, <1>3, <1>4 DEF Inv

(* The state of a reader is replaced by x, and its session moves to o.     *)
Moves(r, o, x) == owner' = [owner EXCEPT ![r] = o] /\ sr' = [sr EXCEPT ![r] = x]

(* A step of one reader keeps the invariant if it does so for that reader. *)
LEMMA OneReader ==
  ASSUME Inv, NEW r \in Readers, NEW o \in Owners, NEW x, Moves(r, o, x),
         {"in", "at"} \subseteq DOMAIN x,
         Goroutine(r)', Registered(r)', Holder(r)',
         \A q \in Readers \ {r} : lock' = q <=> lock = q
  PROVE  Inv'
<1>1. \A q \in Readers \ {r} : owner'[q] = owner[q] /\ sr'[q] = sr[q]
  BY DEF Inv, Shapes, Moves
<1>2. sr'[r] = x /\ DOMAIN sr' = Readers
  BY DEF Inv, Shapes, Moves
<1>3. owner' \in [Readers -> Owners]
  BY DEF Inv, Shapes, Moves
<1>4. Shapes'
  BY <1>1, <1>2, <1>3 DEF Inv, Shapes
<1>5. \A q \in Readers \ {r} : Goroutine(q)' /\ Registered(q)' /\ Holder(q)'
  BY <1>1 DEF Inv, Goroutine, Registered, Holder
<1>6. QED
  BY <1>4, <1>5 DEF Inv

(* What it takes to apply it, in terms of the fields of the reader.        *)
LEMMA OneReaderFields ==
  ASSUME Inv, NEW r \in Readers, NEW o \in Owners, NEW x, Moves(r, o, x),
         {"in", "at"} \subseteq DOMAIN x,
         o \in {"out", "refused", "failed", "added"} => x.at = "none",
         o = "started" => x.at \in {"pull", "read", "telling"},
         o = "told" => x.at = "ended",
         o = "removing" => x.at \in {"pull", "read", "telling", "ended"},
         o = "removed" => x.at \in {"none", "ended"},
         o \in {"out", "refused", "removing", "removed"} => x.in = "no",
         lock' = r <=> o = "removing",
         \A q \in Readers \ {r} : lock' = q <=> lock = q
  PROVE  Inv'
<1>1. owner'[r] = o /\ sr'[r] = x
  BY DEF Inv, Shapes, Moves
<1>2. Goroutine(r)' /\ Registered(r)' /\ Holder(r)'
  BY <1>1 DEF Goroutine, Registered, Holder
<1>3. QED
  BY <1>2, OneReader

(* A unit that is pushed changes queues and nothing else.                  *)
LEMMA PushKeepsPlace ==
  ASSUME NEW x, {"in", "at"} \subseteq DOMAIN x, NEW u
  PROVE  /\ DOMAIN Push(x, u) = DOMAIN x
         /\ Push(x, u).at = x.at /\ Push(x, u).in = x.in
  BY DEF Push

LEMMA WriteKeepsInv ==
  ASSUME Inv, NEW p, NEW res, Write(p, res)
  PROVE  Inv'
<1>1. owner' = owner /\ lock' = lock
  BY DEF Write
<1>2. /\ DOMAIN sr' = Readers
      /\ \A r \in Readers :
           DOMAIN sr'[r] = DOMAIN sr[r] /\ sr'[r].at = sr[r].at /\ sr'[r].in = sr[r].in
  <2>1. CASE res.ok
    <3>1. sr' = [r \in Readers |-> IF sr[r].in = "running" THEN Push(sr[r], res.unit) ELSE sr[r]]
      BY <2>1 DEF Write, Deliver
    <3>2. \A r \in Readers : {"in", "at"} \subseteq DOMAIN sr[r]
      BY DEF Inv, Shapes
    <3>3. QED
      BY <3>1, <3>2, PushKeepsPlace
  <2>2. CASE ~res.ok
    BY <2>2 DEF Write, Inv, Shapes
  <2>3. QED
    BY <2>1, <2>2
<1>3. QED
  BY <1>1, <1>2 DEF Inv, Shapes, Goroutine, Registered, Holder

(* The steps of a session.                                                 *)
LEMMA SessionKeepsInv ==
  ASSUME Inv, NEW r \in Readers,
         AddReader(r) \/ StartReader(r) \/ Told(r) \/ RemoveReader(r) \/ RemoveReturns(r)
  PROVE  Inv'
<1> USE NobodyIsNoReader
<1>0. /\ DOMAIN sr = Readers /\ {"in", "at"} \subseteq DOMAIN sr[r]
      /\ owner[r] \in Owners
      /\ Goroutine(r) /\ Registered(r)
      /\ \A q \in Readers : lock = q <=> owner[q] = "removing"
  BY DEF Inv, Shapes, Holder
<1>1. CASE AddReader(r)
  <2>0. owner[r] = "out" /\ lock' = lock /\ sr[r].at = "none" /\ sr[r].in = "no"
    BY <1>0, <1>1 DEF AddReader, Goroutine, Registered
  <2>1. CASE owner' = [owner EXCEPT ![r] = "refused"] /\ UNCHANGED sr
    BY <1>0, <2>0, <2>1 DEF Inv, Shapes, Goroutine, Registered, Holder, Owners
  <2>2. CASE sr' = [sr EXCEPT ![r].in = "paused"]
    <3> DEFINE x == [sr[r] EXCEPT !.in = "paused"]
    <3>1. {"in", "at"} \subseteq DOMAIN x /\ x.at = "none"
      BY <1>0, <2>0
    <3>2. PICK o \in {"added", "failed", "refused"} :
            (o # "refused" /\ owner' = [owner EXCEPT ![r] = o]) \/ UNCHANGED sr
      BY <1>1 DEF AddReader
    <3>3. CASE o # "refused" /\ owner' = [owner EXCEPT ![r] = o]
      <4>1. Moves(r, o, x)
        BY <2>2, <3>3 DEF Moves
      <4>2. QED
        BY <1>0, <2>0, <3>1, <3>3, <4>1, OneReaderFields DEF Owners
    <3>4. CASE UNCHANGED sr
      <4>1. sr'[r].in = "paused"
        BY <1>0, <2>2
      <4>2. QED
        BY <2>0, <3>4, <4>1
    <3>5. QED
      BY <3>2, <3>3, <3>4
  <2>3. QED
    BY <1>1, <2>1, <2>2 DEF AddReader
<1>2. CASE StartReader(r)
  <2> DEFINE x == [sr[r] EXCEPT !.in = "running", !.at = "pull"]
  <2>1. {"in", "at"} \subseteq DOMAIN x /\ x.at = "pull"
    BY <1>0
  <2>2. Moves(r, "started", x) /\ owner[r] = "added" /\ lock' = lock
    BY <1>0, <1>2 DEF StartReader, Moves
  <2>3. QED
    BY <1>0, <2>1, <2>2, OneReaderFields DEF Owners
<1>3. CASE Told(r)
  <2> DEFINE x == [sr[r] EXCEPT !.at = "ended"]
  <2>1. {"in", "at"} \subseteq DOMAIN x /\ x.at = "ended"
    BY <1>0
  <2>2. Moves(r, "told", x) /\ owner[r] = "started" /\ lock' = lock
    BY <1>0, <1>3 DEF Told, Moves
  <2>3. QED
    BY <1>0, <2>1, <2>2, OneReaderFields DEF Owners
<1>4. CASE RemoveReader(r)
  <2> DEFINE x == [sr[r] EXCEPT !.in = "no", !.closed = TRUE]
  <2>1. {"in", "at"} \subseteq DOMAIN x /\ x.at = sr[r].at /\ x.in = "no"
    BY <1>0
  <2>2. lock = NoReader /\ sr' = [sr EXCEPT ![r] = x]
    BY <1>0, <1>4 DEF RemoveReader
  <2>3. CASE owner[r] = "added"
    <3>1. Moves(r, "removed", x) /\ lock' = lock /\ x.at = "none"
      BY <1>0, <1>4, <2>1, <2>2, <2>3 DEF RemoveReader, Moves, Goroutine
    <3>2. QED
      BY <1>0, <2>1, <2>2, <3>1, OneReaderFields DEF Owners
  <2>4. CASE owner[r] # "added"
    <3>1. Moves(r, "removing", x) /\ lock' = r
      BY <1>4, <2>2, <2>4 DEF RemoveReader, Moves
    <3>2. x.at \in {"pull", "read", "telling", "ended"}
      BY <1>0, <1>4, <2>1, <2>4 DEF RemoveReader, Goroutine
    <3>3. QED
      BY <1>0, <2>1, <2>2, <3>1, <3>2, OneReaderFields DEF Owners
  <2>5. QED
    BY <2>3, <2>4
<1>5. CASE RemoveReturns(r)
  <2> DEFINE x == [sr[r] EXCEPT !.at = "ended"]
  <2>1. {"in", "at"} \subseteq DOMAIN x /\ x.at = "ended" /\ x.in = sr[r].in
    BY <1>0
  <2>2. Moves(r, "removed", x) /\ owner[r] = "removing" /\ lock = r /\ lock' = NoReader
    BY <1>0, <1>5 DEF RemoveReturns, Moves
  <2>3. x.in = "no"
    BY <1>0, <2>1, <2>2 DEF Registered
  <2>4. QED
    BY <1>0, <2>1, <2>2, <2>3, OneReaderFields DEF Owners
<1>6. QED
  BY <1>1, <1>2, <1>3, <1>4, <1>5

(* The steps of the goroutine of a reader, which runs only between         *)
(* StartReader and the end of RemoveReader.                                *)
LEMMA GoroutineKeepsInv ==
  ASSUME Inv, NEW r \in Readers,
         Pull(r) \/ Skip(r) \/ Written(r) \/ ReadFails(r)
  PROVE  Inv'
<1>1. DOMAIN sr = Readers /\ {"in", "at"} \subseteq DOMAIN sr[r]
  BY DEF Inv, Shapes
<1>2. /\ DOMAIN sr' = Readers /\ DOMAIN sr'[r] = DOMAIN sr[r] /\ sr'[r].in = sr[r].in
      /\ sr'[r].at \in {"pull", "read", "telling"}
      /\ \A q \in Readers \ {r} : sr'[q] = sr[q]
  <2>1. CASE Pull(r)
    BY <1>1, <2>1 DEF Pull
  <2>2. CASE Skip(r)
    BY <1>1, <2>2 DEF Skip
  <2>3. CASE Written(r)
    BY <1>1, <2>3 DEF Written
  <2>4. CASE ReadFails(r)
    BY <1>1, <2>4 DEF ReadFails
  <2>5. QED
    BY <2>1, <2>2, <2>3, <2>4
<1>3. owner' = owner /\ lock' = lock /\ sr[r].at \in {"pull", "read"}
  BY DEF Pull, Skip, Written, ReadFails
<1>4. owner[r] \in {"started", "removing"}
  BY <1>3 DEF Inv, Shapes, Goroutine, Owners
<1>5. QED
  BY <1>1, <1>2, <1>3, <1>4 DEF Inv, Shapes, Goroutine, Registered, Holder

LEMMA NextInv == Inv /\ [Next]_vars => Inv'
<1> SUFFICES ASSUME Inv, [Next]_vars PROVE Inv'
  OBVIOUS
<1>1. CASE WriteUnit
  BY <1>1, WriteKeepsInv DEF WriteUnit
<1>2. CASE WriteRTPPacket
  BY <1>2, WriteKeepsInv DEF WriteRTPPacket
<1>3. ASSUME NEW r \in Readers,
             AddReader(r) \/ StartReader(r) \/ Told(r) \/ RemoveReader(r) \/ RemoveReturns(r)
      PROVE  Inv'
  BY <1>3, SessionKeepsInv
<1>4. ASSUME NEW r \in Readers, Pull(r) \/ Skip(r) \/ Written(r) \/ ReadFails(r)
      PROVE  Inv'
  BY <1>4, GoroutineKeepsInv
<1>5. CASE UNCHANGED vars
  BY <1>5 DEF vars, Inv, Shapes, Goroutine, Registered, Holder
<1>6. QED
  BY <1>1, <1>2, <1>3, <1>4, <1>5 DEF Next

(* RemoveReader keeps its promise: once it has returned, the goroutine of  *)
(* the reader has ended, no format hands it units, and the mutex is not    *)
(* held for it, whatever its callback did and whoever else came or went.   *)
THEOREM RemoveLeavesNothing == Spec => []NothingAfterRemove
<1>1. Init => Inv
  BY InitInv
<1>2. Inv /\ [Next]_vars => Inv'
  BY NextInv
<1>3. Inv => NothingAfterRemove
  BY InvRemoves
<1>4. QED
  BY <1>1, <1>2, <1>3, PTL DEF Spec

-----------------------------------------------------------------------------
(***************************************************************************)
(* What the queues hold.                                                   *)
(***************************************************************************)

(* A codec that has parameter sets may be fragmented, and what is too big  *)
(* is either refused or encoded again.                                     *)
LEMMA CodecFacts ==
  ASSUME setting \in Settings
  PROVE  /\ Codec.oversize \in {"refuse", "reencode"}
         /\ Codec.params => Codec.fragments
<1>1. setting \in AllSettings
  BY SettingsAreOffered
<1>2. PICK p \in DOMAIN ToStream :
        setting \in [codec : ToStream[p], publisher : {p}, protocol : [Readers -> DOMAIN FromStream]]
  BY <1>1 DEF AllSettings
<1>3. setting.codec \in ToStream[p]
  BY <1>2
<1>4. ToStream[p] \subseteq DOMAIN Processor
  BY DEF ToStream, RTMPToStream, MPEGTSToStream, HLSToStream, WebRTCToStream, RTSPToStream, Processor
<1>5. setting.codec \in DOMAIN Processor
  BY <1>3, <1>4
<1> DEFINE Sound(c) == /\ c.oversize \in {"refuse", "reencode"}
                       /\ c.params => c.fragments
<1>6. Codec \in {H264, H265, MPEG4Video, AV1, VP8, VP9, MPEG1Video, MJPEG, MPEG4Audio, LATM,
                MPEG1Audio, AC3, Opus, KLV, G711, LPCM, Generic}
  BY <1>5 DEF Codec, Processor
<1>7. Sound(H264) /\ Sound(H265) /\ Sound(MPEG4Video) /\ Sound(Plain)
  BY DEF H264, H265, MPEG4Video, Plain
<1>8. Sound(AV1) /\ Sound(Opus) /\ Sound(KLV) /\ Sound(G711) /\ Sound(LPCM) /\ Sound(Generic)
  BY DEF AV1, Opus, KLV, G711, LPCM, Generic, Plain
<1> QED
  BY <1>6, <1>7, <1>8 DEF VP8, VP9, MPEG1Video, MJPEG, MPEG4Audio, LATM, MPEG1Audio, AC3

(* What a streamReader holds, queue of usable units included.              *)
Usable == {u \in Units : UsableUnit(u)}
StreamReaders ==
  [in : {"no", "paused", "running"}, at : Steps, queue : Seq(Usable), closed : BOOLEAN,
   unit : Units, open : BOOLEAN, last : Nat]

(* The processor has seen all that the publisher sent.                     *)
UInv ==
  /\ setting \in Settings
  /\ source \in [n : 0..MaxUnits, params : Nat, mid : {"none", "frame", "key"}]
  /\ proc \in [decoder : {"none", "idle", "frame", "key"}, encoder : BOOLEAN, params : Nat]
  /\ Codec.params => proc.params = source.params
  /\ sr \in [Readers -> StreamReaders]
  /\ \A r \in Readers : Len(sr[r].queue) <= QueueSize
  /\ \A r \in Readers : sr[r].at = "read" => sr[r].unit \in Usable
  /\ lock \in Readers \cup {NoReader}

(* What a packet that can be sent is, and what the source is after it.     *)
LEMMA Sent ==
  ASSUME UInv, NEW p \in Sendable, Send(p)
  PROVE  /\ p.part \in {"whole", "begin", "rest", "params", "broken"}
         /\ p.of \in {"frame", "key"} /\ p.params \in Nat /\ p.big \in BOOLEAN /\ p.pts \in Nat
         /\ Newest(p) \in Nat
         /\ source' \in [n : 0..MaxUnits, params : Nat, mid : {"none", "frame", "key"}]
         /\ source'.params = Newest(p)
<1>1. /\ p.part \in {"whole", "begin", "rest", "params", "broken"}
      /\ p.of \in {"frame", "key"} /\ p.params \in Nat /\ p.big \in BOOLEAN /\ p.pts \in Nat
  BY SizesAreNaturals DEF Sendable, UInv
<1>2. Newest(p) \in Nat
  BY <1>1 DEF Newest, UInv
<1> QED
  BY <1>1, <1>2, SizesAreNaturals DEF Send, UInv

(* A format that has parameter sets follows them, decoded or not.          *)
LEMMA FollowedFacts ==
  ASSUME UInv, NEW p \in Sendable, Send(p)
  PROVE  Followed(p) \in Nat /\ (Codec.params => Followed(p) = Newest(p))
BY Sent DEF Followed, Newest, UInv

(* What comes out of the two ways through the processor: usable units, if  *)
(* anybody is there to use them.                                           *)
LEMMA ProcessedUnit ==
  ASSUME UInv, NEW p \in Sendable, Send(p), GenerateRTPPackets
  PROVE  /\ ProcessUnit(p).proc \in
              [decoder : {"none", "idle", "frame", "key"}, encoder : BOOLEAN, params : Nat]
         /\ ProcessUnit(p).proc.params = Followed(p)
         /\ ProcessUnit(p).unit \in Usable
<1>1. /\ p.part \in {"whole", "begin", "rest", "params", "broken"}
      /\ p.of \in {"frame", "key"} /\ p.params \in Nat /\ p.big \in BOOLEAN /\ p.pts \in Nat
      /\ Newest(p) \in Nat
      /\ Followed(p) \in Nat /\ (Codec.params => Followed(p) = Newest(p))
  BY Sent, FollowedFacts
<1>2. Codec.params => Codec.fragments
  BY CodecFacts DEF UInv
<1>3. p.part = "params" => Codec.params \/ Codec.empty
  BY DEF Sendable
<1>4. ProcessUnit(p).unit \in Units
  BY <1>1 DEF ProcessUnit, Units
<1>5. UsableUnit(ProcessUnit(p).unit)
  BY <1>1, <1>2, <1>3 DEF ProcessUnit, UsableUnit
<1>6. /\ ProcessUnit(p).proc \in
           [decoder : {"none", "idle", "frame", "key"}, encoder : BOOLEAN, params : Nat]
      /\ ProcessUnit(p).proc.params = Followed(p)
  BY <1>1 DEF ProcessUnit, UInv
<1> QED
  BY <1>4, <1>5, <1>6 DEF Usable

LEMMA ProcessedRTPPacket ==
  ASSUME UInv, NEW p \in Sendable, Send(p), ~GenerateRTPPackets
  PROVE  /\ ProcessRTPPacket(p).proc \in
              [decoder : {"none", "idle", "frame", "key"}, encoder : BOOLEAN, params : Nat]
         /\ ProcessRTPPacket(p).proc.params = Followed(p)
         /\ ProcessRTPPacket(p).ok /\ HasNonRTSPReaders => ProcessRTPPacket(p).unit \in Usable
<1>1. /\ p.part \in {"whole", "begin", "rest", "params", "broken"}
      /\ p.of \in {"frame", "key"} /\ p.params \in Nat /\ p.big \in BOOLEAN /\ p.pts \in Nat
      /\ Newest(p) \in Nat
      /\ Followed(p) \in Nat /\ (Codec.params => Followed(p) = Newest(p))
  BY Sent, FollowedFacts
<1>2. /\ Codec.params => Codec.fragments
      /\ Codec.oversize \in {"refuse", "reencode"}
  BY CodecFacts DEF UInv
<1>3. /\ p.part = "params" => Codec.params
      /\ p.part \in {"begin", "rest"} => Codec.fragments
  BY DEF Sendable
<1> DEFINE
     encoder == proc.encoder \/ (Codec.oversize = "reencode" /\ p.big)
     refused == Codec.oversize = "refuse" /\ p.big
     decodes == /\ Codec.decodes /\ ~refused
                /\ HasNonRTSPReaders \/ proc.decoder # "none" \/ encoder
     u == ProcessRTPPacket(p).unit
<1>4. /\ proc.decoder \in {"none", "idle", "frame", "key"} /\ proc.encoder \in BOOLEAN
  BY DEF UInv
<1>5. /\ ProcessRTPPacket(p).proc \in
           [decoder : {"none", "idle", "frame", "key"}, encoder : BOOLEAN, params : Nat]
      /\ ProcessRTPPacket(p).proc.params = Followed(p)
  BY <1>1, <1>4 DEF ProcessRTPPacket
<1>6. ProcessRTPPacket(p).ok => ~refused /\ ~(decodes /\ p.part = "broken")
  BY DEF ProcessRTPPacket
<1>7. u \in Units
  BY <1>1, <1>4 DEF ProcessRTPPacket, Units
<1>8. ~refused => u.packets # "big" /\ (u.data # "none" => u.packets = "fit")
  <2>1. CASE encoder /\ u.data = "none"
    BY <2>1 DEF ProcessRTPPacket
  <2>2. CASE encoder /\ u.data # "none"
    BY <2>2 DEF ProcessRTPPacket
  <2>3. CASE ~encoder
    <3>1. ~refused => ~p.big
      BY <1>1, <1>2, <2>3
    <3>2. ~p.big => u.packets = "fit"
      BY <2>3 DEF ProcessRTPPacket
    <3> QED
      BY <3>1, <3>2
  <2> QED
    BY <1>1, <2>1, <2>2, <2>3
<1>9. Codec.params => u.params = u.newest
  BY <1>1 DEF ProcessRTPPacket
<1>10. decodes /\ p.part = "whole" => u.data # "none"
  BY <1>1 DEF ProcessRTPPacket
<1>11. ProcessRTPPacket(p).ok /\ HasNonRTSPReaders => UsableUnit(u)
  BY <1>1, <1>2, <1>3, <1>6, <1>8, <1>9, <1>10 DEF UsableUnit
<1> QED
  BY <1>5, <1>7, <1>11 DEF Usable

(* The units that are usable do not change: a behaviour has one setting.   *)
LEMMA SameSetting ==
  ASSUME setting' = setting
  PROVE  Codec' = Codec /\ Usable' = Usable /\ StreamReaders' = StreamReaders
<1>1. Codec' = Codec
  BY DEF Codec
<1>2. \A u : UsableUnit(u)' <=> UsableUnit(u)
  BY <1>1 DEF UsableUnit
<1>3. Usable' = Usable
  BY <1>2 DEF Usable
<1> QED
  BY <1>1, <1>3 DEF StreamReaders

(* A usable unit may be pushed to any queue.                               *)
LEMMA PushKeepsUsable ==
  ASSUME NEW x \in StreamReaders, Len(x.queue) <= QueueSize, NEW u \in Usable
  PROVE  /\ Push(x, u) \in StreamReaders /\ Len(Push(x, u).queue) <= QueueSize
         /\ Push(x, u).at = x.at /\ Push(x, u).unit = x.unit
<1>1. x.queue \in Seq(Usable) /\ Len(x.queue) \in Nat
  BY DEF StreamReaders
<1>2. CASE x.closed \/ Len(x.queue) = QueueSize
  BY <1>2 DEF Push
<1>3. CASE ~(x.closed \/ Len(x.queue) = QueueSize)
  <2>1. Push(x, u) = [x EXCEPT !.queue = Append(x.queue, u)]
    BY <1>3 DEF Push
  <2>2. /\ Append(x.queue, u) \in Seq(Usable)
        /\ Len(Append(x.queue, u)) = Len(x.queue) + 1
    BY <1>1
  <2>3. Len(x.queue) + 1 <= QueueSize
    BY <1>1, <1>3, SizesAreNaturals
  <2>4. /\ [x EXCEPT !.queue = Append(x.queue, u)] \in StreamReaders
        /\ [x EXCEPT !.queue = Append(x.queue, u)].queue = Append(x.queue, u)
        /\ [x EXCEPT !.queue = Append(x.queue, u)].at = x.at
        /\ [x EXCEPT !.queue = Append(x.queue, u)].unit = x.unit
    BY <2>2 DEF StreamReaders
  <2> QED
    BY <2>1, <2>2, <2>3, <2>4
<1> QED
  BY <1>2, <1>3

(* What the publisher writes: a reader that runs is handed something only  *)
(* while the processor knows that there are readers, and it is usable.     *)
LEMMA WriteKeepsUnits ==
  ASSUME UInv, NEW p \in Sendable, NEW res, Write(p, res),
         res.proc \in
           [decoder : {"none", "idle", "frame", "key"}, encoder : BOOLEAN, params : Nat],
         res.proc.params = Followed(p),
         res.ok /\ HasNonRTSPReaders => res.unit \in Usable
  PROVE  UInv'
<1>1. Send(p) /\ setting' = setting /\ proc' = res.proc /\ lock' = lock
  BY DEF Write
<1>2. /\ source' \in [n : 0..MaxUnits, params : Nat, mid : {"none", "frame", "key"}]
      /\ source'.params = Newest(p)
  BY <1>1, Sent
<1>3. Codec' = Codec /\ Usable' = Usable /\ StreamReaders' = StreamReaders
  BY <1>1, SameSetting
<1>4. Codec'.params => proc'.params = source'.params
  BY <1>1, <1>2, <1>3, FollowedFacts
<1>5. /\ sr' \in [Readers -> StreamReaders]
      /\ \A r \in Readers : /\ Len(sr'[r].queue) <= QueueSize
                            /\ sr'[r].at = sr[r].at /\ sr'[r].unit = sr[r].unit
  <2>1. CASE res.ok
    <3>1. sr' = [r \in Readers |-> IF sr[r].in = "running" THEN Push(sr[r], res.unit) ELSE sr[r]]
      BY <2>1 DEF Write, Deliver
    <3>2. ASSUME NEW r \in Readers, sr[r].in = "running"
          PROVE  /\ Push(sr[r], res.unit) \in StreamReaders
                 /\ Len(Push(sr[r], res.unit).queue) <= QueueSize
                 /\ Push(sr[r], res.unit).at = sr[r].at
                 /\ Push(sr[r], res.unit).unit = sr[r].unit
      <4>1. res.unit \in Usable
        BY <2>1, <3>2 DEF HasNonRTSPReaders
      <4> QED
        BY <4>1, PushKeepsUsable DEF UInv
    <3> QED
      BY <3>1, <3>2 DEF UInv
  <2>2. CASE ~res.ok
    BY <2>2 DEF Write, UInv
  <2> QED
    BY <2>1, <2>2
<1> QED
  BY <1>1, <1>2, <1>3, <1>4, <1>5 DEF UInv

(* A step of one reader, when the publisher does nothing.                  *)
LEMMA OneReaderUnits ==
  ASSUME UInv, setting' = setting, source' = source, proc' = proc,
         lock' \in Readers \cup {NoReader},
         NEW r \in Readers, NEW x \in StreamReaders, sr' = [sr EXCEPT ![r] = x],
         Len(x.queue) <= QueueSize, x.at = "read" => x.unit \in Usable
  PROVE  UInv'
<1>1. Codec' = Codec /\ Usable' = Usable /\ StreamReaders' = StreamReaders
  BY SameSetting
<1>2. sr' \in [Readers -> StreamReaders]
  BY DEF UInv
<1>3. \A q \in Readers : sr'[q] = IF q = r THEN x ELSE sr[q]
  BY DEF UInv
<1> QED
  BY <1>1, <1>2, <1>3 DEF UInv

(* The steps of a session hand nothing out; those of a goroutine take from *)
(* its queue.                                                              *)
LEMMA IdleIsUnit == Idle \in Units
  BY DEF Idle, Units

LEMMA SessionKeepsUnits ==
  ASSUME UInv, NEW r \in Readers,
         AddReader(r) \/ StartReader(r) \/ Told(r) \/ RemoveReader(r) \/ RemoveReturns(r)
  PROVE  UInv'
<1>0. /\ sr[r] \in StreamReaders /\ sr \in [Readers -> StreamReaders]
      /\ Len(sr[r].queue) <= QueueSize
      /\ sr[r].at = "read" => sr[r].unit \in Usable
  BY DEF UInv
<1>9. {lock, r, NoReader} \subseteq Readers \cup {NoReader}
  BY DEF UInv
<1>1. CASE AddReader(r)
  <2> DEFINE x == [sr[r] EXCEPT !.in = "paused"]
  <2>1. x \in StreamReaders /\ x.queue = sr[r].queue /\ x.at = sr[r].at /\ x.unit = sr[r].unit
    BY <1>0 DEF StreamReaders
  <2>2. setting' = setting /\ source' = source /\ proc' = proc /\ lock' = lock
    BY <1>1 DEF AddReader
  <2>3. CASE sr' = sr
    <3>1. Codec' = Codec /\ Usable' = Usable /\ StreamReaders' = StreamReaders
      BY <2>2, SameSetting
    <3> QED
      BY <2>2, <2>3, <3>1 DEF UInv
  <2>4. CASE sr' = [sr EXCEPT ![r] = x]
    BY <1>0, <1>9, <2>1, <2>2, <2>4, OneReaderUnits
  <2> QED
    BY <1>1, <2>3, <2>4 DEF AddReader
<1>2. CASE StartReader(r)
  <2> DEFINE x == [sr[r] EXCEPT !.in = "running", !.at = "pull"]
  <2>1. x \in StreamReaders /\ x.queue = sr[r].queue /\ x.at = "pull"
    BY <1>0 DEF StreamReaders, Steps
  <2>2. /\ setting' = setting /\ source' = source /\ proc' = proc /\ sr' = [sr EXCEPT ![r] = x]
        /\ lock' \in {lock, r, NoReader}
    BY <1>2 DEF StartReader
  <2> QED
    BY <1>0, <1>9, <2>1, <2>2, OneReaderUnits
<1>3. CASE Told(r) \/ RemoveReturns(r)
  <2> DEFINE x == [sr[r] EXCEPT !.at = "ended"]
  <2>1. x \in StreamReaders /\ x.queue = sr[r].queue /\ x.at = "ended"
    BY <1>0 DEF StreamReaders, Steps
  <2>2. /\ setting' = setting /\ source' = source /\ proc' = proc /\ sr' = [sr EXCEPT ![r] = x]
        /\ lock' \in {lock, r, NoReader}
    BY <1>3 DEF Told, RemoveReturns
  <2> QED
    BY <1>0, <1>9, <2>1, <2>2, OneReaderUnits
<1>4. CASE RemoveReader(r)
  <2> DEFINE x == [sr[r] EXCEPT !.in = "no", !.closed = TRUE]
  <2>1. x \in StreamReaders /\ x.queue = sr[r].queue /\ x.at = sr[r].at /\ x.unit = sr[r].unit
    BY <1>0 DEF StreamReaders
  <2>2. /\ setting' = setting /\ source' = source /\ proc' = proc /\ sr' = [sr EXCEPT ![r] = x]
        /\ lock' \in {lock, r, NoReader}
    BY <1>4 DEF RemoveReader
  <2> QED
    BY <1>0, <1>9, <2>1, <2>2, OneReaderUnits
<1> QED
  BY <1>1, <1>2, <1>3, <1>4

LEMMA GoroutineKeepsUnits ==
  ASSUME UInv, NEW r \in Readers,
         Pull(r) \/ Skip(r) \/ Written(r) \/ ReadFails(r)
  PROVE  UInv'
<1>0. /\ sr[r] \in StreamReaders /\ sr \in [Readers -> StreamReaders]
      /\ sr[r].queue \in Seq(Usable) /\ Len(sr[r].queue) <= QueueSize
      /\ sr[r].unit \in Units
  BY DEF UInv, StreamReaders
<1>1. /\ setting' = setting /\ source' = source /\ proc' = proc
      /\ lock' \in Readers \cup {NoReader}
  BY DEF Pull, Skip, Written, ReadFails, UInv
<1>2. ASSUME sr[r].queue # <<>>,
             sr' = [sr EXCEPT ![r].at = "read", ![r].unit = Head(sr[r].queue),
                              ![r].queue = Tail(@)]
      PROVE  UInv'
  <2> DEFINE x == [sr[r] EXCEPT !.at = "read", !.unit = Head(sr[r].queue),
                                !.queue = Tail(sr[r].queue)]
  <2>1. /\ Head(sr[r].queue) \in Usable /\ Tail(sr[r].queue) \in Seq(Usable)
        /\ Len(Tail(sr[r].queue)) <= QueueSize
    BY <1>0, <1>2, SizesAreNaturals
  <2>2. Head(sr[r].queue) \in Units
    BY <2>1 DEF Usable
  <2>3. x \in StreamReaders /\ x.queue = Tail(sr[r].queue) /\ x.unit = Head(sr[r].queue)
    BY <1>0, <2>1, <2>2 DEF StreamReaders, Steps
  <2>4. sr' = [sr EXCEPT ![r] = x]
    BY <1>0, <1>2
  <2> QED
    BY <1>1, <2>1, <2>3, <2>4, OneReaderUnits
<1>3. ASSUME sr' = [sr EXCEPT ![r].at = "telling"] PROVE UInv'
  <2> DEFINE x == [sr[r] EXCEPT !.at = "telling"]
  <2>1. x \in StreamReaders /\ x.queue = sr[r].queue /\ x.at = "telling"
    BY <1>0 DEF StreamReaders, Steps
  <2>2. sr' = [sr EXCEPT ![r] = x]
    BY <1>3
  <2> QED
    BY <1>0, <1>1, <2>1, <2>2, OneReaderUnits
<1>4. CASE Pull(r)
  BY <1>2, <1>3, <1>4 DEF Pull
<1>5. CASE Skip(r)
  <2> DEFINE x == [sr[r] EXCEPT !.at = "pull", !.unit = Idle]
  <2>1. x \in StreamReaders /\ x.queue = sr[r].queue /\ x.at = "pull"
    BY <1>0, IdleIsUnit DEF StreamReaders, Steps
  <2>2. sr' = [sr EXCEPT ![r] = x]
    BY <1>5 DEF Skip
  <2> QED
    BY <1>0, <1>1, <2>1, <2>2, OneReaderUnits
<1>6. CASE Written(r)
  <2> DEFINE open == Gate(r) = "key"
             pts == IF Gate(r) = "order" THEN sr[r].unit.pts ELSE 0
             x == [sr[r] EXCEPT !.at = "pull", !.unit = Idle, !.open = open, !.last = pts]
  <2>1. pts \in Nat
    BY <1>0 DEF Units
  <2>2. x \in StreamReaders /\ x.queue = sr[r].queue /\ x.at = "pull"
    BY <1>0, <2>1, IdleIsUnit DEF StreamReaders, Steps
  <2>3. sr' = [sr EXCEPT ![r] = x]
    BY <1>6 DEF Written
  <2> QED
    BY <1>0, <1>1, <2>2, <2>3, OneReaderUnits
<1>7. CASE ReadFails(r)
  <2> DEFINE x == [sr[r] EXCEPT !.at = "telling", !.unit = Idle]
  <2>1. x \in StreamReaders /\ x.queue = sr[r].queue /\ x.at = "telling"
    BY <1>0, IdleIsUnit DEF StreamReaders, Steps
  <2>2. sr' = [sr EXCEPT ![r] = x]
    BY <1>7 DEF ReadFails
  <2> QED
    BY <1>0, <1>1, <2>1, <2>2, OneReaderUnits
<1> QED
  BY <1>4, <1>5, <1>6, <1>7

LEMMA InitUInv == Init => UInv
<1> SUFFICES ASSUME Init PROVE UInv
  OBVIOUS
<1>1. NoStreamReader \in StreamReaders /\ NoStreamReader.queue = <<>> /\ NoStreamReader.at = "none"
  BY IdleIsUnit DEF NoStreamReader, StreamReaders, Steps
<1>2. /\ source \in [n : 0..MaxUnits, params : Nat, mid : {"none", "frame", "key"}]
      /\ proc \in [decoder : {"none", "idle", "frame", "key"}, encoder : BOOLEAN, params : Nat]
      /\ proc.params = source.params
  BY SizesAreNaturals DEF Init
<1>3. sr \in [Readers -> StreamReaders] /\ \A r \in Readers : sr[r] = NoStreamReader
  BY <1>1 DEF Init
<1> QED
  BY <1>1, <1>2, <1>3, SizesAreNaturals DEF Init, UInv

LEMMA NextUInv == UInv /\ [Next]_vars => UInv'
<1> SUFFICES ASSUME UInv, [Next]_vars PROVE UInv'
  OBVIOUS
<1>1. CASE WriteUnit
  <2>1. PICK p \in Sendable : Write(p, ProcessUnit(p))
    BY <1>1 DEF WriteUnit
  <2>2. Send(p) /\ GenerateRTPPackets
    BY <1>1, <2>1 DEF Write, WriteUnit
  <2> QED
    BY <2>1, <2>2, ProcessedUnit, WriteKeepsUnits
<1>2. CASE WriteRTPPacket
  <2>1. PICK p \in Sendable : Write(p, ProcessRTPPacket(p))
    BY <1>2 DEF WriteRTPPacket
  <2>2. Send(p) /\ ~GenerateRTPPackets
    BY <1>2, <2>1 DEF Write, WriteRTPPacket
  <2> QED
    BY <2>1, <2>2, ProcessedRTPPacket, WriteKeepsUnits
<1>3. ASSUME NEW r \in Readers,
             AddReader(r) \/ StartReader(r) \/ Told(r) \/ RemoveReader(r) \/ RemoveReturns(r)
      PROVE  UInv'
  BY <1>3, SessionKeepsUnits
<1>4. ASSUME NEW r \in Readers, Pull(r) \/ Skip(r) \/ Written(r) \/ ReadFails(r)
      PROVE  UInv'
  BY <1>4, GoroutineKeepsUnits
<1>5. CASE UNCHANGED vars
  <2>1. Codec' = Codec /\ Usable' = Usable /\ StreamReaders' = StreamReaders
    BY <1>5, SameSetting DEF vars
  <2> QED
    BY <1>5, <2>1 DEF vars, UInv
<1> QED
  BY <1>1, <1>2, <1>3, <1>4, <1>5 DEF Next

LEMMA UInvUsable == UInv => UnitsAreUsable
<1> SUFFICES ASSUME UInv, NEW r \in Readers
             PROVE  /\ sr[r].at = "read" => UsableUnit(sr[r].unit)
                    /\ \A i \in DOMAIN sr[r].queue : UsableUnit(sr[r].queue[i])
  BY DEF UnitsAreUsable
<1>1. sr[r].queue \in Seq(Usable)
  BY DEF UInv, StreamReaders
<1>2. \A i \in DOMAIN sr[r].queue : sr[r].queue[i] \in Usable
  BY <1>1
<1> QED
  BY <1>2 DEF UInv, Usable

(* Whatever the publisher and the codec, a reader is handed units it can   *)
(* use without looking at how they came: no packet is too big, data comes  *)
(* with packets, a key frame with the newest parameter sets, and a codec   *)
(* of whole units has its data.                                            *)
THEOREM UnitsStayUsable == Spec => []UnitsAreUsable
<1>1. Init => UInv
  BY InitUInv
<1>2. UInv /\ [Next]_vars => UInv'
  BY NextUInv
<1>3. UInv => UnitsAreUsable
  BY UInvUsable
<1>4. QED
  BY <1>1, <1>2, <1>3, PTL DEF Spec

(* Only one conjunct of each of the two invariants is about types.         *)
LEMMA InvariantsType == Inv /\ UInv => TypeOK
<1> SUFFICES ASSUME Inv, UInv PROVE TypeOK
  OBVIOUS
<1>1. ASSUME NEW q \in Seq(Usable) PROVE q \in Seq(Units)
  BY DEF Usable
<1>2. ASSUME NEW r \in Readers
      PROVE  /\ sr[r].in \in {"no", "paused", "running"} /\ sr[r].at \in Steps
             /\ sr[r].queue \in Seq(Units) /\ Len(sr[r].queue) <= QueueSize
             /\ sr[r].unit \in Units /\ {sr[r].closed, sr[r].open} \subseteq BOOLEAN
             /\ sr[r].last \in Nat
  <2>1. sr[r] \in StreamReaders /\ Len(sr[r].queue) <= QueueSize
    BY DEF UInv
  <2> QED
    BY <1>1, <2>1 DEF StreamReaders
<1> QED
  BY <1>2 DEF Inv, Shapes, UInv, TypeOK

(* Every variable keeps its type, whatever the codec, and no queue grows   *)
(* beyond its size.                                                        *)
THEOREM TypeCorrect == Spec => []TypeOK
<1>1. Init => Inv /\ UInv
  BY InitInv, InitUInv
<1>2. Inv /\ UInv /\ [Next]_vars => (Inv /\ UInv)'
  BY NextInv, NextUInv
<1>3. Inv /\ UInv => TypeOK
  BY InvariantsType
<1>4. QED
  BY <1>1, <1>2, <1>3, PTL DEF Spec

-----------------------------------------------------------------------------
(* The recorder.                                                           *)

Disks == [Times -> Files \cup {None}]
States == [segment : Segments, disk : Disks, ok : BOOLEAN]

(* What the segment can still write.                                       *)
PartOf(segment) ==
  IF segment.part = None \/ segment.fd = "closed" THEN {} ELSE segment.part.samples

FilesApart(d) ==
  \A t, u \in Times : d[t] # None /\ d[u] # None /\ t # u => d[t].samples \cap d[u].samples = {}

(* No sample is in two files, or in a file and in the part.                *)
WellKept(st) == FilesApart(st.disk) /\ PartOf(st.segment) \cap Stored(st.disk) = {}

(* Nothing has gone wrong: the file of the segment is the newest, and it   *)
(* is there if and only if the segment is open.                            *)
FileFits(segment, d) ==
  /\ segment.fd # "closed"
  /\ \A u \in Times : d[u] # None =>
       u < segment.start \/ (u = segment.start /\ segment.fd = "open")
  /\ segment.fd = "open" => d[segment.start] # None

(* What waits for a successor, and what else the format has in memory.     *)
Waiting(fm) == {fm.next[t] : t \in Pending(fm.next)}
InPart(fm) == IF fm.segment = None THEN {} ELSE PartOf(fm.segment)

Formats ==
  [open : BOOLEAN, hasVideo : BOOLEAN, next : [Tracks -> Samples \cup {None}],
   segment : Segments \cup {None}]

(* Every sample is in one place at most.                                   *)
Placed(fm, d) ==
  /\ \A t \in Pending(fm.next) : fm.next[t].track = t
  /\ FilesApart(d)
  /\ Waiting(fm) \cap InPart(fm) = {}
  /\ (Waiting(fm) \cup InPart(fm)) \cap Stored(d) = {}

Fits(segment, d) ==
  IF segment = None THEN \A u \in Times : d[u] = None ELSE FileFits(segment, d)

(* Who was in wait when the segment began and is older than it is more     *)
(* than MaxBasetime older than another.                                    *)
Fair(segment) ==
  \A x \in segment.pending :
    x.dts < segment.start => \E y \in segment.pending : y.dts - x.dts > MaxBasetime

LEMMA StoredIn ==
  ASSUME NEW d
  PROVE  \A s : s \in Stored(d) <=> \E t \in Times : d[t] # None /\ s \in d[t].samples
BY DEF Stored

LEMMA DiskFacts ==
  ASSUME NEW d \in Disks
  PROVE  /\ \A t \in Times : d[t] \in Files \cup {None}
         /\ \A t \in Times : d[t] # None => d[t] \in Files /\ d[t].samples \in SUBSET Samples
         /\ Stored(d) \in SUBSET Samples
<1>1. \A t \in Times : d[t] # None => d[t] \in Files /\ d[t].samples \in SUBSET Samples
  BY DEF Disks, Files
<1>2. Stored(d) \in SUBSET Samples
  BY <1>1, StoredIn
<1>3. QED
  BY <1>1, <1>2 DEF Disks

(* Only one file changes: what the disk then holds.                        *)
LEMMA OneFile ==
  ASSUME NEW d \in Disks, NEW t \in Times, NEW v \in Files \cup {None}
  PROVE  LET e == [d EXCEPT ![t] = v] IN
         /\ e \in Disks
         /\ e[t] = v
         /\ \A u \in Times \ {t} : e[u] = d[u]
BY DEF Disks

(* The operations on segments.                                             *)

LEMMA CreateFacts ==
  ASSUME NEW st \in States, NEW f
  PROVE  LET r == Create(st, f) IN
         /\ r \in States
         /\ r.segment = [st.segment EXCEPT !.fd = r.segment.fd]
         /\ st.segment.fd # "none" => r = st
         /\ st.segment.fd = "none" =>
              /\ \A u \in Times \ {st.segment.start} : r.disk[u] = st.disk[u]
              /\ r.segment.fd = "none" => ~r.ok
              /\ r.segment.fd \in {"none", "open"}
              /\ r.segment.fd = "open" => r.disk[st.segment.start] # None
              /\ \/ r.disk[st.segment.start] = st.disk[st.segment.start]
                 \/ r.disk[st.segment.start] # None /\ r.disk[st.segment.start].samples = {}
              /\ f = "none" => r.ok = st.ok /\ r.segment.fd = "open"
         /\ r.ok => st.ok
<1> DEFINE r == Create(st, f)
<1> DEFINE start == st.segment.start
<1>1. CASE st.segment.fd # "none"
  <2>1. r = st
    BY <1>1 DEF Create
  <2>2. st.segment = [st.segment EXCEPT !.fd = st.segment.fd]
    BY DEF States, Segments
  <2>3. QED
    BY <1>1, <2>1, <2>2
<1>2. CASE st.segment.fd = "none"
  <2> DEFINE file == IF st.disk[start] = None THEN NewFile
                     ELSE [NewFile EXCEPT !.created = st.disk[start].created + 1]
  <2> DEFINE made == [st EXCEPT !.disk[start] = file]
  <2>1. st.segment \in Segments /\ start \in Times /\ st.disk \in Disks /\ st.ok \in BOOLEAN
    BY DEF States, Segments
  <2>2. file \in Files /\ file.samples = {}
    <3>1. NewFile \in Files /\ NewFile.samples = {}
      <4>1. 0 \in -MaxTime..MaxTime
        BY DurationsAreNaturals
      <4>2. QED
        BY <4>1 DEF NewFile, Files
    <3>2. CASE st.disk[start] # None
      <4>1. st.disk[start].created \in Nat
        BY <2>1, <3>2 DEF Disks, Files
      <4>2. QED
        BY <3>1, <3>2, <4>1 DEF Files
    <3>3. QED
      BY <3>1, <3>2
  <2>3. file # None
    BY <2>2, NoneIsNothing
  <2> HIDE DEF file
  <2>4. /\ made.disk = [st.disk EXCEPT ![start] = file]
        /\ made.segment = st.segment /\ made.ok = st.ok
        /\ made \in States
    BY <2>1, <2>2 DEF States, Disks
  <2>5. CASE f = "create"
    <3>1. r = [st EXCEPT !.ok = FALSE]
      BY <1>2, <2>5 DEF Create
    <3>2. r \in States /\ r.segment = st.segment /\ r.disk = st.disk /\ ~r.ok
      BY <3>1 DEF States
    <3>3. st.segment = [st.segment EXCEPT !.fd = st.segment.fd]
      BY <2>1 DEF Segments
    <3>4. QED
      BY <1>2, <2>5, <3>2, <3>3
  <2>6. CASE f = "init"
    <3>1. r = [made EXCEPT !.ok = FALSE]
      BY <1>2, <2>6 DEF Create, file
    <3>2. r \in States /\ r.segment = st.segment /\ r.disk = made.disk /\ ~r.ok
      BY <3>1, <2>4 DEF States
    <3>3. st.segment = [st.segment EXCEPT !.fd = st.segment.fd]
      BY <2>1 DEF Segments
    <3>4. QED
      BY <1>2, <2>1, <2>2, <2>3, <2>4, <2>6, <3>2, <3>3, OneFile
  <2>7. CASE f \notin {"create", "init"}
    <3> DEFINE headed == [file EXCEPT !.header = TRUE]
    <3>1. r = [made EXCEPT !.disk[start].header = TRUE, !.segment.fd = "open"]
      BY <1>2, <2>4, <2>7 DEF Create, file
    <3>2. made.disk[start] = file
      BY <2>1, <2>4 DEF Disks
    <3>3. headed \in Files /\ headed.samples = {}
      BY <2>2 DEF Files
    <3>4. /\ r.disk = [made.disk EXCEPT ![start] = headed]
          /\ r.segment = [st.segment EXCEPT !.fd = "open"] /\ r.ok = st.ok
      BY <3>1, <3>2, <2>4 DEF States
    <3>5. r.segment \in Segments /\ r.segment.fd = "open"
      BY <3>4, <2>1 DEF Segments
    <3> HIDE DEF headed
    <3>6. r.disk \in Disks /\ r.disk[start] = headed /\ \A u \in Times \ {start} : r.disk[u] = st.disk[u]
      <4>1. r.disk = [st.disk EXCEPT ![start] = headed]
        BY <3>4, <2>1, <2>4 DEF Disks
      <4>2. QED
        BY <4>1, <3>3, <2>1 DEF Disks
    <3>7. r = [segment |-> r.segment, disk |-> r.disk, ok |-> r.ok]
      BY <3>1, <2>4 DEF States
    <3>8. r \in States
      BY <3>4, <3>5, <3>6, <3>7, <2>1 DEF States
    <3>9. headed # None
      BY <3>3, NoneIsNothing
    <3>10. QED
      BY <1>2, <2>7, <3>3, <3>4, <3>5, <3>6, <3>8, <3>9
  <2>8. QED
    BY <2>5, <2>6, <2>7
<1>3. QED
  BY <1>1, <1>2 DEF States, Segments

LEMMA CreateKeeps ==
  ASSUME NEW st \in States, NEW f, WellKept(st)
  PROVE  LET r == Create(st, f) IN
         /\ WellKept(r)
         /\ PartOf(r.segment) = PartOf(st.segment)
         /\ Stored(r.disk) \subseteq Stored(st.disk)
         /\ f = "none" /\ st.ok /\ FileFits(st.segment, st.disk) =>
              /\ r.ok /\ r.segment.fd = "open" /\ FileFits(r.segment, r.disk)
              /\ Stored(r.disk) = Stored(st.disk)
<1> DEFINE r == Create(st, f)
<1> DEFINE start == st.segment.start
<1>1. /\ r \in States
      /\ r.segment = [st.segment EXCEPT !.fd = r.segment.fd]
      /\ st.segment.fd # "none" => r = st
      /\ st.segment.fd = "none" =>
           /\ \A u \in Times \ {start} : r.disk[u] = st.disk[u]
           /\ r.segment.fd \in {"none", "open"}
           /\ r.segment.fd = "open" => r.disk[start] # None
           /\ \/ r.disk[start] = st.disk[start]
              \/ r.disk[start] # None /\ r.disk[start].samples = {}
           /\ f = "none" => r.ok = st.ok /\ r.segment.fd = "open"
  BY CreateFacts
<1>2. start \in Times /\ st.disk \in Disks /\ r.disk \in Disks /\ st.segment \in Segments
  BY <1>1 DEF States, Segments
<1> HIDE DEF r
<1>3. r.segment.part = st.segment.part /\ r.segment.start = start
  BY <1>1, <1>2 DEF Segments
<1>4. PartOf(r.segment) = PartOf(st.segment)
  BY <1>1, <1>3 DEF PartOf
<1>5. \A u \in Times : r.disk[u] # None =>
        r.disk[u].samples = {} \/ (st.disk[u] # None /\ r.disk[u].samples = st.disk[u].samples)
  BY <1>1, <1>2
<1>6. Stored(r.disk) \subseteq Stored(st.disk)
  BY <1>5, StoredIn
<1>7. FilesApart(r.disk)
  BY <1>5 DEF WellKept, FilesApart
<1>8. WellKept(r)
  BY <1>4, <1>6, <1>7 DEF WellKept
<1>9. ASSUME f = "none", st.ok, FileFits(st.segment, st.disk)
      PROVE  /\ r.ok /\ r.segment.fd = "open" /\ FileFits(r.segment, r.disk)
             /\ Stored(r.disk) = Stored(st.disk)
  <2>1. CASE st.segment.fd # "none"
    BY <1>1, <1>9, <2>1 DEF FileFits, States, Segments
  <2>2. CASE st.segment.fd = "none"
    <3>1. st.disk[start] = None
      BY <1>9, <1>2, <2>2 DEF FileFits, Times
    <3>2. \A u \in Times : st.disk[u] # None => r.disk[u] = st.disk[u]
      BY <3>1, <1>1, <2>2
    <3>3. Stored(st.disk) \subseteq Stored(r.disk)
      BY <3>2, StoredIn
    <3>4. \A u \in Times : r.disk[u] # None => u < start \/ u = start
      BY <1>1, <1>9, <2>2 DEF FileFits
    <3>5. QED
      BY <1>1, <1>3, <1>6, <1>9, <2>2, <3>3, <3>4 DEF FileFits
  <2>3. QED
    BY <2>1, <2>2
<1>10. QED
  BY <1>4, <1>6, <1>8, <1>9 DEF r

LEMMA WritePartFacts ==
  ASSUME NEW st \in States, NEW f, st.segment.part # None, st.ok => st.segment.fd # "none"
  PROVE  LET r == WritePart(st, f)
             start == st.segment.start
         IN
         /\ r \in States /\ r.segment = st.segment
         /\ \/ r.disk = st.disk
            \/ /\ \A u \in Times \ {start} : r.disk[u] = st.disk[u]
               /\ st.disk[start] # None /\ r.disk[start] # None
               /\ r.disk[start].samples = st.disk[start].samples \cup PartOf(st.segment)
         /\ ~st.ok => r = st
         /\ f = "none" /\ st.ok /\ st.segment.fd = "open" /\ st.disk[start] # None =>
              r.ok /\ st.disk[start].samples \cup PartOf(st.segment) = r.disk[start].samples
<1> DEFINE r == WritePart(st, f)
           start == st.segment.start
           part == st.segment.part
<1>1. start \in Times /\ st.disk \in Disks /\ st.segment \in Segments /\ part \in Parts
      /\ st = [segment |-> st.segment, disk |-> st.disk, ok |-> st.ok] /\ st.ok \in BOOLEAN
  BY DEF States, Segments
<1>2. part.samples \in SUBSET Samples /\ part.end \in Times
  BY <1>1 DEF Parts
<1>3. CASE ~st.ok
  BY <1>1, <1>3 DEF WritePart
<1>4. CASE st.ok /\ (f = "part" \/ st.segment.fd = "closed")
  <2>1. r = [st EXCEPT !.ok = FALSE]
    BY <1>4 DEF WritePart
  <2>2. QED
    BY <1>1, <1>4, <2>1 DEF States
<1>5. CASE st.ok /\ f # "part" /\ st.segment.fd = "open" /\ st.disk[start] = None
  BY <1>1, <1>5 DEF WritePart
<1>6. CASE st.ok /\ f # "part" /\ st.segment.fd = "open" /\ st.disk[start] # None
  <2> DEFINE old == st.disk[start]
             file == [old EXCEPT !.samples = @ \cup part.samples, !.end = part.end - start]
  <2>1. r = [st EXCEPT !.disk[start].samples = @ \cup part.samples,
                       !.disk[start].end = part.end - start]
    BY <1>6 DEF WritePart
  <2>2. old \in Files /\ part.end - start \in -MaxTime..MaxTime
    BY <1>1, <1>2, <1>6, DurationsAreNaturals DEF Disks, Times
  <2>3. file \in Files /\ file.samples = old.samples \cup part.samples
    BY <1>2, <2>2 DEF Files
  <2>4. r = [segment |-> st.segment, disk |-> [st.disk EXCEPT ![start] = file], ok |-> st.ok]
    BY <2>1, <1>1 DEF States, Disks
  <2> HIDE DEF file
  <2>5. r.disk \in Disks /\ r.disk[start] = file /\ \A u \in Times \ {start} : r.disk[u] = st.disk[u]
    BY <2>3, <2>4, <1>1 DEF Disks
  <2>6. file # None
    BY <2>3, NoneIsNothing
  <2>7. r \in States /\ r.segment = st.segment /\ r.ok = st.ok
    BY <2>4, <2>5, <1>1 DEF States
  <2>8. PartOf(st.segment) = part.samples
    BY <1>6 DEF PartOf
  <2>9. QED
    BY <1>6, <2>3, <2>5, <2>6, <2>7, <2>8
<1>7. QED
  BY <1>1, <1>3, <1>4, <1>5, <1>6 DEF Segments

(* A part is closed: what it held goes to the file or is left to it.       *)
LEMMA ClosePartFacts ==
  ASSUME NEW st \in States, NEW f, WellKept(st), st.segment.part # None
  PROVE  LET r == ClosePart(st, f) IN
         /\ r \in States
         /\ r.segment = [st.segment EXCEPT !.fd = r.segment.fd]
         /\ st.segment.fd # "none" => r.segment.fd = st.segment.fd
         /\ st.segment.fd = "none" => r.segment.fd \in {"none", "open"}
         /\ FilesApart(r.disk)
         /\ Stored(r.disk) \subseteq Stored(st.disk) \cup PartOf(st.segment)
         /\ r.segment.fd = "none" => ~r.ok /\ WellKept(r) /\ Stored(r.disk) \subseteq Stored(st.disk)
         /\ f = "none" /\ st.ok /\ FileFits(st.segment, st.disk) =>
              /\ r.ok /\ r.segment.fd = "open" /\ FileFits(r.segment, r.disk)
              /\ Stored(r.disk) = Stored(st.disk) \cup PartOf(st.segment)
<1> DEFINE c == Create(st, f)
           r == ClosePart(st, f)
           start == st.segment.start
<1>1. /\ c \in States
      /\ c.segment = [st.segment EXCEPT !.fd = c.segment.fd]
      /\ st.segment.fd # "none" => c = st
      /\ st.segment.fd = "none" =>
           /\ c.segment.fd = "none" => ~c.ok
           /\ c.segment.fd \in {"none", "open"}
  BY CreateFacts
<1>2. /\ WellKept(c) /\ PartOf(c.segment) = PartOf(st.segment)
      /\ Stored(c.disk) \subseteq Stored(st.disk)
      /\ f = "none" /\ st.ok /\ FileFits(st.segment, st.disk) =>
           /\ c.ok /\ c.segment.fd = "open" /\ FileFits(c.segment, c.disk)
           /\ Stored(c.disk) = Stored(st.disk)
  BY CreateKeeps
<1>3. st.segment \in Segments /\ start \in Times
  BY DEF States, Segments
<1>4. c.segment.part = st.segment.part /\ c.segment.start = start
  BY <1>1, <1>3 DEF Segments
<1>5. r = WritePart(c, f)
  BY DEF ClosePart
<1>6. c.ok => c.segment.fd # "none"
  BY <1>1
<1> HIDE DEF c, r
<1>7. /\ r \in States /\ r.segment = c.segment
      /\ \/ r.disk = c.disk
         \/ /\ \A u \in Times \ {start} : r.disk[u] = c.disk[u]
            /\ c.disk[start] # None /\ r.disk[start] # None
            /\ r.disk[start].samples = c.disk[start].samples \cup PartOf(c.segment)
      /\ ~c.ok => r = c
      /\ f = "none" /\ c.ok /\ c.segment.fd = "open" /\ c.disk[start] # None =>
           r.ok /\ c.disk[start].samples \cup PartOf(c.segment) = r.disk[start].samples
  BY <1>1, <1>4, <1>5, <1>6, WritePartFacts
<1>8. r.segment = [st.segment EXCEPT !.fd = r.segment.fd]
  BY <1>1, <1>7
<1>9. FilesApart(r.disk) /\ Stored(r.disk) \subseteq Stored(st.disk) \cup PartOf(st.segment)
  <2>1. CASE r.disk = c.disk
    BY <2>1, <1>2 DEF WellKept
  <2>2. CASE r.disk # c.disk
    <3>1. \A u \in Times : r.disk[u] # None =>
            /\ c.disk[u] # None
            /\ r.disk[u].samples =
                 IF u = start THEN c.disk[u].samples \cup PartOf(st.segment) ELSE c.disk[u].samples
      BY <1>2, <1>7, <2>2
    <3>2. \A u \in Times : c.disk[u] # None => c.disk[u].samples \cap PartOf(st.segment) = {}
      BY <1>2, StoredIn DEF WellKept
    <3>3. FilesApart(c.disk)
      BY <1>2 DEF WellKept
    <3>4. FilesApart(r.disk)
      BY <3>1, <3>2, <3>3 DEF FilesApart
    <3>5. Stored(r.disk) \subseteq Stored(c.disk) \cup PartOf(st.segment)
      <4>1. ASSUME NEW x \in Stored(r.disk) PROVE x \in Stored(c.disk) \cup PartOf(st.segment)
        <5>1. PICK u \in Times : r.disk[u] # None /\ x \in r.disk[u].samples
          BY <4>1, StoredIn
        <5>2. c.disk[u] # None /\ x \in c.disk[u].samples \cup PartOf(st.segment)
          BY <3>1, <5>1
        <5>3. QED
          BY <5>2, StoredIn
      <4>2. QED
        BY <4>1
    <3>6. QED
      BY <3>4, <3>5, <1>2
  <2>3. QED
    BY <2>1, <2>2
<1>10. r.segment.fd = "none" => ~r.ok /\ WellKept(r) /\ Stored(r.disk) \subseteq Stored(st.disk)
  BY <1>1, <1>2, <1>6, <1>7
<1>11. ASSUME f = "none", st.ok, FileFits(st.segment, st.disk)
       PROVE  /\ r.ok /\ r.segment.fd = "open" /\ FileFits(r.segment, r.disk)
              /\ Stored(r.disk) = Stored(st.disk) \cup PartOf(st.segment)
  <2>1. c.ok /\ c.segment.fd = "open" /\ c.disk[start] # None
    BY <1>2, <1>4, <1>11 DEF FileFits
  <2>2. r.ok /\ r.segment = c.segment /\ r.disk[start] # None
        /\ r.disk[start].samples = c.disk[start].samples \cup PartOf(st.segment)
        /\ \A u \in Times : r.disk[u] # None <=> c.disk[u] # None
    <3>1. r.ok /\ r.segment = c.segment
          /\ r.disk[start].samples = c.disk[start].samples \cup PartOf(st.segment)
      BY <1>2, <1>7, <1>11, <2>1
    <3>2. r.disk[start] # None /\ \A u \in Times \ {start} : r.disk[u] = c.disk[u]
      BY <1>7, <2>1
    <3>3. QED
      BY <2>1, <3>1, <3>2
  <2>3. \A u \in Times \ {start} : r.disk[u] = c.disk[u]
    BY <1>7
  <2>4. \A u \in Times : c.disk[u] # None => c.disk[u].samples \subseteq r.disk[u].samples
    BY <2>2, <2>3
  <2>5. Stored(c.disk) \subseteq Stored(r.disk)
    BY <2>2, <2>4, StoredIn
  <2>6. PartOf(st.segment) \subseteq Stored(r.disk)
    BY <2>2, <1>3, StoredIn
  <2>7. FileFits(r.segment, r.disk)
    BY <1>2, <1>4, <1>11, <2>2 DEF FileFits
  <2>8. QED
    BY <1>2, <1>9, <1>11, <2>1, <2>2, <2>5, <2>6, <2>7
<1>12. QED
  BY <1>1, <1>7, <1>8, <1>9, <1>10, <1>11 DEF r

LEMMA ClosedState ==
  ASSUME NEW st \in States, NEW b \in BOOLEAN
  PROVE  LET r == [st EXCEPT !.segment.fd = "closed", !.ok = b] IN
         /\ r = [segment |-> [st.segment EXCEPT !.fd = "closed"], disk |-> st.disk, ok |-> b]
         /\ r \in States
<1>1. [st.segment EXCEPT !.fd = "closed"] \in Segments
  BY DEF States, Segments
<1>2. [st EXCEPT !.segment.fd = "closed", !.ok = b] =
        [segment |-> [st.segment EXCEPT !.fd = "closed"], disk |-> st.disk, ok |-> b]
  <2> DEFINE x == [st.segment EXCEPT !.fd = "closed"]
             y == [st EXCEPT !.segment = x]
  <2>1. [st EXCEPT !.segment.fd = "closed", !.ok = b] = [y EXCEPT !.ok = b]
    OBVIOUS
  <2>2. y = [segment |-> x, disk |-> st.disk, ok |-> st.ok]
    BY DEF States
  <2> HIDE DEF x, y
  <2>3. QED
    BY <2>1, <2>2 DEF x
<1>3. QED
  BY <1>1, <1>2 DEF States

(* A segment is closed: nothing is left in memory, or its file could not   *)
(* be made.                                                                *)
LEMMA CloseSegmentFacts ==
  ASSUME NEW st \in States, NEW f, WellKept(st)
  PROVE  LET r == CloseSegment(st, f) IN
         /\ r \in States
         /\ r.segment = [st.segment EXCEPT !.fd = r.segment.fd]
         /\ WellKept(r)
         /\ Stored(r.disk) \cup PartOf(r.segment) \subseteq Stored(st.disk) \cup PartOf(st.segment)
         /\ r.ok => PartOf(r.segment) = {}
         /\ f = "none" /\ st.ok /\ FileFits(st.segment, st.disk) =>
              /\ r.ok
              /\ \A u \in Times : r.disk[u] # None => u <= st.segment.start
              /\ Stored(r.disk) = Stored(st.disk) \cup PartOf(st.segment)
<1> DEFINE a == IF st.segment.part = None THEN st ELSE ClosePart(st, f)
           r == CloseSegment(st, f)
           start == st.segment.start
<1>1. st.segment \in Segments /\ start \in Times /\ st.disk \in Disks
  BY DEF States, Segments
<1>2. /\ a \in States
      /\ a.segment = [st.segment EXCEPT !.fd = a.segment.fd]
      /\ FilesApart(a.disk)
      /\ Stored(a.disk) \subseteq Stored(st.disk) \cup PartOf(st.segment)
      /\ a.segment.fd = "none" => WellKept(a) /\ Stored(a.disk) \subseteq Stored(st.disk)
      /\ a.segment.fd = "none" /\ a.ok => st.segment.part = None
      /\ st.segment.fd # "none" => a.segment.fd = st.segment.fd
      /\ f = "none" /\ st.ok /\ FileFits(st.segment, st.disk) =>
           /\ a.ok
           /\ st.segment.part # None => a.segment.fd = "open"
           /\ FileFits(a.segment, a.disk)
           /\ Stored(a.disk) = Stored(st.disk) \cup PartOf(st.segment)
  <2>1. CASE st.segment.part = None
    <3>1. a = st /\ PartOf(st.segment) = {}
      BY <2>1 DEF PartOf
    <3>2. st.segment = [st.segment EXCEPT !.fd = st.segment.fd]
      BY <1>1 DEF Segments
    <3>3. QED
      BY <2>1, <3>1, <3>2 DEF WellKept
  <2>2. CASE st.segment.part # None
    <3>1. a = ClosePart(st, f)
      BY <2>2
    <3> HIDE DEF a
    <3>2. QED
      BY <2>2, <3>1, <1>1, ClosePartFacts DEF Segments
  <2>3. QED
    BY <2>1, <2>2
<1>3. a.segment.part = st.segment.part /\ a.segment.start = start /\ a.segment.end = st.segment.end
      /\ a.segment \in Segments /\ a.disk \in Disks /\ a.ok \in BOOLEAN
  BY <1>1, <1>2 DEF Segments, States
<1> DEFINE fine == a.ok /\ (f # "duration" \/ recording.format = "mpegts")
           done == [a EXCEPT !.segment.fd = "closed",
                             !.ok = @ /\ (f # "duration" \/ recording.format = "mpegts")]
           old == a.disk[start]
           length == IF fine \/ f = "part" THEN a.segment.end - start ELSE 0
           file == [old EXCEPT !.completed = @ + 1, !.duration = length]
<1>d. r = IF a.segment.fd # "open" THEN [a EXCEPT !.ok = @ /\ a.segment.fd = "none"]
          ELSE IF a.disk[a.segment.start] = None THEN done
          ELSE [done EXCEPT !.disk[a.segment.start].completed = @ + 1,
                            !.disk[a.segment.start].duration =
                 IF done.ok \/ f = "part" THEN a.segment.end - a.segment.start ELSE 0]
  BY Zenon DEF CloseSegment
<1> HIDE DEF a, r
<1>5. done.ok = fine /\ done.disk = a.disk /\ done.segment = [a.segment EXCEPT !.fd = "closed"]
      /\ done = [segment |-> done.segment, disk |-> done.disk, ok |-> done.ok]
      /\ done.segment \in Segments /\ done.segment.fd = "closed" /\ done.segment.start = start
      /\ PartOf(done.segment) = {}
  <2>0. fine \in BOOLEAN
    BY <1>3
  <2>1. done.ok = fine /\ done.disk = a.disk /\ done.segment = [a.segment EXCEPT !.fd = "closed"]
        /\ done = [segment |-> done.segment, disk |-> done.disk, ok |-> done.ok]
    <3>1. \A b \in BOOLEAN :
            [a EXCEPT !.segment.fd = "closed", !.ok = b] =
              [segment |-> [a.segment EXCEPT !.fd = "closed"], disk |-> a.disk, ok |-> b]
      BY <1>2, ClosedState
    <3>2. done = [a EXCEPT !.segment.fd = "closed", !.ok = fine]
      OBVIOUS
    <3> HIDE DEF done, fine
    <3>3. QED
      BY <2>0, <3>1, <3>2
  <2>2. done.segment \in Segments /\ done.segment.fd = "closed" /\ done.segment.start = start
    BY <2>1, <1>3 DEF Segments
  <2>3. QED
    BY <2>1, <2>2 DEF PartOf
<1>6. fine \in BOOLEAN
  BY <1>3
<1>4. r = IF a.segment.fd # "open" THEN [a EXCEPT !.ok = @ /\ a.segment.fd = "none"]
          ELSE IF old = None THEN done
          ELSE [done EXCEPT !.disk[start].completed = @ + 1, !.disk[start].duration = length]
  <2>1. done.ok = fine
    BY <1>5
  <2> HIDE DEF done, fine
  <2>2. a.segment.start = start
    BY <1>3
  <2> HIDE DEF start
  <2>3. QED
    BY <1>d, <2>1, <2>2, Zenon
<1>7. done.segment = [st.segment EXCEPT !.fd = "closed"]
  BY <1>1, <1>2, <1>5 DEF Segments
<1>8. CASE a.segment.fd # "open"
  <2>1. r.segment = a.segment /\ r.disk = a.disk /\ r.ok = (a.ok /\ a.segment.fd = "none") /\ r \in States
    BY <1>2, <1>4, <1>8 DEF States
  <2>2. a.segment.fd = "closed" => PartOf(a.segment) = {}
    BY DEF PartOf
  <2>3. a.segment.fd \in {"none", "closed"}
    BY <1>3, <1>8 DEF Segments
  <2>4. a.segment.fd = "none" => PartOf(a.segment) = PartOf(st.segment)
    BY <1>2, <1>3 DEF PartOf
  <2>5. WellKept(r) /\ (r.ok => PartOf(r.segment) = {})
    <3>1. CASE a.segment.fd = "none"
      BY <1>2, <1>3, <2>1, <3>1 DEF PartOf, WellKept
    <3>2. CASE a.segment.fd = "closed"
      BY <1>2, <2>1, <2>2, <3>2 DEF WellKept
    <3>3. QED
      BY <2>3, <3>1, <3>2
  <2>6. Stored(r.disk) \cup PartOf(r.segment) \subseteq Stored(st.disk) \cup PartOf(st.segment)
    BY <1>2, <2>1, <2>2, <2>3, <2>4
  <2>7. FileFits(a.segment, a.disk) =>
          a.segment.fd = "none" /\ \A u \in Times : a.disk[u] # None => u <= start
    BY <1>1, <1>3, <2>3 DEF FileFits, Times
  <2>8. r.segment = [st.segment EXCEPT !.fd = r.segment.fd]
    BY <1>2, <2>1
  <2>9. ASSUME f = "none", st.ok, FileFits(st.segment, st.disk)
        PROVE  r.ok /\ Stored(r.disk) = Stored(st.disk) \cup PartOf(st.segment)
    BY <1>2, <2>1, <2>7, <2>9
  <2>10. ASSUME f = "none", st.ok, FileFits(st.segment, st.disk), NEW u \in Times, r.disk[u] # None
         PROVE  u <= start
    BY <1>2, <2>1, <2>7, <2>10
  <2>11. QED
    BY <2>1, <2>5, <2>6, <2>8, <2>9, <2>10 DEF r
<1>9. CASE a.segment.fd = "open" /\ old = None
  <2>1. r = done /\ r \in States
    BY <1>3, <1>4, <1>5, <1>6, <1>9 DEF States
  <2>2. WellKept(r)
    BY <1>2, <1>5, <2>1 DEF WellKept
  <2>3. ~FileFits(a.segment, a.disk)
    BY <1>3, <1>9 DEF FileFits
  <2>4. Stored(r.disk) \cup PartOf(r.segment) \subseteq Stored(st.disk) \cup PartOf(st.segment)
    BY <1>2, <1>5, <2>1
  <2>5. r.segment = [st.segment EXCEPT !.fd = r.segment.fd] /\ PartOf(r.segment) = {}
    BY <1>5, <1>7, <2>1
  <2>6. ~(f = "none" /\ st.ok /\ FileFits(st.segment, st.disk))
    BY <1>2, <2>3
  <2>7. QED
    BY <2>1, <2>2, <2>4, <2>5, <2>6 DEF r
<1>10. CASE a.segment.fd = "open" /\ old # None
  <2> HIDE DEF fine
  <2>1. old \in Files /\ length \in -MaxTime..MaxTime
    <3>1. a.segment.end \in Times
      BY <1>3 DEF Segments
    <3>2. old \in Files
      BY <1>1, <1>3, <1>10 DEF Disks
    <3>3. QED
      BY <1>1, <3>1, <3>2, DurationsAreNaturals DEF Times
  <2> HIDE DEF length, old
  <2>2. file \in Files /\ file.samples = old.samples
    <3>1. old.completed + 1 \in Nat
      BY <2>1 DEF Files
    <3>2. QED
      BY <2>1, <3>1 DEF Files
  <2>3. r = [segment |-> done.segment, disk |-> [a.disk EXCEPT ![start] = file], ok |-> fine]
    <3>1. r = [done EXCEPT !.disk[start].completed = @ + 1, !.disk[start].duration = length]
      BY <1>4, <1>10
    <3>2. done.disk[start] = old
      BY <1>5 DEF old
    <3>3. start \in DOMAIN done.disk
      BY <1>1, <1>3, <1>5 DEF Disks
    <3> HIDE DEF done
    <3>4. QED
      BY <3>1, <3>2, <3>3, <1>5
  <2>4. file # None
    BY <2>2, NoneIsNothing
  <2> HIDE DEF file, done
  <2>5. r.disk \in Disks /\ r.disk[start] = file /\ \A u \in Times \ {start} : r.disk[u] = a.disk[u]
    BY <1>1, <1>3, <2>2, <2>3 DEF Disks
  <2>6. r \in States /\ r.segment = done.segment /\ r.ok = fine
    BY <2>3, <2>5, <1>5, <1>6 DEF States
  <2>7. \A u \in Times : /\ r.disk[u] # None <=> a.disk[u] # None
                         /\ a.disk[u] # None => r.disk[u].samples = a.disk[u].samples
    BY <1>10, <2>2, <2>4, <2>5 DEF old
  <2>8. Stored(r.disk) = Stored(a.disk) /\ FilesApart(r.disk)
    <3>1. Stored(r.disk) \subseteq Stored(a.disk) /\ Stored(a.disk) \subseteq Stored(r.disk)
      BY <2>7, StoredIn
    <3>2. FilesApart(r.disk)
      BY <1>2, <2>7 DEF FilesApart
    <3>3. QED
      BY <3>1, <3>2
  <2>9. WellKept(r)
    BY <2>6, <2>8, <1>5 DEF WellKept
  <2>10. FileFits(a.segment, a.disk) => \A u \in Times : r.disk[u] # None => u <= start
    BY <1>1, <1>3, <2>7 DEF FileFits, Times
  <2>11. f = "none" /\ a.ok => r.ok
    BY <2>6 DEF fine
  <2>12. PartOf(r.segment) = {} /\ r.segment = [st.segment EXCEPT !.fd = r.segment.fd]
    BY <1>5, <1>7, <2>6
  <2>13. QED
    <3>1. Stored(r.disk) \cup PartOf(r.segment) \subseteq Stored(st.disk) \cup PartOf(st.segment)
      BY <1>2, <2>8, <2>12
    <3>2. f = "none" /\ st.ok /\ FileFits(st.segment, st.disk) =>
            r.ok /\ Stored(r.disk) = Stored(st.disk) \cup PartOf(st.segment)
      BY <1>2, <2>8, <2>11
    <3>3. f = "none" /\ st.ok /\ FileFits(st.segment, st.disk) =>
            \A u \in Times : r.disk[u] # None => u <= start
      BY <1>2, <2>10
    <3>4. QED
      BY <2>6, <2>9, <2>12, <3>1, <3>2, <3>3 DEF r
<1>11. QED
  BY <1>8, <1>9, <1>10 DEF r

LEMMA MaxOfTwo ==
  ASSUME NEW a \in Int, NEW b \in Int
  PROVE  Max({a, b}) \in {a, b}
<1>1. \E x \in {a, b} : \A y \in {a, b} : x >= y
  BY DEF Times
<1>2. QED
  BY <1>1 DEF Max

(* A sample joins the part.                                                *)
LEMMA PutInPartFacts ==
  ASSUME NEW st \in States, NEW f, WellKept(st), NEW s \in Samples, NEW end \in Times,
         s \notin Stored(st.disk) \cup PartOf(st.segment)
  PROVE  LET r == PutInPart(st, s, end, f) IN
         /\ r \in States
         /\ r.segment.start = st.segment.start /\ r.segment.pending = st.segment.pending
         /\ WellKept(r)
         /\ Stored(r.disk) \cup PartOf(r.segment)
              \subseteq Stored(st.disk) \cup PartOf(st.segment) \cup {s}
         /\ f = "none" /\ st.ok /\ FileFits(st.segment, st.disk) =>
              /\ r.ok /\ FileFits(r.segment, r.disk)
              /\ Stored(r.disk) \cup PartOf(r.segment) =
                   Stored(st.disk) \cup PartOf(st.segment) \cup {s}
<1> DEFINE p == st.segment.part
           c == ClosePart(st, f)
           a == IF p # None /\ p.end - p.start >= PartDuration THEN [c EXCEPT !.segment.part = None]
                ELSE st
           q == IF a.segment.part = None THEN [start |-> s.dts, end |-> end, samples |-> {s}]
                ELSE [p EXCEPT !.end = Max({@, end}), !.samples = @ \cup {s}]
           r == PutInPart(st, s, end, f)
<1>1. r = IF a.ok THEN [a EXCEPT !.segment.part = q, !.segment.end = Max({@, end})] ELSE a
  BY DEF PutInPart
<1>2. st.segment \in Segments
  BY DEF States
<1>3. /\ a \in States
      /\ a.segment.start = st.segment.start /\ a.segment.pending = st.segment.pending
      /\ WellKept(a)
      /\ Stored(a.disk) \cup PartOf(a.segment) \subseteq Stored(st.disk) \cup PartOf(st.segment)
      /\ a.segment.part # None => a = st
      /\ f = "none" /\ st.ok /\ FileFits(st.segment, st.disk) =>
           /\ a.ok /\ FileFits(a.segment, a.disk)
           /\ Stored(a.disk) \cup PartOf(a.segment) = Stored(st.disk) \cup PartOf(st.segment)
  <2>1. CASE p # None /\ p.end - p.start >= PartDuration
    <3>1. a = [c EXCEPT !.segment.part = None]
      BY <2>1
    <3>2. /\ c \in States
          /\ c.segment = [st.segment EXCEPT !.fd = c.segment.fd]
          /\ FilesApart(c.disk)
          /\ Stored(c.disk) \subseteq Stored(st.disk) \cup PartOf(st.segment)
          /\ f = "none" /\ st.ok /\ FileFits(st.segment, st.disk) =>
              /\ c.ok /\ c.segment.fd = "open" /\ FileFits(c.segment, c.disk)
              /\ Stored(c.disk) = Stored(st.disk) \cup PartOf(st.segment)
      BY <2>1, ClosePartFacts
    <3> HIDE DEF c, a
    <3>3. /\ a.segment = [c.segment EXCEPT !.part = None]
          /\ a = [segment |-> a.segment, disk |-> c.disk, ok |-> c.ok]
      BY <3>1, <3>2 DEF States
    <3>4. c.segment \in Segments
      BY <3>2 DEF States
    <3>5. a.segment \in Segments /\ a.segment.part = None /\ a.segment.fd = c.segment.fd
          /\ a.segment.start = c.segment.start /\ a.segment.pending = c.segment.pending
      BY <3>3, <3>4 DEF Segments
    <3>6. c.segment.start = st.segment.start /\ c.segment.pending = st.segment.pending
      BY <1>2, <3>2 DEF Segments
    <3>7. a.disk = c.disk /\ a.ok = c.ok /\ a \in States
      BY <3>2, <3>3, <3>5 DEF States
    <3>8. PartOf(a.segment) = {}
      BY <3>5 DEF PartOf
    <3>9. WellKept(a)
      BY <3>2, <3>7, <3>8 DEF WellKept
    <3>10. FileFits(c.segment, c.disk) => FileFits(a.segment, a.disk)
      BY <3>5, <3>7 DEF FileFits
    <3>11. QED
      BY <3>2, <3>5, <3>6, <3>7, <3>8, <3>9, <3>10
  <2>2. CASE ~(p # None /\ p.end - p.start >= PartDuration)
    <3>1. a = st
      BY <2>2
    <3>2. QED
      BY <3>1
  <2>3. QED
    BY <2>1, <2>2
<1>4. a.segment \in Segments /\ a.disk \in Disks /\ a.ok \in BOOLEAN /\ a.segment.end \in Times
  BY <1>3 DEF States, Segments
<1> HIDE DEF a, r
<1>5. Max({a.segment.end, end}) \in Times
  BY <1>4, MaxOfTwo, DurationsAreNaturals DEF Times
<1>6. /\ q \in Parts
      /\ q.samples = {s} \cup (IF a.segment.part = None THEN {} ELSE a.segment.part.samples)
  <2>1. CASE a.segment.part = None
    BY <2>1 DEF Parts, Samples
  <2>2. CASE a.segment.part # None
    <3>1. p \in Parts /\ p = a.segment.part
      BY <1>2, <1>3, <2>2 DEF Segments
    <3>2. Max({p.end, end}) \in Times
      BY <3>1, MaxOfTwo, DurationsAreNaturals DEF Times, Parts
    <3>3. q = [p EXCEPT !.end = Max({p.end, end}), !.samples = p.samples \cup {s}]
      BY <2>2
    <3>4. QED
      BY <2>2, <3>1, <3>2, <3>3 DEF Parts
  <2>3. QED
    BY <2>1, <2>2
<1>7. q # None
  BY <1>6, NoneIsNothing
<1> HIDE DEF q
<1>8. CASE ~a.ok
  <2>1. r = a
    BY <1>1, <1>8
  <2>2. QED
    BY <1>3, <1>8, <2>1 DEF r
<1>9. CASE a.ok
  <2> DEFINE e == Max({a.segment.end, end})
  <2>1. r = [a EXCEPT !.segment.part = q, !.segment.end = e]
    BY <1>1, <1>9
  <2>0. e \in Times
    BY <1>5
  <2> HIDE DEF e
  <2>2. /\ r \in States
        /\ r.segment.part = q /\ r.segment.fd = a.segment.fd
        /\ r.segment.start = a.segment.start /\ r.segment.pending = a.segment.pending
        /\ r.disk = a.disk /\ r.ok = a.ok
    <3> DEFINE y == [a.segment EXCEPT !.part = q]
               x == [y EXCEPT !.end = e]
    <3>1. r = [a EXCEPT !.segment = x]
      BY <2>1
    <3>2. y \in Segments /\ y.part = q /\ y.fd = a.segment.fd
          /\ y.start = a.segment.start /\ y.pending = a.segment.pending
      BY <1>4, <1>6 DEF Segments
    <3> HIDE DEF y
    <3>3. x \in Segments /\ x.part = q /\ x.fd = a.segment.fd
          /\ x.start = a.segment.start /\ x.pending = a.segment.pending
      BY <3>2, <2>0 DEF Segments
    <3> HIDE DEF x
    <3>4. r = [segment |-> x, disk |-> a.disk, ok |-> a.ok]
      BY <1>3, <3>1 DEF States
    <3>5. QED
      BY <1>4, <3>3, <3>4 DEF States
  <2>3. /\ a.segment.fd = "closed" => PartOf(r.segment) = {}
        /\ a.segment.fd # "closed" => PartOf(r.segment) = PartOf(a.segment) \cup {s}
    BY <1>6, <1>7, <2>2 DEF PartOf
  <2>4. s \notin Stored(a.disk)
    BY <1>3
  <2>5. WellKept(r)
    BY <1>3, <2>2, <2>3, <2>4 DEF WellKept
  <2>6. FileFits(a.segment, a.disk) => FileFits(r.segment, r.disk) /\ a.segment.fd # "closed"
    BY <2>2 DEF FileFits
  <2>7. Stored(r.disk) \cup PartOf(r.segment)
          \subseteq Stored(st.disk) \cup PartOf(st.segment) \cup {s}
    BY <1>3, <2>2, <2>3
  <2>8. ASSUME f = "none", st.ok, FileFits(st.segment, st.disk)
        PROVE  /\ r.ok /\ FileFits(r.segment, r.disk)
               /\ Stored(r.disk) \cup PartOf(r.segment) =
                    Stored(st.disk) \cup PartOf(st.segment) \cup {s}
    BY <1>3, <2>2, <2>3, <2>6, <2>8
  <2>9. QED
    BY <1>3, <2>2, <2>5, <2>7, <2>8 DEF r
<1>10. QED
  BY <1>4, <1>8, <1>9

LEMMA TwoHaveBounds ==
  ASSUME NEW a \in Int, NEW b \in Int, NEW D \in SUBSET {a, b}, D # {}
  PROVE  /\ Max(D) \in D /\ \A x \in D : Max(D) >= x
         /\ Min(D) \in D /\ \A x \in D : Min(D) <= x
<1>1. \E x \in D : \A y \in D : x >= y
  <2>1. CASE a \in D /\ b \in D
    BY <2>1
  <2>2. CASE a \notin D \/ b \notin D
    <3>1. \A x, y \in D : x = y /\ x \in Int
      BY <2>2
    <3>2. PICK x \in D : TRUE
      OBVIOUS
    <3>3. \A y \in D : x >= y
      BY <3>1
    <3>4. QED
      BY <3>3
  <2>3. QED
    BY <2>1, <2>2
<1>2. \E x \in D : \A y \in D : x <= y
  <2>1. CASE a \in D /\ b \in D
    BY <2>1
  <2>2. CASE a \notin D \/ b \notin D
    <3>1. \A x, y \in D : x = y /\ x \in Int
      BY <2>2
    <3>2. PICK x \in D : TRUE
      OBVIOUS
    <3>3. \A y \in D : x <= y
      BY <3>1
    <3>4. QED
      BY <3>3
  <2>3. QED
    BY <2>1, <2>2
<1>3. QED
  BY <1>1, <1>2 DEF Max, Min

(* nextSegmentStartingPos.                                                 *)
LEMMA NextStartFacts ==
  ASSUME NEW next \in [Tracks -> Samples \cup {None}], NEW t \in Pending(next)
  PROVE  /\ NextStart(next) \in Times
         /\ NextStart(next) >= next[t].dts - MaxBasetime
         /\ \A u \in Pending(next) :
              next[u].dts < NextStart(next) =>
                \E v \in Pending(next) : next[v].dts - next[u].dts > MaxBasetime
<1> DEFINE D == {next[u].dts : u \in Pending(next)}
           newest == Max(D)
           E == {next[u].dts : u \in {v \in Pending(next) : newest - next[v].dts <= MaxBasetime}}
           one == IF next["video"] = None THEN next["audio"].dts ELSE next["video"].dts
           other == IF next["audio"] = None THEN next["video"].dts ELSE next["audio"].dts
<1>1. \A u \in Pending(next) : next[u].dts \in Times /\ u \in Tracks
  BY DEF Pending, Samples
<1>2. Times \subseteq Int /\ MaxBasetime \in Nat
  BY DurationsAreNaturals DEF Times
<1>3. one \in Int /\ other \in Int
  BY <1>1, <1>2 DEF Pending, Tracks
<1>4. D \in SUBSET {one, other} /\ D # {} /\ D \subseteq Times
  BY <1>1 DEF Pending, Tracks
<1> HIDE DEF one, other
<1>5. newest \in D /\ \A x \in D : newest >= x
  BY <1>3, <1>4, TwoHaveBounds
<1>6. PICK v \in Pending(next) : newest = next[v].dts
  BY <1>5
<1>7. E \subseteq D /\ next[v].dts \in E
  <2> HIDE DEF newest
  <2>0. next[v].dts \in Int
    BY <1>1, <1>2
  <2>1. newest - next[v].dts <= MaxBasetime
    BY <1>2, <1>6, <2>0
  <2>2. v \in {u \in Pending(next) : newest - next[u].dts <= MaxBasetime}
    BY <2>1
  <2>3. QED
    BY <2>2
<1>8. Min(E) \in E /\ \A x \in E : Min(E) <= x
  <2>1. E \in SUBSET {one, other} /\ E # {}
    BY <1>4, <1>7
  <2> HIDE DEF E
  <2>2. QED
    BY <2>1, <1>3, TwoHaveBounds
<1>9. NextStart(next) = Min(E)
  BY DEF NextStart
<1> HIDE DEF newest
<1>10. PICK w \in Pending(next) : Min(E) = next[w].dts /\ newest - next[w].dts <= MaxBasetime
  BY <1>8
<1>11. newest \in Int /\ newest >= next[t].dts /\ newest = next[v].dts
  BY <1>2, <1>4, <1>5, <1>6
<1>12. \A u \in Pending(next) : next[u].dts < Min(E) => next[v].dts - next[u].dts > MaxBasetime
  <2> SUFFICES ASSUME NEW u \in Pending(next), next[u].dts < Min(E)
               PROVE  next[v].dts - next[u].dts > MaxBasetime
    OBVIOUS
  <2>1. ~(newest - next[u].dts <= MaxBasetime)
    <3>1. SUFFICES ASSUME newest - next[u].dts <= MaxBasetime PROVE FALSE
      OBVIOUS
    <3>2. next[u].dts \in E
      BY <3>1
    <3>3. next[u].dts \in Int /\ Min(E) \in Int
      BY <1>1, <1>2, <1>10
    <3> HIDE DEF E
    <3>4. QED
      BY <3>2, <3>3, <1>8
  <2>2. next[u].dts \in Int
    BY <1>1, <1>2
  <2>3. newest - next[u].dts > MaxBasetime
    BY <2>1, <2>2, <1>2, <1>11
  <2>4. QED
    BY <2>3, <1>11
<1> HIDE DEF E
<1>13. Min(E) \in Times /\ Min(E) >= next[t].dts - MaxBasetime
  <2>1. Min(E) \in Times /\ Min(E) \in Int /\ next[t].dts \in Int
    BY <1>1, <1>2, <1>10
  <2>2. newest - Min(E) <= MaxBasetime
    BY <1>10
  <2>3. QED
    BY <2>1, <2>2, <1>2, <1>11
<1>14. QED
  BY <1>9, <1>12, <1>13

LEMMA HeldIs ==
  ASSUME NEW fm \in Formats
  PROVE  Held(fm) = Waiting(fm) \cup InPart(fm)
BY DEF Held, Waiting, InPart, PartOf

LEMMA OpenFacts ==
  ASSUME NEW start \in Times, NEW pending \in SUBSET Samples
  PROVE  /\ Open(start, pending) \in Segments
         /\ Open(start, pending) # None
         /\ Open(start, pending).start = start /\ Open(start, pending).pending = pending
         /\ Open(start, pending).fd = "none"
         /\ PartOf(Open(start, pending)) = {}
<1>1. Open(start, pending) \in Segments
  BY DEF Open, Segments
<1>2. QED
  BY <1>1, NoneIsNothing DEF Open, PartOf

(* What a callback does with a sample, whatever fails in it.               *)
WriteKeeps(res, s, f) ==
  /\ res.format \in Formats /\ res.disk \in Disks /\ res.ok \in BOOLEAN
  /\ Placed(res.format, res.disk)
  /\ Held(res.format) \cup Stored(res.disk) \subseteq Held(format) \cup Stored(disk) \cup {s}
  /\ res.late \subseteq Held(format) \ (Held(res.format) \cup Stored(res.disk))
  /\ \/ /\ format.segment # None /\ res.format.segment # None
        /\ res.format.segment.start = format.segment.start
        /\ res.format.segment.pending = format.segment.pending
        /\ \A x \in res.late : x.dts < format.segment.start
     \/ /\ res.late = {}
        /\ res.format.segment # None =>
             /\ Fair(res.format.segment)
             /\ res.format.segment.pending \subseteq Held(format) \cup {s}
  /\ f = "none" /\ Fits(format.segment, disk) /\ SegmentDuration > MaxBasetime =>
       /\ res.ok /\ Fits(res.format.segment, res.disk)
       /\ Held(res.format) \cup Stored(res.disk) \cup res.late = Held(format) \cup Stored(disk) \cup {s}

LEMMA FMP4Facts ==
  ASSUME format \in Formats, disk \in Disks, Placed(format, disk), NEW f,
         NEW s \in Samples, s \notin Held(format) \cup Stored(disk)
  PROVE  WriteKeeps(FMP4Write(s, f), s, f)
<1> DEFINE t    == s.track
           prev == format.next[t]
           next == [format.next EXCEPT ![t] = s]
           hasVideo == format.hasVideo \/ t = "video"
           st0  == [segment |-> IF format.segment = None THEN Open(prev.dts, {})
                                ELSE format.segment,
                    disk |-> disk, ok |-> TRUE]
           st1  == PutInPart(st0, prev, s.dts, f)
           full == /\ ~hasVideo \/ t = "video"
                   /\ s.sync
                   /\ s.dts - st1.segment.start >= SegmentDuration
           st2  == CloseSegment(st1, f)
           begun == Open(NextStart(next), {next[u] : u \in Pending(next)})
           st3  == CASE ~st1.ok \/ ~full -> st1
                     [] st1.ok /\ full /\ ~st2.ok -> st2
                     [] OTHER -> [st2 EXCEPT !.segment = begun]
           tooLate == prev # None /\ prev.dts < st0.segment.start
           skips   == prev = None \/ tooLate
           segment == IF skips THEN format.segment ELSE st3.segment
           res == FMP4Write(s, f)
<1>1. /\ res.ok = (skips \/ st3.ok)
      /\ res.disk = IF skips THEN disk ELSE st3.disk
      /\ res.late = IF tooLate THEN {prev} ELSE {}
      /\ res.format = [format EXCEPT !.hasVideo = hasVideo, !.next = next, !.open = TRUE,
                                     !.segment = segment]
  BY DEF FMP4Write
<1>2. /\ t \in Tracks /\ prev \in Samples \cup {None} /\ s # None
      /\ next \in [Tracks -> Samples \cup {None}] /\ hasVideo \in BOOLEAN
      /\ format.segment \in Segments \cup {None} /\ format.next \in [Tracks -> Samples \cup {None}]
      /\ s.dts \in Times
  BY NoneIsNothing DEF Formats, Samples
<1>3. next[t] = s /\ \A u \in Tracks \ {t} : next[u] = format.next[u]
  BY <1>2
<1> DEFINE W == {next[u] : u \in Pending(next)}
<1> HIDE DEF next, res, st3, hasVideo, prev
<1>4. /\ \A u \in Pending(next) : next[u].track = u
      /\ W = (Waiting(format) \ {prev}) \cup {s}
      /\ prev # None => prev \in Waiting(format)
      /\ t \in Pending(next)
  <2>1. \A u \in Pending(format.next) : format.next[u].track = u
    BY DEF Placed
  <2>2. t \in Pending(next) /\ Pending(next) = Pending(format.next) \cup {t}
    BY <1>2, <1>3 DEF Pending
  <2>3. \A u \in Pending(next) : next[u].track = u
    BY <2>1, <2>2, <1>3 DEF Pending
  <2>4. prev # None => prev \in Waiting(format)
    BY <1>2 DEF Waiting, Pending, prev
  <2>5. \A x \in W : x \in (Waiting(format) \ {prev}) \cup {s}
    <3> SUFFICES ASSUME NEW u \in Pending(next), u # t
                 PROVE  next[u] \in Waiting(format) \ {prev}
      BY <1>3
    <3>1. u \in Pending(format.next) /\ next[u] = format.next[u]
      BY <1>3, <2>2 DEF Pending
    <3>2. next[u] \in Waiting(format)
      BY <3>1 DEF Waiting
    <3>3. next[u] # prev
      BY <2>1, <3>1, <1>2 DEF prev, Pending
    <3>4. QED
      BY <3>2, <3>3
  <2>6. \A x \in Waiting(format) \ {prev} : x \in W
    BY <2>2, <1>3 DEF Waiting, prev, Pending
  <2>7. s \in W
    BY <1>3, <2>2
  <2>8. QED
    BY <2>2, <2>3, <2>4, <2>5, <2>6, <2>7
<1>5. Held(format) = Waiting(format) \cup InPart(format)
  BY HeldIs
<1>6. /\ Waiting(format) \cap InPart(format) = {}
      /\ (Waiting(format) \cup InPart(format)) \cap Stored(disk) = {}
      /\ FilesApart(disk)
  BY DEF Placed
<1>7. ASSUME segment \in Segments \cup {None}
      PROVE  /\ res.format \in Formats /\ res.format.next = next /\ res.format.segment = segment
             /\ Waiting(res.format) = W
             /\ Held(res.format) = W \cup InPart(res.format)
  <2> HIDE DEF segment
  <2> DEFINE a == [format EXCEPT !.hasVideo = hasVideo]
             b == [a EXCEPT !.next = next]
             c == [b EXCEPT !.open = TRUE]
  <2>1. res.format = [c EXCEPT !.segment = segment]
    BY <1>1
  <2>2. res.format \in Formats /\ res.format.next = next /\ res.format.segment = segment
    <3>1. a \in Formats
      BY <1>2 DEF Formats
    <3> HIDE DEF a
    <3>2. b \in Formats /\ b.next = next
      BY <1>2, <3>1 DEF Formats
    <3> HIDE DEF b
    <3>3. c \in Formats /\ c.next = next
      BY <3>2 DEF Formats
    <3> HIDE DEF c
    <3>4. QED
      BY <1>7, <2>1, <3>3 DEF Formats
  <2>3. Waiting(res.format) = W
    BY <2>2 DEF Waiting
  <2>4. QED
    BY <2>2, <2>3, HeldIs
<1>8. CASE skips
  <2>1. segment = format.segment /\ res.disk = disk /\ res.ok
    BY <1>1, <1>8
  <2>2. segment \in Segments \cup {None} /\ InPart(res.format) = InPart(format)
    BY <1>2, <1>7, <2>1 DEF InPart
  <2>3. res.late = IF tooLate THEN {prev} ELSE {}
    BY <1>1
  <2>4. tooLate => format.segment # None /\ prev.dts < format.segment.start
    <3>1. SUFFICES ASSUME prev # None, format.segment = None PROVE ~(prev.dts < st0.segment.start)
      OBVIOUS
    <3>2. st0.segment.start = prev.dts /\ prev.dts \in Times
      BY <1>2, <3>1, OpenFacts DEF Samples
    <3>3. QED
      BY <3>2, DurationsAreNaturals DEF Times
  <2>5. prev # None => tooLate
    BY <1>8
  <2> HIDE DEF segment, tooLate, st0
  <2>6. Placed(res.format, res.disk)
    BY <1>4, <1>6, <1>7, <2>1, <2>2, <1>5 DEF Placed
  <2>7. Held(res.format) \cup Stored(res.disk) \subseteq Held(format) \cup Stored(disk) \cup {s}
    BY <1>4, <1>5, <1>7, <2>1, <2>2
  <2>l. res.late = IF prev # None THEN {prev} ELSE {}
    BY <2>3, <2>5 DEF tooLate
  <2>8. res.late \subseteq Held(format) \ (Held(res.format) \cup Stored(res.disk))
    <3>1. CASE prev = None
      BY <2>l, <3>1
    <3>2. CASE prev # None
      <4>1. prev \in Held(format) /\ prev # s
        BY <1>4, <1>5, <3>2
      <4>2. prev \notin W
        BY <1>4, <4>1
      <4>3. prev \notin InPart(format) /\ prev \notin Stored(disk)
        BY <1>4, <1>6, <3>2
      <4>4. prev \notin Held(res.format) \cup Stored(res.disk)
        BY <1>7, <2>1, <2>2, <4>2, <4>3
      <4>5. QED
        BY <2>l, <3>2, <4>1, <4>4
    <3>3. QED
      BY <3>1, <3>2
  <2>9. Held(res.format) \cup Stored(res.disk) \cup res.late = Held(format) \cup Stored(disk) \cup {s}
    <3>1. Held(res.format) \cup Stored(res.disk) =
            ((Waiting(format) \ {prev}) \cup {s}) \cup InPart(format) \cup Stored(disk)
      BY <1>4, <1>7, <2>1, <2>2
    <3>2. CASE prev = None
      <4>1. prev \notin Waiting(format)
        BY <3>2 DEF Waiting, Pending
      <4>2. QED
        BY <1>5, <2>l, <3>1, <3>2, <4>1
    <3>3. CASE prev # None
      BY <1>4, <1>5, <2>l, <3>1, <3>3
    <3>4. QED
      BY <3>2, <3>3
  <2>10. \/ /\ format.segment # None /\ res.format.segment # None
            /\ res.format.segment.start = format.segment.start
            /\ res.format.segment.pending = format.segment.pending
            /\ \A x \in res.late : x.dts < format.segment.start
         \/ /\ res.late = {}
            /\ res.format.segment # None => FALSE
    BY <1>7, <2>1, <2>2, <2>3, <2>4
  <2>11. Fits(format.segment, disk) => Fits(res.format.segment, res.disk)
    BY <1>7, <2>1, <2>2
  <2>12. res.ok \in BOOLEAN
    BY <2>1
  <2>13. WriteKeeps(res, s, f)
    BY <1>7, <2>1, <2>2, <2>6, <2>7, <2>8, <2>9, <2>10, <2>11 DEF WriteKeeps
  <2>14. QED
    BY <2>13 DEF res
<1>9. CASE ~skips
  <2> DEFINE calm == f = "none" /\ Fits(format.segment, disk) /\ SegmentDuration > MaxBasetime
  <2>1. /\ prev \in Samples /\ prev \in Waiting(format) /\ prev # s
        /\ prev \notin InPart(format) \cup Stored(disk)
        /\ res.late = {}
    BY <1>1, <1>2, <1>4, <1>5, <1>6, <1>9
  <2>2. /\ st0 \in States /\ WellKept(st0) /\ st0.disk = disk /\ st0.ok
        /\ PartOf(st0.segment) = InPart(format)
        /\ Fits(format.segment, disk) => FileFits(st0.segment, disk)
        /\ \/ format.segment # None /\ st0.segment = format.segment
           \/ st0.segment.pending = {}
    <3>1. CASE format.segment = None
      <4>1. prev.dts \in Times
        BY <2>1 DEF Samples
      <4>2. /\ st0.segment = Open(prev.dts, {}) /\ st0.segment \in Segments /\ st0.segment.fd = "none"
            /\ PartOf(st0.segment) = {} /\ st0.segment.pending = {}
        BY <3>1, <4>1, OpenFacts
      <4>3. InPart(format) = {}
        BY <3>1 DEF InPart
      <4>4. Fits(format.segment, disk) => FileFits(st0.segment, disk)
        BY <3>1, <4>2 DEF Fits, FileFits
      <4>5. QED
        BY <1>6, <4>2, <4>3, <4>4 DEF States, WellKept
    <3>2. CASE format.segment # None
      <4>1. st0.segment = format.segment /\ InPart(format) = PartOf(format.segment)
        BY <3>2 DEF InPart
      <4>2. QED
        BY <1>2, <1>6, <3>2, <4>1 DEF States, WellKept, Fits
    <3>3. QED
      BY <3>1, <3>2
  <2> HIDE DEF st0
  <2>3. /\ st1 \in States
        /\ st1.segment.start = st0.segment.start /\ st1.segment.pending = st0.segment.pending
        /\ WellKept(st1)
        /\ Stored(st1.disk) \cup PartOf(st1.segment) \subseteq Stored(disk) \cup InPart(format) \cup {prev}
        /\ calm => /\ st1.ok /\ FileFits(st1.segment, st1.disk)
                   /\ Stored(st1.disk) \cup PartOf(st1.segment) =
                        Stored(disk) \cup InPart(format) \cup {prev}
    <3>1. prev \notin Stored(st0.disk) \cup PartOf(st0.segment)
      BY <2>1, <2>2
    <3>3. /\ st1 \in States
          /\ st1.segment.start = st0.segment.start /\ st1.segment.pending = st0.segment.pending
          /\ WellKept(st1)
          /\ Stored(st1.disk) \cup PartOf(st1.segment)
               \subseteq Stored(st0.disk) \cup PartOf(st0.segment) \cup {prev}
          /\ f = "none" /\ st0.ok /\ FileFits(st0.segment, st0.disk) =>
               /\ st1.ok /\ FileFits(st1.segment, st1.disk)
               /\ Stored(st1.disk) \cup PartOf(st1.segment) =
                    Stored(st0.disk) \cup PartOf(st0.segment) \cup {prev}
      BY <1>2, <2>1, <2>2, <3>1, PutInPartFacts
    <3>4. QED
      BY <2>2, <3>3
  <2> HIDE DEF st1
  <2>4. /\ st3 \in States /\ WellKept(st3)
        /\ Stored(st3.disk) \cup PartOf(st3.segment) \subseteq Stored(disk) \cup InPart(format) \cup {prev}
        /\ \/ /\ st3.segment.start = st0.segment.start
              /\ st3.segment.pending = st0.segment.pending
           \/ Fair(st3.segment) /\ st3.segment.pending = W
        /\ calm => /\ st3.ok /\ FileFits(st3.segment, st3.disk)
                   /\ Stored(st3.disk) \cup PartOf(st3.segment) =
                        Stored(disk) \cup InPart(format) \cup {prev}
    <3>1. CASE ~st1.ok \/ ~full
      <4>1. st3 = st1
        BY <3>1 DEF st3
      <4>2. QED
        BY <2>3, <4>1
    <3>2. CASE st1.ok /\ full
      <4>1. /\ st2 \in States
            /\ st2.segment = [st1.segment EXCEPT !.fd = st2.segment.fd]
            /\ WellKept(st2)
            /\ Stored(st2.disk) \cup PartOf(st2.segment) \subseteq Stored(st1.disk) \cup PartOf(st1.segment)
            /\ f = "none" /\ st1.ok /\ FileFits(st1.segment, st1.disk) =>
              /\ st2.ok
              /\ \A u \in Times : st2.disk[u] # None => u <= st1.segment.start
              /\ Stored(st2.disk) = Stored(st1.disk) \cup PartOf(st1.segment)
        BY <2>3, CloseSegmentFacts
      <4>2. st1.segment \in Segments
        BY <2>3 DEF States
      <4> HIDE DEF st2
      <4>3. CASE ~st2.ok
        <5>1. st3 = st2
          BY <3>2, <4>3 DEF st3
        <5>2. st2.segment.start = st1.segment.start /\ st2.segment.pending = st1.segment.pending
          BY <4>1, <4>2 DEF Segments
        <5>3. ~calm
          BY <2>3, <3>2, <4>1, <4>3
        <5>4. Stored(st3.disk) \cup PartOf(st3.segment)
                \subseteq Stored(disk) \cup InPart(format) \cup {prev}
          BY <2>3, <4>1, <5>1
        <5>5. QED
          BY <2>3, <4>1, <5>1, <5>2, <5>3, <5>4
      <4>4. CASE st2.ok
        <5>1. st3 = [st2 EXCEPT !.segment = begun]
          BY <3>2, <4>4 DEF st3
        <5>2. NextStart(next) \in Times /\ NextStart(next) >= next[t].dts - MaxBasetime
              /\ \A u \in Pending(next) : next[u].dts < NextStart(next) =>
                   \E v \in Pending(next) : next[v].dts - next[u].dts > MaxBasetime
          BY <1>2, <1>4, NextStartFacts
        <5>3. W \in SUBSET Samples
          BY <1>2, NoneIsNothing DEF Pending
        <5>4. /\ begun \in Segments /\ begun.start = NextStart(next) /\ begun.pending = W
              /\ begun.fd = "none" /\ PartOf(begun) = {}
          BY <5>2, <5>3, OpenFacts
        <5>5. Fair(begun)
          <6> SUFFICES ASSUME NEW u \in Pending(next), next[u].dts < NextStart(next)
                       PROVE  \E y \in W : y.dts - next[u].dts > MaxBasetime
            BY <5>4 DEF Fair
          <6>1. QED
            BY <5>2
        <5> HIDE DEF begun
        <5>6. st3.segment = begun /\ st3.disk = st2.disk /\ st3.ok = st2.ok /\ st3 \in States
          BY <4>1, <5>1, <5>4 DEF States
        <5>7. WellKept(st3)
          BY <4>1, <5>4, <5>6 DEF WellKept
        <5>8. Stored(st3.disk) \cup PartOf(st3.segment)
                \subseteq Stored(disk) \cup InPart(format) \cup {prev}
          BY <2>3, <4>1, <5>4, <5>6
        <5>9. ASSUME calm
              PROVE  /\ st3.ok /\ FileFits(st3.segment, st3.disk)
                     /\ Stored(st3.disk) \cup PartOf(st3.segment) =
                          Stored(disk) \cup InPart(format) \cup {prev}
          <6>1. s.dts - st1.segment.start >= SegmentDuration
            BY <3>2
          <6>2. st1.segment.start < NextStart(next)
            <7>1. st1.segment.start \in Int /\ s.dts \in Int /\ NextStart(next) \in Int
              BY <1>2, <4>2, <5>2, DurationsAreNaturals DEF Segments, Times
            <7>2. NextStart(next) >= s.dts - MaxBasetime
              BY <1>3, <5>2
            <7>3. QED
              BY <5>9, <6>1, <7>1, <7>2, DurationsAreNaturals
          <6>3. \A u \in Times : st2.disk[u] # None => u < NextStart(next)
            <7>1. st1.segment.start \in Int /\ NextStart(next) \in Int /\ Times \subseteq Int
              BY <4>2, <5>2, DurationsAreNaturals DEF Segments, Times
            <7>2. \A u \in Times : st2.disk[u] # None => u <= st1.segment.start
              BY <2>3, <4>1, <5>9
            <7>3. QED
              BY <6>2, <7>1, <7>2
          <6>4. FileFits(st3.segment, st3.disk)
            BY <5>4, <5>6, <6>3 DEF FileFits
          <6>5. QED
            BY <2>3, <4>1, <4>4, <5>4, <5>6, <5>9, <6>4
        <5>10. QED
          BY <5>4, <5>5, <5>6, <5>7, <5>8, <5>9
      <4>5. QED
        BY <4>3, <4>4
    <3>3. QED
      BY <3>1, <3>2
  <2>5. st3.segment \in Segments /\ st3.segment # None /\ st3.disk \in Disks /\ st3.ok \in BOOLEAN
    BY <2>4, NoneIsNothing DEF States
  <2>6. /\ res.format.segment = st3.segment /\ res.disk = st3.disk /\ res.ok = st3.ok
        /\ res.format \in Formats /\ res.format.next = next
        /\ Waiting(res.format) = W /\ InPart(res.format) = PartOf(st3.segment)
        /\ Held(res.format) = W \cup PartOf(st3.segment)
    <3>1. segment = st3.segment
      BY <1>9
    <3>2. res.ok = st3.ok /\ res.disk = st3.disk
      BY <1>1, <1>9, <2>5
    <3> HIDE DEF segment
    <3>3. QED
      BY <1>7, <2>5, <3>1, <3>2 DEF InPart
  <2> HIDE DEF segment, calm, tooLate, skips
  <2>7. W \cap (Stored(disk) \cup InPart(format) \cup {prev}) = {}
    BY <1>4, <1>5, <1>6, <2>1
  <2>8. Placed(res.format, res.disk)
    <3>1. W \cap PartOf(st3.segment) = {} /\ W \cap Stored(st3.disk) = {}
      BY <2>4, <2>7
    <3>2. PartOf(st3.segment) \cap Stored(st3.disk) = {} /\ FilesApart(st3.disk)
      BY <2>4 DEF WellKept
    <3>3. QED
      BY <1>4, <2>6, <3>1, <3>2 DEF Placed
  <2>9. Held(res.format) \cup Stored(res.disk) \subseteq Held(format) \cup Stored(disk) \cup {s}
    BY <1>4, <1>5, <2>1, <2>4, <2>6
  <2>10. \/ /\ format.segment # None /\ res.format.segment # None
            /\ res.format.segment.start = format.segment.start
            /\ res.format.segment.pending = format.segment.pending
         \/ Fair(res.format.segment) /\ res.format.segment.pending \subseteq Held(format) \cup {s}
    <3>1. W \subseteq Held(format) \cup {s}
      BY <1>4, <1>5
    <3>2. st3.segment.pending = {} => Fair(st3.segment)
      BY DEF Fair
    <3>3. QED
      BY <2>2, <2>4, <2>5, <2>6, <3>1, <3>2
  <2>11. ASSUME f = "none", Fits(format.segment, disk), SegmentDuration > MaxBasetime
         PROVE  /\ res.ok /\ Fits(res.format.segment, res.disk)
                /\ Held(res.format) \cup Stored(res.disk) \cup res.late =
                     Held(format) \cup Stored(disk) \cup {s}
    <3>1. calm
      BY <2>11 DEF calm
    <3>2. res.ok /\ Fits(res.format.segment, res.disk)
      BY <2>4, <2>5, <2>6, <3>1 DEF Fits
    <3>3. Held(res.format) \cup Stored(res.disk) = W \cup (Stored(disk) \cup InPart(format) \cup {prev})
      BY <2>4, <2>6, <3>1
    <3>4. QED
      BY <1>4, <1>5, <2>1, <3>2, <3>3
  <2>12. res.late \subseteq Held(format) \ (Held(res.format) \cup Stored(res.disk))
    BY <2>1
  <2>13. WriteKeeps(res, s, f)
    BY <2>1, <2>5, <2>6, <2>8, <2>9, <2>10, <2>11, <2>12 DEF WriteKeeps
  <2>14. QED
    BY <2>13 DEF res
<1> QED
  BY <1>8, <1>9

LEMMA MPEGTSFacts ==
  ASSUME format \in Formats, disk \in Disks, Placed(format, disk), NEW f,
         NEW s \in Samples, s \notin Held(format) \cup Stored(disk)
  PROVE  WriteKeeps(MPEGTSWrite(s, f), s, f)
<1> DEFINE hasVideo == format.hasVideo \/ s.track = "video"
           seg   == format.segment
           st0   == [segment |-> seg, disk |-> disk, ok |-> TRUE]
           full  == /\ ~hasVideo \/ s.track = "video"
                    /\ s.sync /\ s.dts - seg.start >= SegmentDuration
           ended == [st0 EXCEPT !.segment.end = s.dts]
           c     == CloseSegment(ended, f)
           st1   == CASE seg = None -> [st0 EXCEPT !.segment = Open(s.dts, {})]
                      [] seg # None /\ full ->
                           IF c.ok THEN [c EXCEPT !.segment = Open(s.dts, {})] ELSE c
                      [] seg # None /\ ~full /\ seg.part # None
                           /\ s.dts - seg.flushed >= PartDuration ->
                           [ClosePart(st0, f) EXCEPT !.segment.part = None,
                                                     !.segment.flushed = s.dts]
                      [] OTHER -> st0
           p     == st1.segment.part
           q     == IF p = None THEN [start |-> s.dts, end |-> s.dts, samples |-> {s}]
                    ELSE [p EXCEPT !.end = s.dts, !.samples = @ \cup {s}]
           segment == IF st1.ok THEN [st1.segment EXCEPT !.part = q, !.end = s.dts]
                      ELSE st1.segment
           res   == MPEGTSWrite(s, f)
           calm  == f = "none" /\ Fits(format.segment, disk) /\ SegmentDuration > MaxBasetime
<1>1. /\ res.ok = st1.ok /\ res.disk = st1.disk /\ res.late = {}
      /\ res.format = [format EXCEPT !.hasVideo = hasVideo, !.open = TRUE, !.segment = segment]
  BY DEF MPEGTSWrite
<1>2. /\ s # None /\ hasVideo \in BOOLEAN /\ s.dts \in Times
      /\ seg \in Segments \cup {None} /\ format.next \in [Tracks -> Samples \cup {None}]
  BY NoneIsNothing DEF Formats, Samples
<1>3. Held(format) = Waiting(format) \cup InPart(format)
  BY HeldIs
<1>4. /\ Waiting(format) \cap InPart(format) = {}
      /\ (Waiting(format) \cup InPart(format)) \cap Stored(disk) = {}
      /\ FilesApart(disk)
  BY DEF Placed
<1>5. seg # None => /\ st0 \in States /\ WellKept(st0) /\ PartOf(seg) = InPart(format)
                    /\ Fits(format.segment, disk) => FileFits(seg, disk)
  BY <1>2, <1>4 DEF States, WellKept, InPart, Fits
<1> HIDE DEF res, hasVideo, st1
<1>6. /\ st1 \in States /\ WellKept(st1)
      /\ Stored(st1.disk) \cup PartOf(st1.segment) \subseteq Stored(disk) \cup InPart(format)
      /\ \/ /\ seg # None /\ st1.segment.start = seg.start /\ st1.segment.pending = seg.pending
         \/ st1.segment.pending = {}
      /\ calm => /\ st1.ok /\ FileFits(st1.segment, st1.disk)
                 /\ Stored(st1.disk) \cup PartOf(st1.segment) = Stored(disk) \cup InPart(format)
  <2>o. /\ Open(s.dts, {}) \in Segments /\ Open(s.dts, {}).start = s.dts
        /\ Open(s.dts, {}).pending = {} /\ Open(s.dts, {}).fd = "none"
        /\ PartOf(Open(s.dts, {})) = {}
    BY <1>2, OpenFacts
  <2>1. CASE seg = None
    <3>1. st1 = [segment |-> Open(s.dts, {}), disk |-> disk, ok |-> TRUE]
      BY <2>1 DEF st1
    <3>2. InPart(format) = {}
      BY <2>1 DEF InPart
    <3>3. calm => FileFits(st1.segment, st1.disk)
      BY <2>1, <2>o, <3>1 DEF Fits, FileFits
    <3>4. QED
      BY <1>4, <2>o, <3>1, <3>2, <3>3 DEF States, WellKept
  <2>2. CASE seg # None /\ full
    <3>1. /\ ended \in States /\ ended.disk = disk /\ ended.ok
          /\ ended.segment.start = seg.start /\ ended.segment.pending = seg.pending
          /\ PartOf(ended.segment) = PartOf(seg)
          /\ FileFits(seg, disk) => FileFits(ended.segment, disk)
      <4> DEFINE e == [seg EXCEPT !.end = s.dts]
      <4>1. ended = [segment |-> e, disk |-> disk, ok |-> TRUE]
        <5>1. st0.segment = seg
          OBVIOUS
        <5>2. ended = [st0 EXCEPT !.segment = [st0.segment EXCEPT !.end = s.dts]]
          OBVIOUS
        <5>3. [st0.segment EXCEPT !.end = s.dts] = e
          BY <5>1
        <5> HIDE DEF e, ended
        <5>4. ended = [st0 EXCEPT !.segment = e]
          BY <5>2, <5>3
        <5>5. QED
          BY <5>4
      <4>2. e \in Segments /\ e.start = seg.start /\ e.pending = seg.pending /\ e.part = seg.part
            /\ e.fd = seg.fd
        BY <1>2, <2>2 DEF Segments
      <4> HIDE DEF e, ended
      <4>3. QED
        BY <4>1, <4>2 DEF States, PartOf, FileFits
    <3> HIDE DEF ended
    <3>2. WellKept(ended)
      BY <1>5, <2>2, <3>1 DEF WellKept
    <3>3. /\ c \in States
          /\ c.segment = [ended.segment EXCEPT !.fd = c.segment.fd]
          /\ WellKept(c)
          /\ Stored(c.disk) \cup PartOf(c.segment) \subseteq Stored(ended.disk) \cup PartOf(ended.segment)
          /\ f = "none" /\ ended.ok /\ FileFits(ended.segment, ended.disk) =>
              /\ c.ok
              /\ \A u \in Times : c.disk[u] # None => u <= ended.segment.start
              /\ Stored(c.disk) = Stored(ended.disk) \cup PartOf(ended.segment)
      BY <3>1, <3>2, CloseSegmentFacts
    <3> HIDE DEF c
    <3>4. calm => FileFits(seg, disk)
      BY <1>5, <2>2
    <3>5. CASE ~c.ok
      <4>1. st1 = c
        BY <2>2, <3>5 DEF st1
      <4>2. c.segment.start = seg.start /\ c.segment.pending = seg.pending
        BY <3>1, <3>3 DEF States, Segments
      <4>3. ~calm
        BY <3>1, <3>3, <3>4, <3>5
      <4> HIDE DEF calm
      <4>4. QED
        BY <1>5, <2>2, <3>1, <3>3, <4>1, <4>2, <4>3
    <3>6. CASE c.ok
      <4>1. st1 = [c EXCEPT !.segment = Open(s.dts, {})]
        BY <2>2, <3>6 DEF st1
      <4>2. st1 \in States /\ st1.segment = Open(s.dts, {}) /\ st1.disk = c.disk /\ st1.ok = c.ok
        BY <2>o, <3>3, <4>1 DEF States
      <4>3. WellKept(st1)
        BY <2>o, <3>3, <4>2 DEF WellKept
      <4>4. Stored(st1.disk) \cup PartOf(st1.segment) \subseteq Stored(disk) \cup InPart(format)
        BY <1>5, <2>2, <2>o, <3>1, <3>3, <4>2
      <4>5. ASSUME calm
            PROVE  /\ st1.ok /\ FileFits(st1.segment, st1.disk)
                   /\ Stored(st1.disk) \cup PartOf(st1.segment) = Stored(disk) \cup InPart(format)
        <5>1. FileFits(seg, disk)
          BY <3>4, <4>5
        <5>2. \A u \in Times : c.disk[u] # None => u <= seg.start
          BY <3>1, <3>3, <4>5, <5>1
        <5>3. seg.start < s.dts
          <6>1. seg.start \in Int /\ s.dts \in Int
            BY <1>2, <2>2, DurationsAreNaturals DEF Segments, Times
          <6>2. s.dts - seg.start >= SegmentDuration
            BY <2>2
          <6>3. QED
            BY <4>5, <6>1, <6>2, DurationsAreNaturals
        <5>4. \A u \in Times : c.disk[u] # None => u < s.dts
          <6>1. seg.start \in Int /\ s.dts \in Int /\ Times \subseteq Int
            BY <1>2, <2>2, DurationsAreNaturals DEF Segments, Times
          <6>2. QED
            BY <5>2, <5>3, <6>1
        <5>5. FileFits(st1.segment, st1.disk)
          BY <2>o, <4>2, <5>4 DEF FileFits
        <5>6. QED
          BY <1>5, <2>2, <2>o, <3>1, <3>3, <3>6, <4>2, <4>5, <5>1, <5>5
      <4>6. QED
        BY <2>o, <4>2, <4>3, <4>4, <4>5
    <3>7. QED
      BY <3>5, <3>6
  <2>3. CASE seg # None /\ ~full /\ seg.part # None /\ s.dts - seg.flushed >= PartDuration
    <3> DEFINE d == ClosePart(st0, f)
    <3>1. st1 = [d EXCEPT !.segment.part = None, !.segment.flushed = s.dts]
      BY <2>3 DEF st1
    <3>2. /\ d \in States
          /\ d.segment = [st0.segment EXCEPT !.fd = d.segment.fd]
          /\ FilesApart(d.disk)
          /\ Stored(d.disk) \subseteq Stored(st0.disk) \cup PartOf(st0.segment)
          /\ f = "none" /\ st0.ok /\ FileFits(st0.segment, st0.disk) =>
              /\ d.ok /\ d.segment.fd = "open" /\ FileFits(d.segment, d.disk)
              /\ Stored(d.disk) = Stored(st0.disk) \cup PartOf(st0.segment)
      BY <1>5, <2>3, ClosePartFacts
    <3> HIDE DEF d
    <3> DEFINE y == [d.segment EXCEPT !.part = None]
               x == [y EXCEPT !.flushed = s.dts]
    <3>3. st1 = [d EXCEPT !.segment = x]
      BY <3>1
    <3>4. d.segment.start = seg.start /\ d.segment.pending = seg.pending /\ d.segment \in Segments
      BY <1>2, <2>3, <3>2 DEF Segments, States
    <3>5. y \in Segments /\ y.part = None /\ y.fd = d.segment.fd
          /\ y.start = d.segment.start /\ y.pending = d.segment.pending
      BY <3>4 DEF Segments
    <3> HIDE DEF y
    <3>6. x \in Segments /\ x.part = None /\ x.fd = d.segment.fd
          /\ x.start = seg.start /\ x.pending = seg.pending
      BY <1>2, <3>4, <3>5 DEF Segments
    <3> HIDE DEF x
    <3>7. st1 = [segment |-> x, disk |-> d.disk, ok |-> d.ok]
      BY <3>2, <3>3 DEF States
    <3>8. st1 \in States /\ st1.segment = x /\ st1.disk = d.disk /\ st1.ok = d.ok
      BY <3>2, <3>6, <3>7 DEF States
    <3>9. PartOf(x) = {}
      BY <3>6 DEF PartOf
    <3>10. WellKept(st1)
      BY <3>2, <3>8, <3>9 DEF WellKept
    <3>11. FileFits(d.segment, d.disk) => FileFits(st1.segment, st1.disk)
      BY <3>4, <3>6, <3>8 DEF FileFits
    <3>12. Stored(st1.disk) \cup PartOf(st1.segment) \subseteq Stored(disk) \cup InPart(format)
      BY <1>5, <2>3, <3>2, <3>8, <3>9
    <3>13. calm => /\ st1.ok /\ FileFits(st1.segment, st1.disk)
                   /\ Stored(st1.disk) \cup PartOf(st1.segment) = Stored(disk) \cup InPart(format)
      BY <1>5, <2>3, <3>2, <3>8, <3>9, <3>11
    <3>14. QED
      BY <2>3, <3>6, <3>8, <3>10, <3>12, <3>13
  <2>4. CASE seg # None /\ ~full /\ ~(seg.part # None /\ s.dts - seg.flushed >= PartDuration)
    <3>1. st1 = st0
      BY <2>4 DEF st1
    <3>2. QED
      BY <1>5, <2>4, <3>1
  <2>5. QED
    BY <2>1, <2>2, <2>3, <2>4
<1>7. st1.segment \in Segments /\ st1.disk \in Disks /\ st1.ok \in BOOLEAN
  BY <1>6 DEF States
<1>8. /\ q \in Parts
      /\ q.samples = {s} \cup (IF p = None THEN {} ELSE p.samples)
  <2>1. CASE p = None
    BY <1>2, <2>1 DEF Parts
  <2>2. CASE p # None
    <3>1. p \in Parts
      BY <1>7, <2>2 DEF Segments
    <3>2. q = [p EXCEPT !.end = s.dts, !.samples = p.samples \cup {s}]
      BY <2>2
    <3>3. QED
      BY <1>2, <2>2, <3>1, <3>2 DEF Parts
  <2>3. QED
    BY <2>1, <2>2
<1>9. q # None
  BY <1>8, NoneIsNothing
<1> HIDE DEF q, calm, seg
<1>10. /\ segment \in Segments /\ segment.fd = st1.segment.fd
       /\ segment.start = st1.segment.start /\ segment.pending = st1.segment.pending
       /\ st1.ok /\ segment.fd # "closed" => PartOf(segment) = PartOf(st1.segment) \cup {s}
       /\ PartOf(segment) \subseteq PartOf(st1.segment) \cup {s}
  <2>1. CASE ~st1.ok
    BY <1>7, <2>1
  <2>2. CASE st1.ok
    <3> DEFINE y == [st1.segment EXCEPT !.part = q]
               x == [y EXCEPT !.end = s.dts]
    <3>1. segment = x
      BY <2>2
    <3>2. y \in Segments /\ y.part = q /\ y.fd = st1.segment.fd
          /\ y.start = st1.segment.start /\ y.pending = st1.segment.pending
      BY <1>7, <1>8 DEF Segments
    <3> HIDE DEF y
    <3>3. x \in Segments /\ x.part = q /\ x.fd = st1.segment.fd
          /\ x.start = st1.segment.start /\ x.pending = st1.segment.pending
      BY <1>2, <3>2 DEF Segments
    <3> HIDE DEF x
    <3>4. /\ x.fd # "closed" => PartOf(x) = PartOf(st1.segment) \cup {s}
          /\ PartOf(x) \subseteq PartOf(st1.segment) \cup {s}
      BY <1>8, <1>9, <3>3 DEF PartOf
    <3>5. QED
      BY <3>1, <3>3, <3>4
  <2>3. QED
    BY <1>7, <2>1, <2>2
<1> HIDE DEF segment
<1>11. segment # None
  BY <1>10, NoneIsNothing
<1>12. /\ res.format \in Formats /\ res.format.next = format.next /\ res.format.segment = segment
  <2> DEFINE a == [format EXCEPT !.hasVideo = hasVideo]
             b == [a EXCEPT !.open = TRUE]
  <2>1. res.format = [b EXCEPT !.segment = segment]
    BY <1>1
  <2>2. a \in Formats /\ a.next = format.next
    BY <1>2 DEF Formats
  <2> HIDE DEF a
  <2>3. b \in Formats /\ b.next = format.next
    BY <2>2 DEF Formats
  <2> HIDE DEF b
  <2>4. QED
    BY <1>10, <2>1, <2>3 DEF Formats
<1>13. Waiting(res.format) = Waiting(format) /\ InPart(res.format) = PartOf(segment)
       /\ Held(res.format) = Waiting(format) \cup PartOf(segment)
  <2>1. Waiting(res.format) = Waiting(format) /\ InPart(res.format) = PartOf(segment)
    BY <1>11, <1>12 DEF Waiting, InPart
  <2>2. QED
    BY <1>12, <2>1, HeldIs
<1>14. s \notin Waiting(format) /\ s \notin Stored(st1.disk) /\ s \notin PartOf(st1.segment)
  BY <1>3, <1>6
<1>15. Placed(res.format, res.disk)
  <2>1. PartOf(st1.segment) \cap Stored(st1.disk) = {} /\ FilesApart(st1.disk)
    BY <1>6 DEF WellKept
  <2>2. PartOf(segment) \cap Stored(st1.disk) = {}
    BY <1>10, <1>14, <2>1
  <2>3. Waiting(format) \cap PartOf(segment) = {} /\ Waiting(format) \cap Stored(st1.disk) = {}
    BY <1>4, <1>6, <1>10, <1>14
  <2>4. \A t \in Pending(res.format.next) : res.format.next[t].track = t
    BY <1>12 DEF Placed
  <2>5. QED
    BY <1>1, <1>13, <2>1, <2>2, <2>3, <2>4 DEF Placed
<1>16. Held(res.format) \cup Stored(res.disk) \subseteq Held(format) \cup Stored(disk) \cup {s}
  BY <1>1, <1>3, <1>6, <1>10, <1>13
<1>17. \/ /\ format.segment # None /\ res.format.segment # None
          /\ res.format.segment.start = format.segment.start
          /\ res.format.segment.pending = format.segment.pending
       \/ Fair(res.format.segment) /\ res.format.segment.pending = {}
  BY <1>6, <1>10, <1>11, <1>12 DEF Fair, seg
<1>18. ASSUME calm
       PROVE  /\ res.ok /\ Fits(res.format.segment, res.disk)
              /\ Held(res.format) \cup Stored(res.disk) \cup res.late =
                   Held(format) \cup Stored(disk) \cup {s}
  <2>1. st1.ok /\ FileFits(st1.segment, st1.disk)
        /\ Stored(st1.disk) \cup PartOf(st1.segment) = Stored(disk) \cup InPart(format)
    BY <1>6, <1>18
  <2>2. FileFits(segment, st1.disk) /\ segment.fd # "closed"
    BY <1>10, <2>1 DEF FileFits
  <2>3. PartOf(segment) = PartOf(st1.segment) \cup {s}
    BY <1>10, <2>1, <2>2
  <2>4. QED
    BY <1>1, <1>3, <1>11, <1>12, <1>13, <2>1, <2>2, <2>3 DEF Fits
<1>19. WriteKeeps(res, s, f)
  <2>1. res.ok \in BOOLEAN /\ res.disk \in Disks /\ res.late = {}
    BY <1>1, <1>7
  <2>2. QED
    BY <1>12, <1>15, <1>16, <1>17, <1>18, <2>1 DEF WriteKeeps, calm
<1>20. QED
  BY <1>19 DEF res

LEMMA PutFacts ==
  ASSUME format \in Formats, disk \in Disks, Placed(format, disk), NEW f,
         NEW s \in Samples, s \notin Held(format) \cup Stored(disk)
  PROVE  WriteKeeps(Put(s, f), s, f)
<1>1. CASE recording.format = "fmp4"
  <2>1. Put(s, f) = FMP4Write(s, f)
    BY <1>1 DEF Put
  <2>2. QED
    BY <2>1, FMP4Facts
<1>2. CASE recording.format # "fmp4"
  <2>1. Put(s, f) = MPEGTSWrite(s, f)
    BY <1>2 DEF Put
  <2>2. QED
    BY <2>1, MPEGTSFacts
<1>3. QED
  BY <1>1, <1>2

(* Nobody has told the recorder to stop, removes files, and nothing failed. *)
Calm == ~recorder.terminate /\ faults = 0 /\ ~recording.cleans

(* Every sample given is in memory or in a file, or it is late or lost.    *)
SamplesInv ==
  /\ Placed(format, disk)
  /\ \A s \in fate.given : s.dts <= last[s.track]
  /\ Held(format) \cup Stored(disk) \cup fate.late \cup fate.lost = fate.given
  /\ (Held(format) \cup Stored(disk)) \cap (fate.late \cup fate.lost) = {}
  /\ format.segment # None =>
       /\ Fair(format.segment)
       /\ \A x \in format.segment.pending \cap fate.late : x.dts < format.segment.start

RecorderInv ==
  /\ RecorderTypeOK
  /\ SamplesInv
  /\ instance = "ended" => format = NewFormat
  /\ cleaner = "dirs" => recording.cleans
  /\ SegmentDuration > MaxBasetime /\ Calm =>
       /\ fate.lost = {} /\ instance = "reading" /\ recorder.at = "instance"
       /\ Fits(format.segment, disk)

LEMMA NewFormatFacts ==
  /\ NewFormat \in Formats /\ NewFormat.segment = None
  /\ Pending(NewFormat.next) = {} /\ Held(NewFormat) = {}
  /\ \A d \in Disks : FilesApart(d) => Placed(NewFormat, d)
<1>1. NewFormat \in Formats /\ NewFormat.segment = None
  BY DEF NewFormat, Formats
<1>2. Pending(NewFormat.next) = {}
  BY DEF NewFormat, Pending
<1>3. Waiting(NewFormat) = {} /\ InPart(NewFormat) = {}
  BY <1>1, <1>2 DEF Waiting, InPart
<1>4. Held(NewFormat) = {}
  BY <1>1, <1>3, HeldIs
<1>5. QED
  BY <1>1, <1>2, <1>3, <1>4 DEF Placed

LEMMA RecorderInitInv == RecorderInit => RecorderInv
<1> SUFFICES ASSUME RecorderInit PROVE RecorderInv
  OBVIOUS
<1>1. recording.until \in Times /\ MaxTime \in Nat /\ MaxFaults \in Nat
  BY RecordingsAreKnown, DurationsAreNaturals DEF RecorderInit
<1>2. format = NewFormat /\ format \in Formats /\ disk \in Disks
  BY NewFormatFacts DEF RecorderInit, Disks
<1>3. FilesApart(disk) /\ Stored(disk) = {}
  <2>1. \A t \in Times : disk[t] = None
    BY DEF RecorderInit
  <2>2. QED
    BY <2>1 DEF FilesApart, Stored
<1>4. Placed(format, disk) /\ Held(format) = {} /\ format.segment = None
  BY <1>2, <1>3, NewFormatFacts
<1>5. RecorderTypeOK
  <2>1. 0 \in Times
    BY <1>1 DEF Times
  <2>2. last \in [Tracks -> -1..MaxTime]
    BY <1>1 DEF RecorderInit
  <2>3. QED
    BY <1>1, <1>2, <2>1, <2>2 DEF RecorderInit, RecorderTypeOK, Formats, Disks
<1>6. fate.given = {} /\ fate.late = {} /\ fate.lost = {}
  BY DEF RecorderInit
<1>7. SamplesInv
  BY <1>3, <1>4, <1>6 DEF SamplesInv
<1>8. Fits(format.segment, disk)
  BY <1>4 DEF Fits, RecorderInit
<1>9. QED
  BY <1>5, <1>6, <1>7, <1>8 DEF RecorderInit, RecorderInv

(* Steps that touch no sample.                                             *)
LEMMA RecorderControlInv ==
  ASSUME RecorderInv, InstanceDone \/ Restart \/ Close \/ CleanerDone \/ Tick \/ UNCHANGED recorderVars
  PROVE  RecorderInv'
<1>1. UNCHANGED <<recording, last, format, disk, faults, fate>>
  BY DEF InstanceDone, Restart, Close, CleanerDone, Tick, recorderVars
<1>2. SamplesInv'
  BY <1>1 DEF RecorderInv, SamplesInv
<1>3. RecorderTypeOK'
  <2>0. RecorderTypeOK
    BY DEF RecorderInv
  <2>1. CASE InstanceDone \/ Restart \/ Close
    <3>1. recorder' \in [at : {"instance", "pause", "done"}, terminate : BOOLEAN]
      BY <2>0, <2>1 DEF InstanceDone, Restart, Close, RecorderTypeOK
    <3>2. instance' \in {"reading", "failed", "ended"} /\ UNCHANGED <<now, cleaner>>
      BY <2>0, <2>1 DEF InstanceDone, Restart, Close, RecorderTypeOK
    <3>3. QED
      BY <1>1, <2>0, <3>1, <3>2 DEF RecorderTypeOK
  <2>2. CASE CleanerDone \/ UNCHANGED recorderVars
    BY <2>0, <2>2 DEF CleanerDone, recorderVars, RecorderTypeOK
  <2>3. CASE Tick
    <3>1. recording.until \in Times
      BY <2>0, RecordingsAreKnown DEF RecorderTypeOK
    <3>2. now' \in Times
      BY <2>0, <2>3, <3>1, DurationsAreNaturals DEF Tick, RecorderTypeOK, Times
    <3>3. QED
      BY <2>0, <2>3, <3>2 DEF Tick, RecorderTypeOK
  <2>4. QED
    BY <2>1, <2>2, <2>3
<1>4. instance' = "ended" => format' = NewFormat
  BY <1>1 DEF RecorderInv, InstanceDone, Restart, Close, CleanerDone, Tick, recorderVars
<1>5. cleaner' = "dirs" => recording'.cleans
  BY <1>1 DEF RecorderInv, InstanceDone, Restart, Close, CleanerDone, Tick, recorderVars
<1>6. SegmentDuration > MaxBasetime /\ Calm' =>
        /\ fate'.lost = {} /\ instance' = "reading" /\ recorder'.at = "instance"
        /\ Fits(format'.segment, disk')
  <2> SUFFICES ASSUME SegmentDuration > MaxBasetime, Calm'
               PROVE  /\ fate'.lost = {} /\ instance' = "reading" /\ recorder'.at = "instance"
                      /\ Fits(format'.segment, disk')
    OBVIOUS
  <2>0. recorder \in [at : {"instance", "pause", "done"}, terminate : BOOLEAN]
    BY DEF RecorderInv, RecorderTypeOK
  <2>1. ~Close
    BY <2>0 DEF Close, Calm
  <2>2. Calm
    BY <1>1, <2>0, <2>1 DEF Calm, InstanceDone, Restart, CleanerDone, Tick, recorderVars
  <2>3. /\ fate.lost = {} /\ instance = "reading" /\ recorder.at = "instance"
        /\ Fits(format.segment, disk)
    BY <2>2 DEF RecorderInv
  <2>4. recorder' = recorder /\ instance' = instance
    BY <2>1, <2>3 DEF InstanceDone, Restart, CleanerDone, Tick, recorderVars
  <2>5. QED
    BY <1>1, <2>3, <2>4
<1>7. QED
  BY <1>2, <1>3, <1>4, <1>5, <1>6 DEF RecorderInv

SampleOf(t, sync) ==
  [track |-> t, dts |-> now - (IF t = "audio" THEN recording.lag ELSE 0), sync |-> sync]

(* What the callback of a track changes.                                   *)
SampleStep(t, s, res, f) ==
  /\ s.dts > last[t]
  /\ last' = [last EXCEPT ![t] = s.dts]
  /\ IF Waits(s)
     THEN f = "none" /\ UNCHANGED <<instance, format, disk, faults, fate>>
     ELSE /\ f # "none" => ~res.ok
          /\ faults' = faults + Counted(f)
          /\ instance' = IF res.ok THEN "reading" ELSE "failed"
          /\ format' = res.format
          /\ disk' = res.disk
          /\ fate' = [given |-> fate.given \cup {s}, late |-> fate.late \cup res.late,
                      lost |-> fate.lost \cup
                        ((fate.given \cup {s}) \ (Held(res.format) \cup Stored(res.disk)
                           \cup fate.late \cup res.late))]

LEMMA FaultsFacts ==
  ASSUME RecorderTypeOK, NEW f \in Faults
  PROVE  /\ Counted(f) \in {0, 1} /\ faults + Counted(f) \in 0..MaxFaults
         /\ faults + Counted(f) = 0 => faults = 0
         /\ faults + Counted(f) = 0 /\ cleaner # "dirs" => f = "none"
<1>1. faults \in 0..MaxFaults /\ MaxFaults \in Nat /\ recording \in Recordings
  BY DurationsAreNaturals DEF RecorderTypeOK
<1>2. QED
  BY <1>1 DEF Counted, Faults, DirMayVanish

LEMMA SampleIs ==
  ASSUME RecorderTypeOK, NEW t \in Tracks, Sample(t)
  PROVE  \E s \in Samples, f \in Faults :
           s.track = t /\ SampleStep(t, s, Put(s, f), f)
<1>1. PICK sync \in BOOLEAN, f \in Faults : SampleStep(t, SampleOf(t, sync), Put(SampleOf(t, sync), f), f)
  <2>1. PICK sync \in (IF t = "video" THEN BOOLEAN ELSE {TRUE}), f \in Faults :
          SampleStep(t, SampleOf(t, sync), Put(SampleOf(t, sync), f), f)
    BY DEF Sample, SampleStep, SampleOf
  <2>2. sync \in BOOLEAN
    OBVIOUS
  <2>3. QED
    BY <2>1, <2>2
<1> DEFINE s == SampleOf(t, sync)
<1>2. s.track = t /\ s.sync \in BOOLEAN
      /\ s.dts = now - (IF t = "audio" THEN recording.lag ELSE 0)
      /\ s = [track |-> s.track, dts |-> s.dts, sync |-> s.sync]
  BY DEF SampleOf
<1> HIDE DEF s
<1>3. s.dts \in Times
  <2>1. now \in Times /\ recording.lag \in Nat /\ last[t] \in -1..MaxTime /\ MaxTime \in Nat
    BY RecordingsAreKnown, DurationsAreNaturals DEF RecorderTypeOK
  <2>2. s.dts > last[t]
    BY <1>1, <1>2 DEF SampleStep, s
  <2>3. QED
    BY <1>2, <2>1, <2>2 DEF Times
<1>4. s \in Samples
  BY <1>2, <1>3 DEF Samples
<1>5. SampleStep(t, s, Put(s, f), f)
  BY <1>1 DEF s
<1>6. QED
  BY <1>2, <1>4, <1>5

LEMMA SampleInv ==
  ASSUME RecorderInv, NEW t \in Tracks, Sample(t)
  PROVE  RecorderInv'
<1>1. RecorderTypeOK /\ SamplesInv
  BY DEF RecorderInv
<1>2. PICK s \in Samples, f \in Faults : s.track = t /\ SampleStep(t, s, Put(s, f), f)
  BY <1>1, SampleIs
<1>3. UNCHANGED <<recording, now, recorder, cleaner>> /\ instance = "reading"
  BY DEF Sample
<1>4. /\ format \in Formats /\ disk \in Disks /\ last \in [Tracks -> -1..MaxTime]
      /\ fate.given \in SUBSET Samples /\ fate.late \in SUBSET Samples
      /\ fate.lost \in SUBSET Samples
      /\ fate = [given |-> fate.given, late |-> fate.late, lost |-> fate.lost]
      /\ recorder \in [at : {"instance", "pause", "done"}, terminate : BOOLEAN]
  BY <1>1 DEF RecorderTypeOK, Formats, Disks
<1>5. s.dts \in Times /\ s.dts > last[t] /\ Times \subseteq Int /\ last[t] \in Int
      /\ s.dts \in -1..MaxTime
  BY <1>2, <1>4, DurationsAreNaturals DEF SampleStep, Samples, Times
<1>6. s \notin fate.given
  <2>1. SUFFICES ASSUME s \in fate.given PROVE FALSE
    OBVIOUS
  <2>2. s.dts <= last[t]
    BY <1>1, <1>2, <2>1 DEF SamplesInv
  <2>3. QED
    BY <1>5, <2>2
<1>7. last' \in [Tracks -> -1..MaxTime] /\ \A x \in fate.given \cup {s} : x.dts <= last'[x.track]
  <2>1. last' = [last EXCEPT ![t] = s.dts]
    BY <1>2 DEF SampleStep
  <2>2. last' \in [Tracks -> -1..MaxTime]
    BY <1>4, <1>5, <2>1
  <2>3. ASSUME NEW x \in fate.given PROVE x.dts <= last'[x.track]
    <3>1. x.dts \in Int /\ x.dts <= last[x.track] /\ x.track \in Tracks
      BY <1>1, <1>4, <1>5, <2>3 DEF SamplesInv, Samples
    <3>2. last[x.track] \in Int /\ (x.track = t => last'[x.track] = s.dts)
          /\ (x.track # t => last'[x.track] = last[x.track])
      BY <1>4, <2>1, <3>1
    <3>3. QED
      BY <1>5, <3>1, <3>2
  <2>4. s.dts <= last'[s.track]
    BY <1>2, <1>4, <1>5, <2>1
  <2>5. QED
    BY <2>2, <2>3, <2>4
<1>8. CASE Waits(s)
  <2>1. UNCHANGED <<instance, format, disk, faults, fate>>
    BY <1>2, <1>8 DEF SampleStep
  <2>2. RecorderTypeOK'
    BY <1>1, <1>3, <1>7, <2>1 DEF RecorderTypeOK
  <2>3. SamplesInv'
    <3>1. \A x \in fate'.given : x.dts <= last'[x.track]
      BY <1>7, <2>1
    <3>2. QED
      BY <1>1, <2>1, <3>1 DEF SamplesInv
  <2>4. QED
    BY <1>3, <2>1, <2>2, <2>3 DEF RecorderInv, Calm
<1>9. CASE ~Waits(s)
  <2> DEFINE res == Put(s, f)
  <2>1. WriteKeeps(res, s, f)
    <3>1. Placed(format, disk) /\ s \notin Held(format) \cup Stored(disk)
      BY <1>1, <1>6 DEF SamplesInv
    <3>2. QED
      BY <1>4, <3>1, PutFacts
  <2>2. SampleStep(t, s, res, f)
    BY <1>2
  <2> HIDE DEF res
  <2>3. /\ f # "none" => ~res.ok
        /\ faults' = faults + Counted(f)
        /\ instance' = (IF res.ok THEN "reading" ELSE "failed")
        /\ format' = res.format /\ disk' = res.disk
        /\ fate'.given = fate.given \cup {s} /\ fate'.late = fate.late \cup res.late
        /\ fate'.lost = fate.lost \cup
             ((fate.given \cup {s}) \ (Held(res.format) \cup Stored(res.disk) \cup fate.late \cup res.late))
    BY <1>9, <2>2 DEF SampleStep
  <2>4. /\ res.format \in Formats /\ res.disk \in Disks /\ res.ok \in BOOLEAN
        /\ Placed(res.format, res.disk)
        /\ Held(res.format) \cup Stored(res.disk) \subseteq Held(format) \cup Stored(disk) \cup {s}
        /\ res.late \subseteq Held(format) \ (Held(res.format) \cup Stored(res.disk))
    BY <2>1 DEF WriteKeeps
  <2>5. /\ Held(format) \cup Stored(disk) \cup fate.late \cup fate.lost = fate.given
        /\ (Held(format) \cup Stored(disk)) \cap (fate.late \cup fate.lost) = {}
    BY <1>1 DEF SamplesInv
  <2>6. fate' \in [given : SUBSET Samples, late : SUBSET Samples, lost : SUBSET Samples]
    <3>1. fate' = [given |-> fate'.given, late |-> fate'.late, lost |-> fate'.lost]
      BY <1>9, <2>2 DEF SampleStep
    <3>2. fate'.given \subseteq Samples /\ fate'.late \subseteq Samples /\ fate'.lost \subseteq Samples
      BY <1>4, <2>3, <2>4, <2>5
    <3>3. QED
      BY <3>1, <3>2
  <2>7. RecorderTypeOK'
    <3>1. faults' \in 0..MaxFaults
      BY <1>1, <2>3, FaultsFacts
    <3>2. format' \in Formats /\ disk' \in Disks
      BY <2>3, <2>4
    <3>3. instance' \in {"reading", "failed", "ended"}
      BY <2>3
    <3>4. QED
      BY <1>1, <1>3, <1>7, <2>6, <3>1, <3>2, <3>3 DEF RecorderTypeOK, Formats, Disks
  <2>8. /\ Held(format') \cup Stored(disk') \cup fate'.late \cup fate'.lost = fate'.given
        /\ (Held(format') \cup Stored(disk')) \cap (fate'.late \cup fate'.lost) = {}
    <3> DEFINE K == Held(format) \cup Stored(disk)
               N == Held(res.format) \cup Stored(res.disk)
    <3>1. /\ N \subseteq K \cup {s} /\ res.late \subseteq K \ N
          /\ K \cup fate.late \cup fate.lost = fate.given /\ K \cap (fate.late \cup fate.lost) = {}
      BY <2>4, <2>5
    <3>2. Held(format') \cup Stored(disk') = N
      BY <2>3
    <3>3. fate'.lost = fate.lost \cup ((fate.given \cup {s}) \ (N \cup fate.late \cup res.late))
      BY <2>3
    <3> HIDE DEF N, K
    <3>4. N \cup fate'.late \cup fate'.lost = fate'.given
      BY <1>6, <2>3, <3>1, <3>3
    <3>5. N \cap (fate'.late \cup fate'.lost) = {}
      BY <1>6, <2>3, <3>1, <3>3
    <3>6. QED
      BY <3>2, <3>4, <3>5
  <2>9. format'.segment # None =>
          /\ Fair(format'.segment)
          /\ \A x \in format'.segment.pending \cap fate'.late : x.dts < format'.segment.start
    <3>1. CASE /\ format.segment # None /\ res.format.segment # None
               /\ res.format.segment.start = format.segment.start
               /\ res.format.segment.pending = format.segment.pending
               /\ \A x \in res.late : x.dts < format.segment.start
      <4>1. /\ Fair(format.segment)
            /\ \A x \in format.segment.pending \cap fate.late : x.dts < format.segment.start
        BY <1>1, <3>1 DEF SamplesInv
      <4>2. Fair(format'.segment)
        BY <2>3, <3>1, <4>1 DEF Fair
      <4>3. \A x \in format'.segment.pending \cap fate'.late : x.dts < format'.segment.start
        BY <2>3, <3>1, <4>1
      <4>4. QED
        BY <4>2, <4>3
    <3>2. CASE /\ res.late = {}
               /\ res.format.segment # None =>
                    /\ Fair(res.format.segment)
                    /\ res.format.segment.pending \subseteq Held(format) \cup {s}
      <4>1. fate'.late = fate.late /\ s \notin fate.late
        BY <1>6, <2>3, <2>5, <3>2
      <4>2. (Held(format) \cup {s}) \cap fate'.late = {}
        BY <2>5, <4>1
      <4>3. QED
        BY <2>3, <3>2, <4>2
    <3>3. QED
      BY <2>1, <3>1, <3>2 DEF WriteKeeps
  <2>10. SamplesInv'
    <3>1. \A x \in fate'.given : x.dts <= last'[x.track]
      BY <1>7, <2>3
    <3>2. Placed(format', disk')
      BY <2>3, <2>4
    <3>3. QED
      BY <2>8, <2>9, <3>1, <3>2 DEF SamplesInv
  <2>11. ASSUME SegmentDuration > MaxBasetime, Calm'
         PROVE  /\ fate'.lost = {} /\ instance' = "reading" /\ recorder'.at = "instance"
                /\ Fits(format'.segment, disk')
    <3>1. faults + Counted(f) = 0 /\ ~recorder.terminate /\ ~recording.cleans
      BY <1>3, <2>3, <2>11 DEF Calm
    <3>2. cleaner # "dirs"
      BY <3>1 DEF RecorderInv
    <3>3. f = "none" /\ faults = 0
      BY <1>1, <3>1, <3>2, FaultsFacts
    <3>4. /\ fate.lost = {} /\ recorder.at = "instance" /\ Fits(format.segment, disk)
      BY <2>11, <3>1, <3>3 DEF RecorderInv, Calm
    <3>5. /\ res.ok /\ Fits(res.format.segment, res.disk)
          /\ Held(res.format) \cup Stored(res.disk) \cup res.late = Held(format) \cup Stored(disk) \cup {s}
      BY <2>1, <2>11, <3>3, <3>4 DEF WriteKeeps
    <3>6. fate'.lost = {}
      BY <2>3, <2>5, <3>4, <3>5
    <3>7. QED
      BY <1>3, <2>3, <3>4, <3>5, <3>6
  <2>12. instance' # "ended"
    BY <2>3
  <2>13. cleaner' = "dirs" => recording'.cleans
    BY <1>3 DEF RecorderInv
  <2>14. QED
    BY <2>7, <2>10, <2>11, <2>12, <2>13 DEF RecorderInv
<1>10. QED
  BY <1>8, <1>9

LEMMA InstanceEndsInv ==
  ASSUME RecorderInv, InstanceEnds
  PROVE  RecorderInv'
<1> DEFINE st == [segment |-> format.segment, disk |-> disk, ok |-> TRUE]
           c(f) == IF format.segment = None THEN st ELSE CloseSegment(st, f)
<1>1. PICK f \in Faults :
        /\ faults' = faults + Counted(f)
        /\ disk' = c(f).disk
        /\ fate' = [fate EXCEPT !.lost = @ \cup (fate.given \ (Stored(c(f).disk) \cup fate.late))]
  BY DEF InstanceEnds
<1>2. /\ instance' = "ended" /\ format' = NewFormat
      /\ UNCHANGED <<recording, now, last, recorder, cleaner>>
      /\ instance = "reading" => recorder.terminate
  BY DEF InstanceEnds
<1>3. RecorderTypeOK /\ SamplesInv
  BY DEF RecorderInv
<1>4. /\ format \in Formats /\ disk \in Disks
      /\ fate \in [given : SUBSET Samples, late : SUBSET Samples, lost : SUBSET Samples]
  BY <1>3 DEF RecorderTypeOK, Formats, Disks
<1>5. /\ c(f).disk \in Disks /\ FilesApart(c(f).disk)
      /\ Stored(c(f).disk) \subseteq Held(format) \cup Stored(disk)
  <2>0. Placed(format, disk)
    BY <1>3 DEF SamplesInv
  <2>1. CASE format.segment = None
    <3>1. c(f).disk = disk
      BY <2>1
    <3> HIDE DEF c
    <3>2. QED
      BY <1>4, <2>0, <3>1 DEF Placed
  <2>2. CASE format.segment # None
    <3>1. format.segment \in Segments /\ InPart(format) = PartOf(format.segment)
      BY <1>4, <2>2 DEF Formats, InPart
    <3>2. st \in States /\ WellKept(st) /\ st.disk = disk /\ st.segment = format.segment
      BY <1>4, <2>0, <3>1 DEF States, WellKept, Placed
    <3>3. c(f) = CloseSegment(st, f)
      BY <2>2
    <3> HIDE DEF c, st
    <3> DEFINE r == CloseSegment(st, f)
    <3>r. /\ r \in States /\ WellKept(r)
          /\ Stored(r.disk) \cup PartOf(r.segment) \subseteq Stored(st.disk) \cup PartOf(st.segment)
      BY <3>2, CloseSegmentFacts
    <3>4. /\ c(f) \in States /\ WellKept(c(f))
          /\ Stored(c(f).disk) \cup PartOf(c(f).segment) \subseteq Stored(st.disk) \cup PartOf(st.segment)
      BY <3>r, <3>3
    <3>5. QED
      BY <1>4, <3>1, <3>2, <3>4, HeldIs DEF States, WellKept
  <2>3. QED
    BY <2>1, <2>2
<1> HIDE DEF c
<1>6. /\ fate'.given = fate.given /\ fate'.late = fate.late
      /\ fate'.lost = fate.lost \cup (fate.given \ (Stored(disk') \cup fate.late))
      /\ fate' \in [given : SUBSET Samples, late : SUBSET Samples, lost : SUBSET Samples]
  BY <1>1, <1>4
<1>7. /\ format' \in Formats /\ Held(format') = {} /\ Placed(format', disk') /\ format'.segment = None
  BY <1>1, <1>2, <1>5, NewFormatFacts
<1>8. RecorderTypeOK'
  <2>1. faults' \in 0..MaxFaults
    BY <1>1, <1>3, FaultsFacts
  <2>2. format' \in Formats /\ disk' \in Disks
    BY <1>1, <1>5, <1>7
  <2>3. QED
    BY <1>2, <1>3, <1>6, <2>1, <2>2 DEF RecorderTypeOK, Formats, Disks
<1>9. SamplesInv'
  <2>1. /\ Held(format) \cup Stored(disk) \cup fate.late \cup fate.lost = fate.given
        /\ (Held(format) \cup Stored(disk)) \cap (fate.late \cup fate.lost) = {}
        /\ \A s \in fate.given : s.dts <= last[s.track]
    BY <1>3 DEF SamplesInv
  <2>2. Stored(disk') \subseteq Held(format) \cup Stored(disk)
    BY <1>1, <1>5
  <2>3. Held(format') \cup Stored(disk') \cup fate'.late \cup fate'.lost = fate'.given
    BY <1>6, <1>7, <2>1, <2>2
  <2>4. (Held(format') \cup Stored(disk')) \cap (fate'.late \cup fate'.lost) = {}
    BY <1>6, <1>7, <2>1, <2>2
  <2>5. QED
    BY <1>2, <1>6, <1>7, <2>1, <2>3, <2>4 DEF SamplesInv
<1>10. ~(SegmentDuration > MaxBasetime /\ Calm')
  <2>1. SUFFICES ASSUME SegmentDuration > MaxBasetime, Calm' PROVE FALSE
    OBVIOUS
  <2>2. Calm
    BY <1>1, <1>2, <1>3, <2>1, FaultsFacts DEF Calm
  <2>3. instance = "reading" /\ ~recorder.terminate
    BY <2>1, <2>2 DEF RecorderInv, Calm
  <2>4. QED
    BY <1>2, <2>3
<1>11. cleaner' = "dirs" => recording'.cleans
  BY <1>2 DEF RecorderInv
<1>12. QED
  BY <1>2, <1>8, <1>9, <1>10, <1>11 DEF RecorderInv

LEMMA CleanerInv ==
  ASSUME RecorderInv, CleanerRuns
  PROVE  RecorderInv'
<1> DEFINE old == {t \in Times : disk[t] # None /\ t <= now - DeleteAfter}
           gone == UNION {disk[t].samples : t \in old}
<1>1. /\ disk' = [t \in Times |-> IF t \in old THEN None ELSE disk[t]]
      /\ fate' = [fate EXCEPT !.lost = @ \cup gone]
      /\ cleaner' = "dirs" /\ recording.cleans
      /\ UNCHANGED <<recording, now, last, recorder, instance, format, faults>>
  BY DEF CleanerRuns
<1>2. RecorderTypeOK /\ SamplesInv
  BY DEF RecorderInv
<1>3. /\ format \in Formats /\ disk \in Disks
      /\ fate \in [given : SUBSET Samples, late : SUBSET Samples, lost : SUBSET Samples]
      /\ FilesApart(disk)
  BY <1>2 DEF RecorderTypeOK, Formats, Disks, SamplesInv, Placed
<1>4. \A s : s \in gone <=> \E t \in old : s \in disk[t].samples
  OBVIOUS
<1>5. \A t \in old : t \in Times /\ disk[t] # None
  OBVIOUS
<1> HIDE DEF gone, old
<1>6. /\ disk' \in Disks
      /\ \A t \in Times : disk'[t] # None => t \notin old /\ disk'[t] = disk[t]
  BY <1>1, <1>3, DiskFacts DEF Disks
<1>7. FilesApart(disk')
  BY <1>3, <1>6 DEF FilesApart
<1>8. Stored(disk') = Stored(disk) \ gone /\ gone \subseteq Stored(disk)
  <2>1. gone \subseteq Stored(disk)
    BY <1>4, <1>5, StoredIn
  <2>2. ASSUME NEW s \in Stored(disk') PROVE s \in Stored(disk) /\ s \notin gone
    <3>1. PICK t \in Times : disk'[t] # None /\ s \in disk'[t].samples
      BY <2>2, StoredIn
    <3>2. t \notin old /\ disk[t] # None /\ s \in disk[t].samples
      BY <1>6, <3>1
    <3>3. s \in Stored(disk)
      BY <3>2, StoredIn
    <3>4. ASSUME s \in gone PROVE FALSE
      <4>1. PICK u \in old : s \in disk[u].samples
        BY <1>4, <3>4
      <4>2. u \in Times /\ disk[u] # None /\ u # t
        BY <1>5, <3>2, <4>1
      <4>3. QED
        BY <1>3, <3>2, <4>1, <4>2 DEF FilesApart
    <3>5. QED
      BY <3>3, <3>4
  <2>3. ASSUME NEW s \in Stored(disk), s \notin gone PROVE s \in Stored(disk')
    <3>1. PICK t \in Times : disk[t] # None /\ s \in disk[t].samples
      BY <2>3, StoredIn
    <3>2. t \notin old
      BY <1>4, <2>3, <3>1
    <3>3. disk'[t] = disk[t]
      BY <1>1, <3>2
    <3>4. QED
      BY <3>1, <3>3, StoredIn
  <2>4. QED
    BY <2>1, <2>2, <2>3
<1>9. /\ fate'.given = fate.given /\ fate'.late = fate.late /\ fate'.lost = fate.lost \cup gone
      /\ fate' \in [given : SUBSET Samples, late : SUBSET Samples, lost : SUBSET Samples]
  <2>1. gone \subseteq Samples
    BY <1>3, <1>8, DiskFacts
  <2>2. QED
    BY <1>1, <1>3, <2>1
<1>10. RecorderTypeOK'
  <2>1. disk' \in [Times -> Files \cup {None}]
    BY <1>6 DEF Disks
  <2>2. QED
    BY <1>1, <1>2, <1>9, <2>1 DEF RecorderTypeOK
<1>11. SamplesInv'
  <2>1. /\ Held(format) \cup Stored(disk) \cup fate.late \cup fate.lost = fate.given
        /\ (Held(format) \cup Stored(disk)) \cap (fate.late \cup fate.lost) = {}
        /\ \A s \in fate.given : s.dts <= last[s.track]
        /\ format.segment # None =>
             /\ Fair(format.segment)
             /\ \A x \in format.segment.pending \cap fate.late : x.dts < format.segment.start
    BY <1>2 DEF SamplesInv
  <2>2. Placed(format, disk) /\ Held(format) = Waiting(format) \cup InPart(format)
    BY <1>2, <1>3, HeldIs DEF SamplesInv
  <2>3. Held(format) \cap gone = {}
    BY <1>8, <2>2 DEF Placed
  <2>4. Placed(format, disk')
    BY <1>7, <1>8, <2>2 DEF Placed
  <2>5. /\ Held(format) \cup Stored(disk') \cup fate'.late \cup fate'.lost = fate'.given
        /\ (Held(format) \cup Stored(disk')) \cap (fate'.late \cup fate'.lost) = {}
    BY <1>8, <1>9, <2>1, <2>3
  <2>6. QED
    BY <1>1, <1>9, <2>1, <2>4, <2>5 DEF SamplesInv
<1>12. ~Calm'
  BY <1>1 DEF Calm
<1>13. QED
  BY <1>1, <1>10, <1>11, <1>12 DEF RecorderInv

LEMMA RecorderNextInv == RecorderInv /\ [RecorderNext]_recorderVars => RecorderInv'
<1> SUFFICES ASSUME RecorderInv, [RecorderNext]_recorderVars PROVE RecorderInv'
  OBVIOUS
<1>1. CASE \E t \in Tracks : Sample(t)
  BY <1>1, SampleInv
<1>2. CASE InstanceEnds
  BY <1>2, InstanceEndsInv
<1>3. CASE CleanerRuns
  BY <1>3, CleanerInv
<1>4. CASE InstanceDone \/ Restart \/ Close \/ CleanerDone \/ Tick \/ UNCHANGED recorderVars
  BY <1>4, RecorderControlInv
<1>5. QED
  BY <1>1, <1>2, <1>3, <1>4 DEF RecorderNext

(* The recorder keeps the types of its state.                              *)
THEOREM RecorderTypeCorrect == RecorderSpec => []RecorderTypeOK
<1>1. RecorderInv => RecorderTypeOK
  BY DEF RecorderInv
<1>2. QED
  BY <1>1, RecorderInitInv, RecorderNextInv, PTL DEF RecorderSpec

LEMMA PlacesIsOne ==
  ASSUME RecorderInv, NEW s \in fate.given
  PROVE  Places(s) = 1
<1> DEFINE S == {t \in Times : disk[t] # None /\ s \in disk[t].samples}
<1>1. /\ FilesApart(disk) /\ Held(format) \cap Stored(disk) = {}
      /\ Held(format) \cup Stored(disk) \cup fate.late \cup fate.lost = fate.given
      /\ (Held(format) \cup Stored(disk)) \cap (fate.late \cup fate.lost) = {}
  <2>1. format \in Formats
    BY DEF RecorderInv, RecorderTypeOK, Formats
  <2>2. QED
    BY <2>1, HeldIs DEF RecorderInv, SamplesInv, Placed
<1>2. CASE s \in Stored(disk)
  <2>1. PICK t \in Times : disk[t] # None /\ s \in disk[t].samples
    BY <1>2, StoredIn
  <2>2. S = {t}
    BY <1>1, <2>1 DEF FilesApart
  <2>3. Cardinality(S) = 1
    BY <2>2, FS_Singleton
  <2>4. s \notin Held(format) /\ s \notin fate.late \cup fate.lost
    BY <1>1, <1>2
  <2> HIDE DEF S
  <2>5. Places(s) = Cardinality(S) + 0 + 0
    BY <2>4 DEF Places, S
  <2>6. QED
    BY <2>3, <2>5
<1>3. CASE s \notin Stored(disk)
  <2>1. S = {}
    BY <1>3, StoredIn
  <2>2. Cardinality(S) = 0
    BY <2>1, FS_EmptySet
  <2>3. s \in Held(format) <=> s \notin fate.late \cup fate.lost
    BY <1>1, <1>3
  <2> HIDE DEF S
  <2>4. Places(s) = Cardinality(S) + 1
    <3>1. CASE s \in Held(format)
      BY <2>2, <2>3, <3>1 DEF Places, S
    <3>2. CASE s \notin Held(format)
      BY <2>2, <2>3, <3>2 DEF Places, S
    <3>3. QED
      BY <3>1, <3>2
  <2>5. QED
    BY <2>2, <2>4
<1>4. QED
  BY <1>2, <1>3

(* Whatever fails, is closed or is cleaned: every sample that the callbacks *)
(* accepted is in wait, in the part, in one file, or accounted for as late  *)
(* or lost, and in no second place.                                         *)
THEOREM EverySampleInOnePlace ==
  RecorderSpec => [](\A s \in fate.given : Places(s) = 1)
<1>1. RecorderInv => \A s \in fate.given : Places(s) = 1
  BY PlacesIsOne
<1>2. QED
  BY <1>1, RecorderInitInv, RecorderNextInv, PTL DEF RecorderSpec

(* With segments that last longer than the tolerance between the tracks no  *)
(* sample is lost before somebody stops the recorder, an operation on the   *)
(* disk fails or the cleaner removes its file.                              *)
THEOREM SamplesStayKept ==
  ASSUME SegmentDuration > MaxBasetime
  PROVE  RecorderSpec => []SamplesKept
<1>1. ASSUME RecorderInv PROVE SamplesKept
  <2>1. \A s \in fate.given : Places(s) = 1
    BY <1>1, PlacesIsOne
  <2>2. fate.lost # {} => recorder.terminate \/ faults > 0 \/ recording.cleans
    <3>1. faults \in Nat
      BY <1>1, DurationsAreNaturals DEF RecorderInv, RecorderTypeOK
    <3>2. Calm => fate.lost = {}
      BY <1>1 DEF RecorderInv
    <3>3. QED
      BY <3>1, <3>2 DEF Calm
  <2>3. format.segment # None =>
          \A s \in format.segment.pending \cap fate.late : \E u \in format.segment.pending :
            u.dts - s.dts > MaxBasetime
    BY <1>1 DEF RecorderInv, SamplesInv, Fair
  <2>4. QED
    BY <2>1, <2>2, <2>3 DEF SamplesKept
<1>2. QED
  BY <1>1, RecorderInitInv, RecorderNextInv, PTL DEF RecorderSpec
=============================================================================
