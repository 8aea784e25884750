----------------------------- MODULE PathProofs -----------------------------
(***************************************************************************)
(* Proofs about the path, for any sets of clients and any configurations:  *)
(* types, then what it does for its clients, then its sources on demand,   *)
(* and that it implements PathService.  The last part is about the handler *)
(* of its source, which gives the path what Path.tla relies on.            *)
(***************************************************************************)
EXTENDS Path, StaticSource, FiniteSetTheorems, TLAPS

(* Held requests are drawn from the queue.                                 *)
LEMMA AdmittedHeld ==
  ASSUME NEW present, heldReaders \in Seq(Readers)
  PROVE  /\ Admitted(present) \subseteq OnHold
         /\ OnHold \subseteq Readers
BY DEF Admitted, OnHold

(* consumeOnHoldRequests and the rejection of what is on hold keep types.  *)
LEMMA ConsumeType ==
  ASSUME TypeOK, NEW present \in SUBSET Readers,
         NEW states \in [Readers -> {"idle", "waiting", "reading", "kicked", "gone"}],
         ConsumeOnHoldRequests(present, states)
  PROVE  /\ readers' \in SUBSET Readers
         /\ readerState' \in [Readers -> {"idle", "waiting", "reading", "kicked", "gone"}]
         /\ heldDescribes' \in SUBSET Describers
         /\ heldReaders' \in Seq(Readers)
         /\ describerState' \in
              [Describers -> {"idle", "waiting", "stream", "redirect", "error"}]
BY AdmittedHeld DEF ConsumeOnHoldRequests, TypeOK

LEMMA RejectType ==
  ASSUME TypeOK,
         NEW states \in [Readers -> {"idle", "waiting", "reading", "kicked", "gone"}],
         RejectOnHold(states)
  PROVE  /\ readerState' \in [Readers -> {"idle", "waiting", "reading", "kicked", "gone"}]
         /\ heldDescribes' \in SUBSET Describers
         /\ heldReaders' \in Seq(Readers)
         /\ describerState' \in
              [Describers -> {"idle", "waiting", "stream", "redirect", "error"}]
BY DEF RejectOnHold, TypeOK

LEMMA KickedType ==
  TypeOK => Kicked \in [Readers -> {"idle", "waiting", "reading", "kicked", "gone"}]
BY DEF TypeOK, Kicked

LEMMA StartType ==
  ASSUME TypeOK, StartOnDemand
  PROVE  /\ handler' \in {"stopped", "running", "ready"}
         /\ onUnDemandHook' \in BOOLEAN
         /\ onDemandState' \in {"initial", "waiting", "ready", "closing"}
         /\ readyTimer' \in BOOLEAN
         /\ closeTimer' \in BOOLEAN
<1>1. CASE onDemandState # "initial"
  BY <1>1 DEF StartOnDemand, demandVars, TypeOK
<1>2. CASE onDemandState = "initial" /\ HasStaticSource(conf)
  BY <1>2 DEF StartOnDemand, OnDemandStaticSourceStart, TypeOK
<1>3. CASE onDemandState = "initial" /\ ~HasStaticSource(conf)
  BY <1>3 DEF StartOnDemand, OnDemandPublisherStart, TypeOK
<1> QED
  BY <1>1, <1>2, <1>3

LEMMA AddReaderPostType ==
  ASSUME TypeOK, NEW r \in Readers, AddReaderPost(r)
  PROVE  /\ readers' \in SUBSET Readers
         /\ readerState' \in [Readers -> {"idle", "waiting", "reading", "kicked", "gone"}]
         /\ onUnDemandHook' \in BOOLEAN
         /\ onDemandState' \in {"initial", "waiting", "ready", "closing"}
         /\ readyTimer' \in BOOLEAN
         /\ closeTimer' \in BOOLEAN
<1> USE DEF readerVars, demandVars
<1>1. \/ UNCHANGED <<readerVars, demandVars>>
      \/ /\ readers' = readers \cup {r}
         /\ readerState' = [readerState EXCEPT ![r] = "reading"]
         /\ \/ /\ onDemandState' = "ready"
               /\ closeTimer' = FALSE
               /\ UNCHANGED <<onUnDemandHook, readyTimer>>
            \/ UNCHANGED demandVars
  <2> HIDE DEF readerVars, demandVars
  <2> QED BY DEF AddReaderPost
<1> QED
  BY <1>1 DEF TypeOK

(* Every variable of a path keeps its type in every step of the loop.      *)
THEOREM TypeCorrect == Spec => []TypeOK
<1> USE DEF vars, streamVars, demandVars, holdVars, readerVars, publishVars
<1>1. Init => TypeOK
  <2> SUFFICES ASSUME Init PROVE TypeOK
    OBVIOUS
  <2>1. heldReaders \in Seq(Readers)
    BY DEF Init
  <2>2. /\ describerState \in [Describers -> {"idle", "waiting", "stream", "redirect", "error"}]
        /\ readerState \in [Readers -> {"idle", "waiting", "reading", "kicked", "gone"}]
        /\ publisherState \in [Publishers -> {"idle", "publishing", "kicked", "gone"}]
        /\ handler \in {"stopped", "running", "ready"}
    BY DEF Init
  <2> QED BY <2>1, <2>2 DEF Init, TypeOK
<1>2. TypeOK /\ [Next]_vars => TypeOK'
  <2> SUFFICES ASSUME TypeOK, [Next]_vars PROVE TypeOK'
    OBVIOUS
  <2>1. CASE DoOnDemandStaticSourceReadyTimer
    BY <2>1, RejectType
    DEF DoOnDemandStaticSourceReadyTimer, OnDemandStaticSourceStop, StopPanics, StayOrClose, TypeOK
  <2>2. CASE DoOnDemandStaticSourceCloseTimer
    BY <2>2, KickedType
    DEF DoOnDemandStaticSourceCloseTimer, SetNotReady, StreamDown, NotReadyPanics,
        OnDemandStaticSourceStop, StopPanics, StayOrClose, TypeOK
  <2>3. CASE DoOnDemandPublisherReadyTimer
    BY <2>3, RejectType
    DEF DoOnDemandPublisherReadyTimer, OnDemandPublisherStop, StayOrClose, TypeOK
  <2>4. CASE DoOnDemandPublisherCloseTimer
    BY <2>4 DEF DoOnDemandPublisherCloseTimer, OnDemandPublisherStop, Stay, TypeOK
  <2>5. ASSUME NEW new \in Confs, DoReloadConf(new) PROVE TypeOK'
    BY <2>5, ConfsValid DEF DoReloadConf, RecorderKept, PathConf, Stay, TypeOK
  <2>6. ASSUME NEW ok \in Outcomes, DoSourceStaticSetReady(ok) PROVE TypeOK'
    BY <2>6, ConsumeType, ConfsValid
    DEF DoSourceStaticSetReady, SetReady, OnDemandReady, PathConf, Stay, TypeOK
  <2>7. CASE DoSourceStaticSetNotReady
    BY <2>7, KickedType
    DEF DoSourceStaticSetNotReady, SetNotReady, StreamDown, NotReadyPanics,
        OnDemandStaticSourceStop, StayOrClose, TypeOK
  <2>8. ASSUME NEW d \in Describers, DoDescribe(d) PROVE TypeOK'
    <3>1. DescribeAnswer \in {"idle", "waiting", "stream", "redirect", "error"}
      BY DEF DescribeAnswer
    <3>2. describerState' \in [Describers -> {"idle", "waiting", "stream", "redirect", "error"}]
      BY <2>8, <3>1 DEF DoDescribe, TypeOK
    <3>3. CASE DescribeAnswer = "waiting"
      <4>1. /\ StartOnDemand
            /\ heldDescribes' \in SUBSET Describers
        BY <2>8, <3>3 DEF DoDescribe, TypeOK
      <4> QED
        BY <2>8, <3>2, <4>1, StartType DEF DoDescribe, StayOrClose, TypeOK
    <3>4. CASE DescribeAnswer # "waiting"
      BY <2>8, <3>2, <3>4 DEF DoDescribe, StayOrClose, TypeOK
    <3> QED
      BY <3>3, <3>4
  <2>9. ASSUME NEW d \in Describers, DescribeTerminated(d) PROVE TypeOK'
    BY <2>9 DEF DescribeTerminated, TypeOK
  <2>10. ASSUME NEW r \in Readers, DoAddReader(r) PROVE TypeOK'
    <3>1. CASE stream # "nil"
      <4>1. AddReaderPost(r)
        BY <2>10, <3>1 DEF DoAddReader
      <4> QED
        BY <2>10, <3>1, <4>1, AddReaderPostType DEF DoAddReader, StayOrClose, TypeOK
    <3>2. CASE stream = "nil"
      <4>1. heldReaders' \in Seq(Readers)
        BY <2>10, <3>2 DEF DoAddReader, TypeOK
      <4>2. CASE OnDemand(conf)
        BY <2>10, <3>2, <4>1, <4>2, StartType DEF DoAddReader, StayOrClose, TypeOK
      <4>3. CASE ~OnDemand(conf)
        BY <2>10, <3>2, <4>1, <4>3 DEF DoAddReader, StayOrClose, TypeOK
      <4> QED BY <4>2, <4>3
    <3> QED BY <3>1, <3>2
  <2>11. ASSUME NEW r \in Readers, DoRemoveReader(r) PROVE TypeOK'
    <3>1. /\ onUnDemandHook' \in BOOLEAN /\ readyTimer' \in BOOLEAN /\ closeTimer' \in BOOLEAN
          /\ onDemandState' \in {"initial", "waiting", "ready", "closing"}
      BY <2>11 DEF DoRemoveReader, ScheduleClose, TypeOK
    <3> QED
      BY <2>11, <3>1 DEF DoRemoveReader, Stay, TypeOK
  <2>12. ASSUME NEW r \in Readers, RemoveReaderTerminated(r) PROVE TypeOK'
    BY <2>12 DEF RemoveReaderTerminated, TypeOK
  <2>13. ASSUME NEW p \in Publishers, NEW ok \in Outcomes, DoAddPublisher(p, ok) PROVE TypeOK'
    <3> DEFINE present == IF Overridden THEN {} ELSE readers
               states  == IF Overridden THEN Kicked ELSE readerState
    <3>1. /\ present \in SUBSET Readers
          /\ states \in [Readers -> {"idle", "waiting", "reading", "kicked", "gone"}]
      BY KickedType DEF TypeOK
    <3>2. /\ stream' \in {"nil", "ok", "failed"}
          /\ recorder' \in Recordings \cup {Nil}
          /\ onNotReadyHook' \in {"nil", "armed", "spent"}
          /\ publisher' \in Publishers \cup {Nil}
          /\ publisherState' \in [Publishers -> {"idle", "publishing", "kicked", "gone"}]
      BY <2>13, ConfsValid DEF DoAddPublisher, SetReady, PathConf, TypeOK
    <3>3. /\ readers' \in SUBSET Readers
          /\ readerState' \in [Readers -> {"idle", "waiting", "reading", "kicked", "gone"}]
          /\ heldDescribes' \in SUBSET Describers
          /\ heldReaders' \in Seq(Readers)
          /\ describerState' \in
               [Describers -> {"idle", "waiting", "stream", "redirect", "error"}]
      <4> HIDE DEF present, states
      <4>1. CASE ok
        <5>1. ConsumeOnHoldRequests(present, states)
          BY <2>13, <4>1 DEF DoAddPublisher, present, states
        <5> QED BY <5>1, <3>1, ConsumeType
      <4>2. CASE ~ok
        BY <2>13, <4>2, <3>1 DEF DoAddPublisher, present, states, TypeOK
      <4> QED BY <4>1, <4>2
    <3>4. /\ onUnDemandHook' \in BOOLEAN /\ readyTimer' \in BOOLEAN /\ closeTimer' \in BOOLEAN
          /\ onDemandState' \in {"initial", "waiting", "ready", "closing"}
      BY <2>13 DEF DoAddPublisher, OnDemandReady, TypeOK
    <3> QED
      BY <2>13, <3>2, <3>3, <3>4 DEF DoAddPublisher, Stay, TypeOK
  <2>14. ASSUME NEW p \in Publishers, DoRemovePublisher(p) PROVE TypeOK'
    BY <2>14, KickedType DEF DoRemovePublisher, SetNotReady, StreamDown, StayOrClose, TypeOK
  <2>15. ASSUME NEW p \in Publishers, RemovePublisherTerminated(p) PROVE TypeOK'
    BY <2>15 DEF RemovePublisherTerminated, TypeOK
  <2>16. CASE Close
    BY <2>16 DEF Close, TypeOK
  <2>17. CASE Terminate
    BY <2>17 DEF Terminate, TypeOK
  <2>18. CASE Cleanup
    <3> DEFINE states == IF stream # "nil" THEN Kicked ELSE readerState
    <3>1. states \in [Readers -> {"idle", "waiting", "reading", "kicked", "gone"}]
      BY KickedType DEF TypeOK
    <3>2. RejectOnHold(states)
      BY <2>18 DEF Cleanup
    <3> HIDE DEF states
    <3>3. /\ readerState' \in [Readers -> {"idle", "waiting", "reading", "kicked", "gone"}]
          /\ heldDescribes' \in SUBSET Describers
          /\ heldReaders' \in Seq(Readers)
          /\ describerState' \in
               [Describers -> {"idle", "waiting", "stream", "redirect", "error"}]
      BY <3>1, <3>2, RejectType
    <3> QED
      BY <2>18, <3>3 DEF Cleanup, StreamDown, TypeOK
  <2>19. CASE UNCHANGED vars
    BY <2>19 DEF TypeOK
  <2> QED
    BY <2>1, <2>2, <2>3, <2>4, <2>5, <2>6, <2>7, <2>8, <2>9, <2>10, <2>11, <2>12, <2>13,
       <2>14, <2>15, <2>16, <2>17, <2>18, <2>19 DEF Next
<1>3. QED
  BY <1>1, <1>2, PTL DEF Spec
-----------------------------------------------------------------------------
(***************************************************************************)
(* What a path does for its clients, proved for any sets of clients and    *)
(* any configurations: nobody is forgotten on hold, nobody reads a stream  *)
(* that is not there, the limit of readers holds.                          *)
(***************************************************************************)

(* The three ways a handler deals with what is on hold or with readers.    *)

(* consumeOnHoldRequests leaves nobody waiting.                            *)
LEMMA ConsumeHeld ==
  ASSUME TypeOK, HeldExactlyOnce, NEW present,
         NEW states \in [Readers -> {"idle", "waiting", "reading", "kicked", "gone"}],
         \A r \in Readers : states[r] = "waiting" <=> readerState[r] = "waiting",
         ConsumeOnHoldRequests(present, states)
  PROVE  HeldExactlyOnce'
<1>1. \A r \in Readers : readerState'[r] # "waiting"
  BY DEF ConsumeOnHoldRequests, HeldExactlyOnce, TypeOK
<1>2. \A d \in Describers : describerState'[d] # "waiting"
  BY DEF ConsumeOnHoldRequests, HeldExactlyOnce, TypeOK
<1>3. heldDescribes' = {} /\ heldReaders' = <<>>
  BY DEF ConsumeOnHoldRequests
<1> QED
  BY <1>1, <1>2, <1>3 DEF HeldExactlyOnce, OnHold

(* Neither does the rejection of what is on hold.                          *)
LEMMA RejectHeld ==
  ASSUME TypeOK, HeldExactlyOnce,
         NEW states \in [Readers -> {"idle", "waiting", "reading", "kicked", "gone"}],
         \A r \in Readers : states[r] = "waiting" <=> readerState[r] = "waiting",
         RejectOnHold(states)
  PROVE  HeldExactlyOnce'
<1>1. \A r \in Readers : readerState'[r] # "waiting"
  BY DEF RejectOnHold, HeldExactlyOnce, TypeOK
<1>2. \A d \in Describers : describerState'[d] # "waiting"
  BY DEF RejectOnHold, HeldExactlyOnce, TypeOK
<1>3. heldDescribes' = {} /\ heldReaders' = <<>>
  BY DEF RejectOnHold
<1> QED
  BY <1>1, <1>2, <1>3 DEF HeldExactlyOnce, OnHold

(* A step that leaves the queues alone and the waiting clients waiting.    *)
LEMMA SameHeld ==
  ASSUME HeldExactlyOnce,
         UNCHANGED <<heldDescribes, heldReaders, describerState>>,
         \A r \in Readers : readerState'[r] = "waiting" <=> readerState[r] = "waiting"
  PROVE  HeldExactlyOnce'
<1>1. heldDescribes' = {d \in Describers : describerState'[d] = "waiting"}
  BY DEF HeldExactlyOnce
<1>2. OnHold' = {r \in Readers : readerState'[r] = "waiting"}
  BY DEF HeldExactlyOnce, OnHold
<1> QED
  BY <1>1, <1>2 DEF HeldExactlyOnce

(* Telling the readers to close does not touch those who wait.             *)
LEMMA KickedWaits ==
  TypeOK => \A r \in Readers : Kicked[r] = "waiting" <=> readerState[r] = "waiting"
BY DEF TypeOK, Kicked

(* Case by case: a handler puts on hold whom it marks as waiting, and      *)
(* answers whom it takes off.                                              *)
LEMMA HeldStep ==
  TypeOK /\ HeldExactlyOnce /\ [Next]_vars => HeldExactlyOnce'
<1> SUFFICES ASSUME TypeOK, HeldExactlyOnce, [Next]_vars PROVE HeldExactlyOnce'
  OBVIOUS
<1> USE DEF holdVars, readerVars
<1>t. readerState \in [Readers -> {"idle", "waiting", "reading", "kicked", "gone"}]
  BY DEF TypeOK
<1>1. CASE DoOnDemandStaticSourceReadyTimer
  BY <1>1, <1>t, RejectHeld DEF DoOnDemandStaticSourceReadyTimer
<1>2. CASE DoOnDemandStaticSourceCloseTimer
  BY <1>2, KickedWaits, SameHeld DEF DoOnDemandStaticSourceCloseTimer, SetNotReady
<1>3. CASE DoOnDemandPublisherReadyTimer
  BY <1>3, <1>t, RejectHeld DEF DoOnDemandPublisherReadyTimer
<1>4. CASE DoOnDemandPublisherCloseTimer
  BY <1>4, SameHeld DEF DoOnDemandPublisherCloseTimer
<1>5. ASSUME NEW new \in Confs, DoReloadConf(new) PROVE HeldExactlyOnce'
  BY <1>5, SameHeld DEF DoReloadConf
<1>6. ASSUME NEW ok \in Outcomes, DoSourceStaticSetReady(ok) PROVE HeldExactlyOnce'
  <2>1. CASE ok
    BY <1>6, <1>t, <2>1, ConsumeHeld DEF DoSourceStaticSetReady
  <2>2. CASE ~ok
    BY <1>6, <2>2, SameHeld DEF DoSourceStaticSetReady
  <2> QED BY <2>1, <2>2
<1>7. CASE DoSourceStaticSetNotReady
  BY <1>7, KickedWaits, SameHeld DEF DoSourceStaticSetNotReady, SetNotReady
<1>8. ASSUME NEW d \in Describers, DoDescribe(d) PROVE HeldExactlyOnce'
  <2>1. UNCHANGED <<heldReaders, readerState>>
    BY <1>8 DEF DoDescribe
  <2>2. heldDescribes' = {e \in Describers : describerState'[e] = "waiting"}
    <3>1. CASE DescribeAnswer = "waiting"
      BY <1>8, <3>1 DEF DoDescribe, HeldExactlyOnce, TypeOK
    <3>2. CASE DescribeAnswer # "waiting"
      BY <1>8, <3>2 DEF DoDescribe, HeldExactlyOnce, TypeOK
    <3> QED BY <3>1, <3>2
  <2> QED
    BY <2>1, <2>2 DEF HeldExactlyOnce, OnHold
<1>9. ASSUME NEW d \in Describers, DescribeTerminated(d) PROVE HeldExactlyOnce'
  <2>1. UNCHANGED <<heldDescribes, heldReaders, readerState>>
    BY <1>9 DEF DescribeTerminated
  <2>2. heldDescribes' = {e \in Describers : describerState'[e] = "waiting"}
    BY <1>9, <2>1 DEF DescribeTerminated, HeldExactlyOnce, TypeOK
  <2> QED
    BY <2>1, <2>2 DEF HeldExactlyOnce, OnHold
<1>10. ASSUME NEW r \in Readers, DoAddReader(r) PROVE HeldExactlyOnce'
  <2>1. CASE stream # "nil"
    <3>1. AddReaderPost(r) /\ UNCHANGED <<heldDescribes, heldReaders, describerState>>
      BY <1>10, <2>1 DEF DoAddReader
    <3>2. \/ readerState' = readerState
          \/ readerState' = [readerState EXCEPT ![r] = "reading"]
      BY <3>1 DEF AddReaderPost
    <3>3. readerState[r] # "waiting"
      BY <1>10 DEF DoAddReader
    <3>4. \A q \in Readers : readerState'[q] = "waiting" <=> readerState[q] = "waiting"
      BY <1>t, <3>2, <3>3
    <3> QED BY <3>1, <3>4, SameHeld
  <2>2. CASE stream = "nil" /\ OnDemand(conf)
    <3>1. /\ heldReaders' = Append(heldReaders, r)
          /\ readerState' = [readerState EXCEPT ![r] = "waiting"]
          /\ UNCHANGED <<heldDescribes, describerState>>
          /\ readerState[r] # "waiting"
      BY <1>10, <2>2 DEF DoAddReader
    <3>2. r \notin OnHold
      BY <3>1 DEF HeldExactlyOnce
    <3>3. heldReaders \in Seq(Readers)
      BY DEF TypeOK
    <3>4. OnHold' = OnHold \cup {r}
      BY <3>1, <3>3 DEF OnHold
    <3>5. \A i, j \in DOMAIN heldReaders' : heldReaders'[i] = heldReaders'[j] => i = j
      BY <3>1, <3>2, <3>3 DEF OnHold, HeldExactlyOnce
    <3>6. OnHold' = {q \in Readers : readerState'[q] = "waiting"}
      BY <1>t, <3>1, <3>4 DEF HeldExactlyOnce
    <3>7. heldDescribes' = {d \in Describers : describerState'[d] = "waiting"}
      BY <3>1 DEF HeldExactlyOnce
    <3> QED BY <3>5, <3>6, <3>7 DEF HeldExactlyOnce
  <2>3. CASE stream = "nil" /\ ~OnDemand(conf)
    BY <1>10, <2>3, SameHeld DEF DoAddReader
  <2> QED BY <2>1, <2>2, <2>3
<1>11. ASSUME NEW r \in Readers, DoRemoveReader(r) PROVE HeldExactlyOnce'
  BY <1>11, <1>t, SameHeld DEF DoRemoveReader
<1>12. ASSUME NEW r \in Readers, RemoveReaderTerminated(r) PROVE HeldExactlyOnce'
  BY <1>12, <1>t, SameHeld DEF RemoveReaderTerminated
<1>13. ASSUME NEW p \in Publishers, NEW ok \in Outcomes, DoAddPublisher(p, ok)
       PROVE  HeldExactlyOnce'
  <2> DEFINE present == IF Overridden THEN {} ELSE readers
             states  == IF Overridden THEN Kicked ELSE readerState
  <2>1. /\ states \in [Readers -> {"idle", "waiting", "reading", "kicked", "gone"}]
        /\ \A r \in Readers : states[r] = "waiting" <=> readerState[r] = "waiting"
    BY <1>t, KickedWaits, KickedType
  <2>2. CASE ok
    <3>1. ConsumeOnHoldRequests(present, states)
      BY <1>13, <2>2 DEF DoAddPublisher
    <3> HIDE DEF present, states
    <3> QED BY <2>1, <3>1, ConsumeHeld
  <2>3. CASE ~ok
    BY <1>13, <2>1, <2>3, SameHeld DEF DoAddPublisher
  <2> QED BY <2>2, <2>3
<1>14. ASSUME NEW p \in Publishers, DoRemovePublisher(p) PROVE HeldExactlyOnce'
  BY <1>14, KickedWaits, SameHeld DEF DoRemovePublisher, SetNotReady
<1>15. ASSUME NEW p \in Publishers, RemovePublisherTerminated(p) PROVE HeldExactlyOnce'
  BY <1>15, SameHeld DEF RemovePublisherTerminated
<1>16. CASE Close
  BY <1>16, SameHeld DEF Close
<1>17. CASE Terminate
  BY <1>17, SameHeld DEF Terminate
<1>18. CASE Cleanup
  <2> DEFINE states == IF stream # "nil" THEN Kicked ELSE readerState
  <2>1. /\ states \in [Readers -> {"idle", "waiting", "reading", "kicked", "gone"}]
        /\ \A r \in Readers : states[r] = "waiting" <=> readerState[r] = "waiting"
    BY <1>t, KickedWaits, KickedType
  <2>2. RejectOnHold(states)
    BY <1>18 DEF Cleanup
  <2> HIDE DEF states
  <2> QED BY <2>1, <2>2, RejectHeld
<1>19. CASE UNCHANGED vars
  BY <1>19, SameHeld DEF vars
<1> QED
  BY <1>1, <1>2, <1>3, <1>4, <1>5, <1>6, <1>7, <1>8, <1>9, <1>10, <1>11, <1>12, <1>13,
     <1>14, <1>15, <1>16, <1>17, <1>18, <1>19 DEF Next

(* No request of a client is dropped, answered twice or kept after its     *)
(* answer: who waits for an answer is on hold, once, and nobody else is.   *)
THEOREM NobodyIsForgotten == Spec => []HeldExactlyOnce
<1>1. Init => HeldExactlyOnce
  BY DEF Init, HeldExactlyOnce, OnHold
<1> QED
  BY <1>1, HeldStep, TypeCorrect, PTL DEF Spec
-----------------------------------------------------------------------------
(* Who reads is in the table of the path, who is in the table reads or has *)
(* left without the path knowing.                                          *)
Tracked(present, states) ==
  /\ \A r \in Readers : states[r] = "reading" => r \in present
  /\ \A r \in present : states[r] \in {"reading", "gone"}
ReadersTracked == Tracked(readers, readerState)

(* Once the readers are told to close nobody reads.                        *)
LEMMA KickedTracked ==
  ASSUME TypeOK, ReadersTracked
  PROVE  Tracked({}, Kicked)
BY DEF TypeOK, ReadersTracked, Tracked, Kicked

(* consumeOnHoldRequests adds to the table exactly whom it lets read.      *)
LEMMA ConsumeTracked ==
  ASSUME TypeOK, HeldExactlyOnce, NEW present \in SUBSET Readers,
         NEW states \in [Readers -> {"idle", "waiting", "reading", "kicked", "gone"}],
         \A r \in Readers : states[r] = "waiting" <=> readerState[r] = "waiting",
         Tracked(present, states), ConsumeOnHoldRequests(present, states)
  PROVE  ReadersTracked'
<1>1. OnHold = {r \in Readers : states[r] = "waiting"}
  BY DEF HeldExactlyOnce
<1>2. Admitted(present) \subseteq OnHold
  BY AdmittedHeld DEF TypeOK
<1>3. /\ readers' = present \cup Admitted(present)
      /\ readerState' = [r \in Readers |-> IF r \in Admitted(present) THEN "reading"
                                           ELSE IF r \in OnHold THEN "idle" ELSE states[r]]
  BY DEF ConsumeOnHoldRequests
<1>4. \A r \in Readers : readerState'[r] = "reading" => r \in readers'
  BY <1>3 DEF Tracked
<1>5. ASSUME NEW r \in readers' PROVE readerState'[r] \in {"reading", "gone"}
  <2>1. r \in Readers
    BY <1>1, <1>2, <1>3
  <2>2. CASE r \in Admitted(present)
    BY <1>3, <2>1, <2>2
  <2>3. CASE r \notin Admitted(present)
    BY <1>1, <1>3, <2>1, <2>3 DEF Tracked
  <2> QED BY <2>2, <2>3
<1> QED
  BY <1>4, <1>5 DEF ReadersTracked, Tracked

(* A rejection concerns nobody in the table.                               *)
LEMMA RejectTracked ==
  ASSUME TypeOK, HeldExactlyOnce, NEW present \in SUBSET Readers,
         NEW states \in [Readers -> {"idle", "waiting", "reading", "kicked", "gone"}],
         \A r \in Readers : states[r] = "waiting" <=> readerState[r] = "waiting",
         Tracked(present, states), RejectOnHold(states), readers' = present
  PROVE  ReadersTracked'
<1>1. OnHold = {r \in Readers : states[r] = "waiting"}
  BY DEF HeldExactlyOnce
<1>2. readerState' = [r \in Readers |-> IF r \in OnHold THEN "idle" ELSE states[r]]
  BY DEF RejectOnHold
<1> QED
  BY <1>1, <1>2 DEF ReadersTracked, Tracked

(* setNotReady or nothing.                                                 *)
LEMMA NotReadyTracked ==
  ASSUME TypeOK, ReadersTracked, SetNotReady \/ UNCHANGED readerVars
  PROVE  ReadersTracked'
<1>1. CASE SetNotReady
  BY <1>1, KickedTracked DEF SetNotReady, ReadersTracked, Tracked
<1>2. CASE UNCHANGED readerVars
  BY <1>2 DEF readerVars, ReadersTracked, Tracked
<1> QED BY <1>1, <1>2

(* The readers of a running path have a stream, if not a usable one.       *)
StreamUnderReaders == phase = "running" /\ readers # {} => stream # "nil"

(* setNotReady, the only way a running path loses its stream, empties the  *)
(* table.                                                                  *)
LEMMA StreamUnderReadersStep ==
  StreamUnderReaders /\ [Next]_vars => StreamUnderReaders'
<1> SUFFICES ASSUME StreamUnderReaders, [Next]_vars, phase' = "running", readers' # {}
             PROVE  stream' # "nil"
  BY DEF StreamUnderReaders
<1> USE DEF StreamUnderReaders, streamVars, readerVars
<1>1. CASE DoOnDemandStaticSourceReadyTimer \/ DoOnDemandPublisherReadyTimer
  BY <1>1 DEF DoOnDemandStaticSourceReadyTimer, DoOnDemandPublisherReadyTimer
<1>2. CASE DoOnDemandStaticSourceCloseTimer \/ DoSourceStaticSetNotReady
  BY <1>2 DEF DoOnDemandStaticSourceCloseTimer, DoSourceStaticSetNotReady, SetNotReady
<1>3. ASSUME NEW ok \in Outcomes, DoSourceStaticSetReady(ok) PROVE stream' # "nil"
  BY <1>3 DEF DoSourceStaticSetReady, SetReady
<1>4. ASSUME NEW p \in Publishers, NEW ok \in Outcomes, DoAddPublisher(p, ok)
      PROVE  stream' # "nil"
  BY <1>4 DEF DoAddPublisher, SetReady
<1>5. ASSUME NEW p \in Publishers, DoRemovePublisher(p) PROVE stream' # "nil"
  BY <1>5 DEF DoRemovePublisher, SetNotReady
<1>6. ASSUME NEW r \in Readers, DoAddReader(r) PROVE stream' # "nil"
  BY <1>6 DEF DoAddReader
<1>7. ASSUME NEW r \in Readers, DoRemoveReader(r) PROVE stream' # "nil"
  BY <1>7 DEF DoRemoveReader
<1>8. CASE DoOnDemandPublisherCloseTimer \/ \E new \in Confs : DoReloadConf(new)
  BY <1>8 DEF DoOnDemandPublisherCloseTimer, DoReloadConf
<1>9. ASSUME NEW d \in Describers, DoDescribe(d) \/ DescribeTerminated(d) PROVE stream' # "nil"
  BY <1>9 DEF DoDescribe, DescribeTerminated
<1>10. ASSUME NEW r \in Readers, RemoveReaderTerminated(r) PROVE stream' # "nil"
  BY <1>10 DEF RemoveReaderTerminated
<1>11. ASSUME NEW p \in Publishers, RemovePublisherTerminated(p) PROVE stream' # "nil"
  BY <1>11 DEF RemovePublisherTerminated
<1>12. CASE Close \/ Terminate \/ Cleanup \/ UNCHANGED vars
  BY <1>12 DEF Close, Terminate, Cleanup, vars
<1> QED
  BY <1>1, <1>2, <1>3, <1>4, <1>5, <1>6, <1>7, <1>8, <1>9, <1>10, <1>11, <1>12 DEF Next

(* A reader that is in the table already does not go on hold, as the path  *)
(* has a stream then: that is why StreamUnderReaders is needed.            *)
LEMMA TrackedStep ==
  TypeOK /\ HeldExactlyOnce /\ StreamUnderReaders /\ ReadersTracked /\ [Next]_vars
    => ReadersTracked'
<1> SUFFICES ASSUME TypeOK, HeldExactlyOnce, StreamUnderReaders, ReadersTracked, [Next]_vars
             PROVE  ReadersTracked'
  OBVIOUS
<1>t. /\ readerState \in [Readers -> {"idle", "waiting", "reading", "kicked", "gone"}]
      /\ readers \in SUBSET Readers
      /\ Tracked(readers, readerState)
  BY DEF TypeOK, ReadersTracked
<1>1. CASE DoOnDemandStaticSourceReadyTimer \/ DoOnDemandPublisherReadyTimer
  BY <1>1, <1>t, RejectTracked
  DEF DoOnDemandStaticSourceReadyTimer, DoOnDemandPublisherReadyTimer
<1>2. CASE DoOnDemandStaticSourceCloseTimer \/ DoSourceStaticSetNotReady
  BY <1>2, NotReadyTracked DEF DoOnDemandStaticSourceCloseTimer, DoSourceStaticSetNotReady
<1>3. ASSUME NEW ok \in Outcomes, DoSourceStaticSetReady(ok) PROVE ReadersTracked'
  <2>1. CASE ok
    BY <1>3, <1>t, <2>1, ConsumeTracked DEF DoSourceStaticSetReady
  <2>2. CASE ~ok
    BY <1>3, <2>2, NotReadyTracked DEF DoSourceStaticSetReady
  <2> QED BY <2>1, <2>2
<1>4. ASSUME NEW r \in Readers, DoAddReader(r) PROVE ReadersTracked'
  <2>1. \/ UNCHANGED readerVars
        \/ /\ readers' = readers \cup {r}
           /\ readerState' = [readerState EXCEPT ![r] = "reading"]
        \/ /\ readers' = readers
           /\ readerState' = [readerState EXCEPT ![r] = "waiting"]
           /\ stream = "nil" /\ phase = "running"
    BY <1>4 DEF DoAddReader, AddReaderPost, readerVars
  <2>2. CASE UNCHANGED readerVars
    BY <2>2, NotReadyTracked
  <2>3. CASE /\ readers' = readers \cup {r}
             /\ readerState' = [readerState EXCEPT ![r] = "reading"]
    BY <1>t, <2>3 DEF ReadersTracked, Tracked
  <2>4. CASE /\ readers' = readers
             /\ readerState' = [readerState EXCEPT ![r] = "waiting"]
             /\ stream = "nil" /\ phase = "running"
    <3>1. readers = {}
      BY <2>4 DEF StreamUnderReaders
    <3> QED
      BY <1>t, <2>4, <3>1 DEF ReadersTracked, Tracked
  <2> QED BY <2>1, <2>2, <2>3, <2>4
<1>5. ASSUME NEW r \in Readers, DoRemoveReader(r) PROVE ReadersTracked'
  BY <1>5, <1>t DEF DoRemoveReader, ReadersTracked, Tracked
<1>6. ASSUME NEW r \in Readers, RemoveReaderTerminated(r) PROVE ReadersTracked'
  BY <1>6, <1>t DEF RemoveReaderTerminated, ReadersTracked, Tracked
<1>7. ASSUME NEW p \in Publishers, NEW ok \in Outcomes, DoAddPublisher(p, ok)
      PROVE  ReadersTracked'
  <2> DEFINE present == IF Overridden THEN {} ELSE readers
             states  == IF Overridden THEN Kicked ELSE readerState
  <2>1. /\ states \in [Readers -> {"idle", "waiting", "reading", "kicked", "gone"}]
        /\ \A r \in Readers : states[r] = "waiting" <=> readerState[r] = "waiting"
        /\ present \in SUBSET Readers
        /\ Tracked(present, states)
    BY <1>t, KickedWaits, KickedType, KickedTracked
  <2>2. CASE ok
    <3>1. ConsumeOnHoldRequests(present, states)
      BY <1>7, <2>2 DEF DoAddPublisher
    <3> HIDE DEF present, states
    <3> QED BY <2>1, <3>1, ConsumeTracked
  <2>3. CASE ~ok
    <3>1. readers' = present /\ readerState' = states
      BY <1>7, <2>3 DEF DoAddPublisher
    <3> HIDE DEF present, states
    <3> QED BY <2>1, <3>1 DEF ReadersTracked, Tracked
  <2> QED BY <2>2, <2>3
<1>8. ASSUME NEW p \in Publishers, DoRemovePublisher(p) PROVE ReadersTracked'
  BY <1>8, NotReadyTracked DEF DoRemovePublisher
<1>9. ASSUME NEW d \in Describers, DoDescribe(d) \/ DescribeTerminated(d) PROVE ReadersTracked'
  BY <1>9, NotReadyTracked DEF DoDescribe, DescribeTerminated
<1>10. CASE Cleanup
  <2> DEFINE present == IF stream # "nil" THEN {} ELSE readers
             states  == IF stream # "nil" THEN Kicked ELSE readerState
  <2>1. /\ states \in [Readers -> {"idle", "waiting", "reading", "kicked", "gone"}]
        /\ \A r \in Readers : states[r] = "waiting" <=> readerState[r] = "waiting"
        /\ present \in SUBSET Readers
        /\ Tracked(present, states)
    BY <1>t, KickedWaits, KickedType, KickedTracked
  <2>2. RejectOnHold(states) /\ readers' = present
    BY <1>10 DEF Cleanup
  <2> HIDE DEF present, states
  <2> QED BY <2>1, <2>2, RejectTracked
<1>11. CASE \/ DoOnDemandPublisherCloseTimer \/ (\E new \in Confs : DoReloadConf(new))
            \/ (\E p \in Publishers : RemovePublisherTerminated(p))
            \/ Close \/ Terminate \/ UNCHANGED vars
  <2>1. UNCHANGED readerVars
    BY <1>11
    DEF DoOnDemandPublisherCloseTimer, DoReloadConf, RemovePublisherTerminated, Close, Terminate,
        vars
  <2> QED BY <2>1, NotReadyTracked
<1> QED
  BY <1>1, <1>2, <1>3, <1>4, <1>5, <1>6, <1>7, <1>8, <1>9, <1>10, <1>11 DEF Next
-----------------------------------------------------------------------------
(* The limit of readers.                                                   *)
FewReaders ==
  /\ IsFiniteSet(readers)
  /\ conf.maxReaders # 0 => Cardinality(readers) <= conf.maxReaders

(* The limit is a number.                                                  *)
LEMMA MaxReadersType == TypeOK => conf.maxReaders \in Nat
BY ConfsValid DEF TypeOK, PathConf

(* Those who are admitted fill the places that are left at most.           *)
LEMMA AdmittedFit ==
  ASSUME TypeOK, NEW present \in SUBSET Readers, IsFiniteSet(present),
         conf.maxReaders # 0 => Cardinality(present) <= conf.maxReaders
  PROVE  /\ IsFiniteSet(present \cup Admitted(present))
         /\ conf.maxReaders # 0 =>
              Cardinality(present \cup Admitted(present)) <= conf.maxReaders
<1> DEFINE places == {j \in DOMAIN heldReaders :
                        conf.maxReaders = 0 \/ j + Cardinality(present) <= conf.maxReaders}
           held   == [i \in places |-> heldReaders[i]]
           room   == conf.maxReaders - Cardinality(present)
<1>1. /\ conf.maxReaders \in Nat
      /\ Cardinality(present) \in Nat
      /\ heldReaders \in Seq(Readers)
  BY MaxReadersType, FS_CardinalityType DEF TypeOK
<1>2. held \in Surjection(places, Admitted(present))
  BY DEF Admitted, Surjection
<1>3. IsFiniteSet(places)
  <2>1. places \subseteq 1..Len(heldReaders) /\ Len(heldReaders) \in Nat
    BY <1>1
  <2>2. IsFiniteSet(1..Len(heldReaders))
    BY <2>1, FS_Interval
  <2> QED
    BY <2>1, <2>2, FS_Subset
<1>4. IsFiniteSet(Admitted(present)) /\ Cardinality(Admitted(present)) <= Cardinality(places)
  BY <1>2, <1>3, FS_Surjection
<1>5. /\ IsFiniteSet(present \cup Admitted(present))
      /\ Cardinality(present \cup Admitted(present))
           <= Cardinality(present) + Cardinality(Admitted(present))
  <2>1. IsFiniteSet(present \cap Admitted(present))
    BY <1>4, FS_Subset
  <2>2. /\ Cardinality(present \cap Admitted(present)) \in Nat
        /\ Cardinality(Admitted(present)) \in Nat
    BY <1>4, <2>1, FS_CardinalityType
  <2>3. /\ IsFiniteSet(present \cup Admitted(present))
        /\ Cardinality(present \cup Admitted(present)) =
             Cardinality(present) + Cardinality(Admitted(present))
               - Cardinality(present \cap Admitted(present))
    BY <1>4, FS_Union
  <2> QED
    BY <1>1, <2>2, <2>3
<1>6. ASSUME conf.maxReaders # 0
      PROVE  Cardinality(present) + Cardinality(Admitted(present)) <= conf.maxReaders
  <2>1. room \in Nat /\ places \subseteq 1..room
    BY <1>1, <1>6
  <2>2. IsFiniteSet(1..room) /\ Cardinality(1..room) = room
    BY <2>1, FS_Interval
  <2>3. Cardinality(places) <= room
    BY <2>1, <2>2, FS_Subset
  <2>4. Cardinality(Admitted(present)) \in Nat /\ Cardinality(places) \in Nat
    BY <1>3, <1>4, FS_CardinalityType
  <2> HIDE DEF places
  <2> QED
    BY <1>1, <1>4, <2>3, <2>4
<1>7. Cardinality(present \cup Admitted(present)) \in Nat
      /\ Cardinality(Admitted(present)) \in Nat
  BY <1>4, <1>5, FS_CardinalityType
<1> HIDE DEF places
<1> QED
  BY <1>1, <1>5, <1>6, <1>7

(* The sizes of the table in one step of the path.                         *)
LEMMA FewerReaders ==
  ASSUME FewReaders, readers' \subseteq readers, conf'.maxReaders = conf.maxReaders,
         conf.maxReaders \in Nat
  PROVE  FewReaders'
<1>1. IsFiniteSet(readers') /\ Cardinality(readers') <= Cardinality(readers)
  BY FS_Subset DEF FewReaders
<1>2. Cardinality(readers') \in Nat /\ Cardinality(readers) \in Nat
  BY <1>1, FS_CardinalityType DEF FewReaders
<1> QED
  BY <1>1, <1>2 DEF FewReaders

(* addReaderPost looks at the size of the table before it adds to it, and  *)
(* a reload does not change the limit of a running path.                   *)
LEMMA FewReadersStep ==
  TypeOK /\ FewReaders /\ [Next]_vars => FewReaders'
<1> SUFFICES ASSUME TypeOK, FewReaders, [Next]_vars PROVE FewReaders'
  OBVIOUS
<1>t. conf.maxReaders \in Nat /\ readers \in SUBSET Readers
  BY MaxReadersType DEF TypeOK
<1>1. ASSUME NEW ok \in Outcomes, DoSourceStaticSetReady(ok) PROVE FewReaders'
  <2>1. CASE ok
    <3>1. readers' = readers \cup Admitted(readers) /\ conf' = conf
      BY <1>1, <2>1 DEF DoSourceStaticSetReady, ConsumeOnHoldRequests
    <3> QED
      BY <1>t, <3>1, AdmittedFit DEF FewReaders
  <2>2. CASE ~ok
    BY <1>1, <1>t, <2>2, FewerReaders DEF DoSourceStaticSetReady, readerVars
  <2> QED BY <2>1, <2>2
<1>2. ASSUME NEW r \in Readers, DoAddReader(r) PROVE FewReaders'
  <2>1. \/ readers' = readers
        \/ /\ readers' = readers \cup {r} /\ r \notin readers
           /\ ~(conf.maxReaders # 0 /\ Cardinality(readers) >= conf.maxReaders)
    BY <1>2 DEF DoAddReader, AddReaderPost, readerVars
  <2>2. conf' = conf
    BY <1>2 DEF DoAddReader
  <2>3. CASE readers' = readers
    BY <1>t, <2>2, <2>3, FewerReaders
  <2>4. CASE /\ readers' = readers \cup {r} /\ r \notin readers
             /\ ~(conf.maxReaders # 0 /\ Cardinality(readers) >= conf.maxReaders)
    <3>1. /\ IsFiniteSet(readers') /\ Cardinality(readers') = Cardinality(readers) + 1
          /\ Cardinality(readers) \in Nat
      BY <2>4, FS_AddElement, FS_CardinalityType DEF FewReaders
    <3> QED
      BY <1>t, <2>2, <2>4, <3>1 DEF FewReaders
  <2> QED BY <2>1, <2>3, <2>4
<1>3. ASSUME NEW p \in Publishers, NEW ok \in Outcomes, DoAddPublisher(p, ok)
      PROVE  FewReaders'
  <2> DEFINE present == IF Overridden THEN {} ELSE readers
             states  == IF Overridden THEN Kicked ELSE readerState
  <2>1. conf' = conf
    BY <1>3 DEF DoAddPublisher
  <2>2. CASE ok
    <3>1. ConsumeOnHoldRequests(present, states)
      BY <1>3, <2>2 DEF DoAddPublisher
    <3>2. present \in SUBSET Readers /\ IsFiniteSet(present)
      BY <1>t, FS_EmptySet DEF FewReaders
    <3>3. conf.maxReaders # 0 => Cardinality(present) <= conf.maxReaders
      BY <1>t, FS_EmptySet DEF FewReaders
    <3> HIDE DEF present, states
    <3>4. readers' = present \cup Admitted(present)
      BY <3>1 DEF ConsumeOnHoldRequests
    <3> QED
      BY <2>1, <3>2, <3>3, <3>4, AdmittedFit DEF FewReaders
  <2>3. CASE ~ok
    <3>1. readers' \subseteq readers
      BY <1>3, <2>3 DEF DoAddPublisher
    <3> QED BY <1>t, <2>1, <3>1, FewerReaders
  <2> QED BY <2>2, <2>3
<1>4. ASSUME NEW new \in Confs, DoReloadConf(new) PROVE FewReaders'
  <2>1. conf'.maxReaders = conf.maxReaders /\ readers' = readers
    BY <1>4, ConfsValid DEF DoReloadConf, CanBeUpdated, PathConf, TypeOK, readerVars
  <2> QED BY <1>t, <2>1, FewerReaders
<1>5. CASE \/ DoOnDemandStaticSourceReadyTimer \/ DoOnDemandStaticSourceCloseTimer
           \/ DoOnDemandPublisherReadyTimer \/ DoOnDemandPublisherCloseTimer
           \/ DoSourceStaticSetNotReady
  <2>1. readers' \subseteq readers /\ conf' = conf
    BY <1>5
    DEF DoOnDemandStaticSourceReadyTimer, DoOnDemandStaticSourceCloseTimer,
        DoOnDemandPublisherReadyTimer, DoOnDemandPublisherCloseTimer,
        DoSourceStaticSetNotReady, SetNotReady, readerVars
  <2> QED BY <1>t, <2>1, FewerReaders
<1>6. ASSUME NEW d \in Describers, DoDescribe(d) \/ DescribeTerminated(d) PROVE FewReaders'
  BY <1>6, <1>t, FewerReaders DEF DoDescribe, DescribeTerminated, readerVars
<1>7. ASSUME NEW r \in Readers, DoRemoveReader(r) \/ RemoveReaderTerminated(r)
      PROVE  FewReaders'
  <2>1. readers' \subseteq readers /\ conf' = conf
    BY <1>7 DEF DoRemoveReader, RemoveReaderTerminated
  <2> QED BY <1>t, <2>1, FewerReaders
<1>8. ASSUME NEW p \in Publishers, DoRemovePublisher(p) \/ RemovePublisherTerminated(p)
      PROVE  FewReaders'
  <2>1. readers' \subseteq readers /\ conf' = conf
    BY <1>8 DEF DoRemovePublisher, RemovePublisherTerminated, SetNotReady, readerVars
  <2> QED BY <1>t, <2>1, FewerReaders
<1>9. CASE Close \/ Terminate \/ Cleanup \/ UNCHANGED vars
  <2>1. readers' \subseteq readers /\ conf' = conf
    BY <1>9 DEF Close, Terminate, Cleanup, readerVars, vars
  <2> QED BY <1>t, <2>1, FewerReaders
<1> QED
  BY <1>1, <1>2, <1>3, <1>4, <1>5, <1>6, <1>7, <1>8, <1>9 DEF Next

(* maxReaders is never exceeded, in whatever order requests that were held *)
(* and new ones, overrides, departures and reloads come.                   *)
THEOREM LimitHolds == Spec => []ReadersWithinLimit
<1>1. Init => FewReaders
  <2> SUFFICES ASSUME Init PROVE FewReaders
    OBVIOUS
  <2>1. conf.maxReaders \in Nat
    BY ConfsValid DEF Init, PathConf
  <2>2. readers = {}
    BY DEF Init
  <2> QED
    BY <2>1, <2>2, FS_EmptySet DEF FewReaders
<1>2. FewReaders => ReadersWithinLimit
  BY DEF FewReaders, ReadersWithinLimit
<1> QED
  BY <1>1, <1>2, FewReadersStep, TypeCorrect, PTL DEF Spec
-----------------------------------------------------------------------------
(***************************************************************************)
(* On-demand sources, the stream and those who read it, proved for any     *)
(* sets of clients and any configurations as long as streams can be        *)
(* initialized.  (When one cannot, ReadyHookRan and NeverPanics fail.)     *)
(***************************************************************************)

(* The stream is there exactly while its source is, and has its hook.      *)
Supplied ==
  /\ stream \in {"nil", "ok"}
  /\ stream = "ok" => onNotReadyHook = "armed"
  /\ (stream = "ok") = (IF HasStaticSource(conf) THEN handler = "ready" ELSE publisher # Nil)
  /\ conf.source # "publisher" => publisher = Nil
  /\ ~HasStaticSource(conf) => handler = "stopped"

(* The demand, its timers, the handler, the stream and the readers agree.  *)
Demanded ==
  /\ readyTimer = (onDemandState = "waiting")
  /\ closeTimer = (onDemandState = "closing")
  /\ onDemandState = "closing" => readers = {}
  /\ onDemandState # "initial" => OnDemand(conf)
  /\ onDemandState = "waiting" => stream = "nil"
  /\ onUnDemandHook = (HasOnDemandPublisher(conf) /\ onDemandState # "initial")
  /\ HasStaticSource(conf) =>
       /\ (handler = "stopped") = (OnDemand(conf) /\ onDemandState = "initial")
       /\ onDemandState \in {"ready", "closing"} => stream = "ok"
       /\ onDemandState = "ready" => readers # {}

(* Who reads has a stream, who waits has none.                             *)
Served ==
  /\ readers # {} => stream = "ok"
  /\ heldReaders # <<>> => stream = "nil"

InOrder == Supplied /\ Demanded /\ Served

PathInOrder ==
  /\ phase # "panicked"
  /\ phase \in {"running", "closing"} => InOrder

USE DEF HasOnDemandStaticSource, OnDemand

(* Steps that change nothing the invariant is about but requests on hold.  *)
LEMMA InOrderKept ==
  ASSUME InOrder, UNCHANGED <<conf, handler, publisher, stream, onNotReadyHook, demandVars, readers>>,
         heldReaders' \in {heldReaders, <<>>}
  PROVE  InOrder'
BY DEF InOrder, Supplied, Demanded, Served, demandVars

(* A start or close timer expires.                                         *)
LEMMA TimersGo ==
  ASSUME TypeOK, PathInOrder, phase = "running",
         \/ DoOnDemandStaticSourceReadyTimer \/ DoOnDemandStaticSourceCloseTimer
         \/ DoOnDemandPublisherReadyTimer \/ DoOnDemandPublisherCloseTimer
  PROVE  PathInOrder'
<1> USE DEF streamVars, publishVars, readerVars, holdVars
<1>t. InOrder /\ onDemandState \in {"initial", "waiting", "ready", "closing"}
  BY DEF PathInOrder, TypeOK
<1>1. CASE DoOnDemandStaticSourceReadyTimer
  <2>1. phase' \in {"running", "closing"}
    BY <1>1, <1>t DEF DoOnDemandStaticSourceReadyTimer, StayOrClose, StopPanics, InOrder, Demanded
  <2>2. InOrder'
    BY <1>1, <1>t
    DEF DoOnDemandStaticSourceReadyTimer, RejectOnHold, OnDemandStaticSourceStop, HasOnDemandPublisher,
        HasStaticSource, InOrder, Demanded, Supplied, Served
  <2> QED BY <2>1, <2>2 DEF PathInOrder
<1>2. CASE DoOnDemandStaticSourceCloseTimer
  <2>1. phase' \in {"running", "closing"}
    BY <1>2, <1>t
    DEF DoOnDemandStaticSourceCloseTimer, StayOrClose, StopPanics, NotReadyPanics,
        InOrder, Demanded, Supplied
  <2>2. InOrder'
    BY <1>2, <1>t
    DEF DoOnDemandStaticSourceCloseTimer, SetNotReady, StreamDown, OnDemandStaticSourceStop,
        HasOnDemandPublisher, HasStaticSource, InOrder, Demanded, Supplied, Served
  <2> QED BY <2>1, <2>2 DEF PathInOrder
<1>3. CASE DoOnDemandPublisherReadyTimer
  <2>1. phase' \in {"running", "closing"}
    BY <1>3, <1>t DEF DoOnDemandPublisherReadyTimer, StayOrClose, InOrder, Demanded
  <2>2. InOrder'
    BY <1>3, <1>t
    DEF DoOnDemandPublisherReadyTimer, RejectOnHold, OnDemandPublisherStop, HasOnDemandPublisher,
        HasStaticSource, InOrder, Demanded, Supplied, Served
  <2> QED BY <2>1, <2>2 DEF PathInOrder
<1>4. CASE DoOnDemandPublisherCloseTimer
  <2>1. phase' = "running"
    BY <1>4, <1>t DEF DoOnDemandPublisherCloseTimer, Stay, InOrder, Demanded
  <2>2. InOrder'
    BY <1>4, <1>t
    DEF DoOnDemandPublisherCloseTimer, OnDemandPublisherStop, HasOnDemandPublisher,
        HasStaticSource, InOrder, Demanded, Supplied, Served
  <2> QED BY <2>1, <2>2 DEF PathInOrder
<1> QED BY <1>1, <1>2, <1>3, <1>4

(* The source gets ready, or is not ready any more; a reload.              *)
LEMMA SourceChanges ==
  ASSUME ~SetReadyMayFail, TypeOK, PathInOrder, phase = "running",
         \/ \E ok \in Outcomes : DoSourceStaticSetReady(ok)
         \/ DoSourceStaticSetNotReady
         \/ \E new \in Confs : DoReloadConf(new)
  PROVE  PathInOrder'
<1> USE DEF streamVars, publishVars, readerVars, holdVars, demandVars
<1>t. InOrder /\ onDemandState \in {"initial", "waiting", "ready", "closing"}
  BY DEF PathInOrder, TypeOK
<1>1. CASE \E ok \in Outcomes : DoSourceStaticSetReady(ok)
  <2>1. DoSourceStaticSetReady(TRUE)
    BY <1>1 DEF Outcomes
  <2>2. phase' = "running"
    BY <2>1 DEF DoSourceStaticSetReady, Stay
  <2>3. HasStaticSource(conf) /\ readers = {}
    BY <1>t, <2>1 DEF DoSourceStaticSetReady, InOrder, Supplied, Served
  <2>4. readers' = Admitted(readers) /\ heldReaders' = <<>>
    BY <2>1, <2>3 DEF DoSourceStaticSetReady, ConsumeOnHoldRequests
  <2>5. stream' = "ok" /\ onNotReadyHook' = "armed" /\ handler' = "ready" /\ publisher' = publisher
        /\ conf' = conf
    BY <2>1 DEF DoSourceStaticSetReady, SetReady
  <2>6. IF conf.onDemand THEN OnDemandReady(readers) ELSE UNCHANGED demandVars
    BY <2>1, <2>3 DEF DoSourceStaticSetReady
  <2>7. InOrder'
    BY <1>t, <2>3, <2>4, <2>5, <2>6
    DEF OnDemandReady, HasOnDemandPublisher, HasStaticSource, InOrder, Demanded, Supplied, Served
  <2> QED BY <2>2, <2>7 DEF PathInOrder
<1>2. CASE DoSourceStaticSetNotReady
  <2>1. HasStaticSource(conf)
    BY <1>2, <1>t DEF DoSourceStaticSetNotReady, InOrder, Supplied
  <2>2. phase' \in {"running", "closing"}
    BY <1>2, <1>t, <2>1
    DEF DoSourceStaticSetNotReady, StayOrClose, NotReadyPanics, InOrder, Supplied
  <2>3. InOrder'
    BY <1>2, <1>t, <2>1
    DEF DoSourceStaticSetNotReady, SetNotReady, StreamDown, OnDemandStaticSourceStop,
        HasOnDemandPublisher, HasStaticSource, InOrder, Demanded, Supplied, Served
  <2> QED BY <2>2, <2>3 DEF PathInOrder
<1>3. ASSUME NEW new \in Confs, DoReloadConf(new) PROVE PathInOrder'
  <2>1. conf'.source = conf.source /\ conf'.onDemand = conf.onDemand
    <3>1. conf' = new /\ new = [conf EXCEPT !.regexp = new.regexp, !.record = new.record,
                                            !.recording = new.recording]
      BY <1>3 DEF DoReloadConf, CanBeUpdated
    <3>2. conf \in PathConf
      BY <1>t, ConfsValid DEF TypeOK
    <3>3. {"source", "onDemand"} \subseteq DOMAIN conf
      BY <3>2 DEF PathConf
    <3>4. QED
      BY <3>1, <3>3
  <2>2. InOrder'
    BY <1>3, <1>t, <2>1
    DEF DoReloadConf, HasOnDemandPublisher, HasStaticSource, InOrder, Demanded, Supplied, Served
  <2>3. phase' = "running"
    BY <1>3 DEF DoReloadConf, Stay
  <2> QED BY <2>2, <2>3 DEF PathInOrder
<1> QED BY <1>1, <1>2, <1>3

(* A request is put on hold.                                               *)
LEMMA DemandStarts ==
  ASSUME TypeOK, PathInOrder, phase = "running",
         stream = "nil", OnDemand(conf), StartOnDemand,
         UNCHANGED <<conf, publisher, stream, onNotReadyHook, readers>>
  PROVE  InOrder' /\ ~StartOnDemandPanics
<1> USE DEF demandVars
<1>t. InOrder /\ onDemandState \in {"initial", "waiting", "ready", "closing"}
  BY DEF PathInOrder, TypeOK
<1>1. CASE onDemandState # "initial"
  BY <1>1, <1>t
  DEF StartOnDemand, StartOnDemandPanics, HasOnDemandPublisher, HasStaticSource,
      InOrder, Demanded, Supplied, Served
<1>2. CASE onDemandState = "initial" /\ HasStaticSource(conf)
  BY <1>2, <1>t
  DEF StartOnDemand, OnDemandStaticSourceStart, StartOnDemandPanics, StartPanics,
      HasOnDemandPublisher, HasStaticSource, InOrder, Demanded, Supplied, Served
<1>3. CASE onDemandState = "initial" /\ ~HasStaticSource(conf)
  BY <1>3, <1>t
  DEF StartOnDemand, OnDemandPublisherStart, StartOnDemandPanics,
      HasOnDemandPublisher, HasStaticSource, InOrder, Demanded, Supplied, Served
<1> QED BY <1>1, <1>2, <1>3

(* describe, addReader and removeReader.                                   *)
LEMMA ClientsAsk ==
  ASSUME TypeOK, PathInOrder, phase = "running",
         \/ \E d \in Describers : DoDescribe(d)
         \/ \E r \in Readers : DoAddReader(r) \/ DoRemoveReader(r)
  PROVE  PathInOrder'
<1> USE DEF streamVars, publishVars, readerVars, holdVars, demandVars
<1>t. InOrder /\ onDemandState \in {"initial", "waiting", "ready", "closing"}
  BY DEF PathInOrder, TypeOK
<1>1. ASSUME NEW d \in Describers, DoDescribe(d) PROVE PathInOrder'
  <2>1. CASE DescribeAnswer = "waiting"
    <3>1. stream = "nil" /\ OnDemand(conf) /\ StartOnDemand
      BY <1>1, <2>1 DEF DoDescribe, DescribeAnswer
    <3>2. UNCHANGED <<conf, publisher, stream, onNotReadyHook, readers>>
      BY <1>1 DEF DoDescribe
    <3>3. InOrder' /\ ~StartOnDemandPanics
      BY <3>1, <3>2, DemandStarts
    <3> QED
      BY <1>1, <3>3 DEF DoDescribe, StayOrClose, PathInOrder
  <2>2. CASE DescribeAnswer # "waiting"
    <3>1. InOrder'
      BY <1>1, <1>t, <2>2, InOrderKept DEF DoDescribe
    <3> QED
      BY <1>1, <2>2, <3>1 DEF DoDescribe, StayOrClose, PathInOrder
  <2> QED BY <2>1, <2>2
<1>2. ASSUME NEW r \in Readers, DoAddReader(r) PROVE PathInOrder'
  <2>1. CASE stream # "nil"
    <3>1. AddReaderPost(r) /\ UNCHANGED <<conf, handler, heldReaders, publisher, stream, onNotReadyHook>>
      BY <1>2, <2>1 DEF DoAddReader
    <3>2. stream = "ok"
      BY <1>t, <2>1 DEF InOrder, Supplied
    <3>3. CASE UNCHANGED <<readers, demandVars>>
      <4>1. InOrder'
        BY <1>t, <3>1, <3>3, InOrderKept
      <4> QED
        BY <1>2, <2>1, <4>1 DEF DoAddReader, StayOrClose, PathInOrder
    <3>4. CASE /\ readers' = readers \cup {r}
               /\ IF OnDemand(conf) /\ onDemandState = "closing"
                  THEN /\ onDemandState' = "ready"
                       /\ closeTimer' = FALSE
                       /\ UNCHANGED <<onUnDemandHook, readyTimer>>
                  ELSE UNCHANGED demandVars
      <4>1. InOrder'
        BY <1>t, <3>1, <3>2, <3>4
        DEF HasOnDemandPublisher, HasStaticSource, InOrder, Demanded, Supplied, Served
      <4> QED
        BY <1>2, <2>1, <4>1 DEF DoAddReader, StayOrClose, PathInOrder
    <3> QED
      BY <3>1, <3>3, <3>4 DEF AddReaderPost
  <2>2. CASE stream = "nil" /\ OnDemand(conf)
    <3>1. StartOnDemand /\ UNCHANGED <<conf, publisher, stream, onNotReadyHook, readers>>
      BY <1>2, <2>2 DEF DoAddReader
    <3>2. InOrder' /\ ~StartOnDemandPanics
      BY <2>2, <3>1, DemandStarts
    <3> QED
      BY <1>2, <2>2, <3>2 DEF DoAddReader, StayOrClose, PathInOrder
  <2>3. CASE stream = "nil" /\ ~OnDemand(conf)
    <3>1. InOrder'
      BY <1>2, <1>t, <2>3, InOrderKept DEF DoAddReader
    <3> QED
      BY <1>2, <2>3, <3>1 DEF DoAddReader, StayOrClose, PathInOrder
  <2> QED BY <2>1, <2>2, <2>3
<1>3. ASSUME NEW r \in Readers, DoRemoveReader(r) PROVE PathInOrder'
  <2>1. UNCHANGED <<conf, handler, publisher, stream, onNotReadyHook, heldReaders>>
        /\ readers' \subseteq readers /\ phase' = "running"
    BY <1>3 DEF DoRemoveReader, Stay
  <2>2. CASE readers' = {} /\ OnDemand(conf) /\ onDemandState = "ready"
    <3>1. InOrder'
      BY <1>3, <1>t, <2>1, <2>2
      DEF DoRemoveReader, ScheduleClose, HasOnDemandPublisher, HasStaticSource,
          InOrder, Demanded, Supplied, Served
    <3> QED BY <2>1, <3>1 DEF PathInOrder
  <2>3. CASE ~(readers' = {} /\ OnDemand(conf) /\ onDemandState = "ready")
    <3>1. UNCHANGED demandVars
      BY <1>3, <2>3 DEF DoRemoveReader
    <3>2. InOrder'
      BY <1>t, <2>1, <2>3, <3>1
      DEF HasOnDemandPublisher, HasStaticSource, InOrder, Demanded, Supplied, Served
    <3> QED BY <2>1, <3>2 DEF PathInOrder
  <2> QED BY <2>2, <2>3
<1> QED BY <1>1, <1>2, <1>3

(* A publisher comes or goes.                                              *)
LEMMA PublisherArrives ==
  ASSUME ~SetReadyMayFail, TypeOK, PathInOrder, phase = "running",
         NEW p \in Publishers, DoAddPublisher(p, TRUE)
  PROVE  PathInOrder'
<1> DEFINE present == IF Overridden THEN {} ELSE readers
           states  == IF Overridden THEN Kicked ELSE readerState
<1>t. InOrder /\ onDemandState \in {"initial", "waiting", "ready", "closing"}
  BY DEF PathInOrder, TypeOK
<1>1. conf.source = "publisher" /\ ~HasStaticSource(conf)
  BY DEF DoAddPublisher, AddPublisherAccepted, HasStaticSource
<1>2. present = {}
  BY <1>t, <1>1 DEF Overridden, InOrder, Supplied, Served
<1>3. phase' = "running"
  BY <1>t DEF DoAddPublisher, Stay, Overridden, NotReadyPanics, InOrder, Supplied
<1>4. /\ stream' = "ok" /\ onNotReadyHook' = "armed" /\ publisher' = p
      /\ UNCHANGED <<conf, handler>>
  BY DEF DoAddPublisher, SetReady
<1>5. ConsumeOnHoldRequests(present, states)
  BY DEF DoAddPublisher
<1>6. IF HasOnDemandPublisher(conf) /\ onDemandState # "initial"
      THEN OnDemandReady(present) ELSE UNCHANGED demandVars
  BY DEF DoAddPublisher
<1> HIDE DEF present, states
<1>7. readers' = Admitted({}) /\ heldReaders' = <<>>
  BY <1>2, <1>5 DEF ConsumeOnHoldRequests
<1>8. p # Nil
  BY NilIsNoValue
<1>9. InOrder'
  <2>1. CASE HasOnDemandPublisher(conf) /\ onDemandState # "initial"
    <3>1. OnDemandReady({})
      BY <1>2, <1>6, <2>1
    <3> QED
      BY <1>t, <1>1, <1>4, <1>7, <1>8, <2>1, <3>1
      DEF OnDemandReady, HasStaticSource, HasOnDemandPublisher, InOrder, Demanded, Supplied, Served
  <2>2. CASE ~(HasOnDemandPublisher(conf) /\ onDemandState # "initial")
    <3>1. UNCHANGED demandVars /\ onDemandState = "initial"
      BY <1>t, <1>1, <1>6, <2>2 DEF InOrder, Demanded
    <3> QED
      BY <1>t, <1>1, <1>4, <1>7, <1>8, <2>2, <3>1
      DEF demandVars, HasStaticSource, HasOnDemandPublisher, InOrder, Demanded, Supplied, Served
  <2> QED BY <2>1, <2>2
<1> QED
  BY <1>3, <1>9 DEF PathInOrder

(* removePublisher.                                                        *)
LEMMA PublisherLeaves ==
  ASSUME TypeOK, PathInOrder, phase = "running",
         NEW p \in Publishers, DoRemovePublisher(p)
  PROVE  PathInOrder'
<1> USE DEF streamVars, readerVars, holdVars, demandVars
<1>t. InOrder /\ onDemandState \in {"initial", "waiting", "ready", "closing"}
  BY DEF PathInOrder, TypeOK
<1>1. CASE publisher = p
  <2>1. p # Nil
    BY NilIsNoValue
  <2>2. conf.source = "publisher" /\ ~HasStaticSource(conf) /\ stream = "ok"
    BY <1>t, <1>1, <2>1 DEF HasStaticSource, InOrder, Supplied
  <2>3. phase' \in {"running", "closing"}
    BY <1>t, <2>2 DEF DoRemovePublisher, StayOrClose, NotReadyPanics, InOrder, Supplied
  <2>4. InOrder'
    BY <1>t, <1>1, <2>2
    DEF DoRemovePublisher, SetNotReady, StreamDown, HasStaticSource, HasOnDemandPublisher,
        InOrder, Demanded, Supplied, Served
  <2> QED BY <2>3, <2>4 DEF PathInOrder
<1>2. CASE publisher # p
  <2>1. InOrder'
    BY <1>t, <1>2, InOrderKept DEF DoRemovePublisher
  <2>2. phase' \in {"running", "closing"}
    BY <1>2 DEF DoRemovePublisher, StayOrClose
  <2> QED BY <2>1, <2>2 DEF PathInOrder
<1> QED BY <1>1, <1>2

(* The end of the path, and calls that find it ended.                      *)
LEMMA PathEnds ==
  ASSUME TypeOK, PathInOrder,
         \/ Close \/ Terminate \/ Cleanup \/ UNCHANGED vars
         \/ \E d \in Describers : DescribeTerminated(d)
         \/ \E r \in Readers : RemoveReaderTerminated(r)
         \/ \E p \in Publishers : RemovePublisherTerminated(p)
  PROVE  PathInOrder'
<1> USE DEF streamVars, publishVars, readerVars, holdVars
<1>1. CASE Cleanup
  <2>1. InOrder
    BY <1>1 DEF Cleanup, PathInOrder
  <2>2. phase' = "closed"
    BY <1>1, <2>1
    DEF Cleanup, NotReadyPanics, HandlerMustClose, StopPanics, InOrder, Supplied, Demanded
  <2> QED BY <2>2 DEF PathInOrder
<1>2. CASE \/ Close \/ Terminate \/ UNCHANGED vars
           \/ \E d \in Describers : DescribeTerminated(d)
           \/ \E r \in Readers : RemoveReaderTerminated(r)
           \/ \E p \in Publishers : RemovePublisherTerminated(p)
  <2>1. UNCHANGED <<conf, handler, publisher, stream, onNotReadyHook, demandVars, readers, heldReaders>>
    BY <1>2
    DEF Close, Terminate, DescribeTerminated, RemoveReaderTerminated, RemovePublisherTerminated, vars
  <2>2. phase' = phase \/ (phase = "running" /\ phase' = "closing")
    BY <1>2
    DEF Close, Terminate, DescribeTerminated, RemoveReaderTerminated, RemovePublisherTerminated, vars
  <2> QED
    BY <2>1, <2>2, InOrderKept DEF PathInOrder
<1> QED BY <1>1, <1>2

(* Every step of a path keeps it in order.                                 *)
LEMMA InOrderStep ==
  ASSUME ~SetReadyMayFail
  PROVE  TypeOK /\ PathInOrder /\ [Next]_vars => PathInOrder'
<1> SUFFICES ASSUME TypeOK, PathInOrder, [Next]_vars PROVE PathInOrder'
  OBVIOUS
<1>1. CASE \/ DoOnDemandStaticSourceReadyTimer \/ DoOnDemandStaticSourceCloseTimer
           \/ DoOnDemandPublisherReadyTimer \/ DoOnDemandPublisherCloseTimer
  <2>1. phase = "running"
    BY <1>1
    DEF DoOnDemandStaticSourceReadyTimer, DoOnDemandStaticSourceCloseTimer,
        DoOnDemandPublisherReadyTimer, DoOnDemandPublisherCloseTimer
  <2> QED BY <1>1, <2>1, TimersGo
<1>2. CASE \/ \E ok \in Outcomes : DoSourceStaticSetReady(ok)
           \/ DoSourceStaticSetNotReady
           \/ \E new \in Confs : DoReloadConf(new)
  <2>1. phase = "running"
    BY <1>2 DEF DoSourceStaticSetReady, DoSourceStaticSetNotReady, DoReloadConf
  <2> QED BY <1>2, <2>1, SourceChanges
<1>3. CASE \/ \E d \in Describers : DoDescribe(d)
           \/ \E r \in Readers : DoAddReader(r) \/ DoRemoveReader(r)
  <2>1. phase = "running"
    BY <1>3 DEF DoDescribe, DoAddReader, DoRemoveReader
  <2> QED BY <1>3, <2>1, ClientsAsk
<1>4. ASSUME NEW p \in Publishers, NEW ok \in Outcomes, DoAddPublisher(p, ok)
      PROVE  PathInOrder'
  <2>1. phase = "running" /\ DoAddPublisher(p, TRUE)
    BY <1>4 DEF Outcomes, DoAddPublisher
  <2> QED BY <2>1, PublisherArrives
<1>5. ASSUME NEW p \in Publishers, DoRemovePublisher(p) PROVE PathInOrder'
  BY <1>5, PublisherLeaves DEF DoRemovePublisher
<1>6. CASE \/ Close \/ Terminate \/ Cleanup \/ UNCHANGED vars
           \/ \E d \in Describers : DescribeTerminated(d)
           \/ \E r \in Readers : RemoveReaderTerminated(r)
           \/ \E p \in Publishers : RemovePublisherTerminated(p)
  BY <1>6, PathEnds
<1> QED
  BY <1>1, <1>2, <1>3, <1>4, <1>5, <1>6 DEF Next

(* A new path is in order: an always-on source has been started.           *)
LEMMA InOrderInit == Init => PathInOrder
<1> SUFFICES ASSUME Init PROVE PathInOrder
  OBVIOUS
<1>1. conf.source \in {"publisher", "static", "redirect"} /\ conf.onDemand \in BOOLEAN
  BY ConfsValid DEF Init, PathConf
<1> QED
  BY <1>1
  DEF Init, HasStaticSource, HasOnDemandPublisher, PathInOrder, InOrder, Supplied, Demanded, Served

(* Without failing streams the path never calls a nil hook, nor starts a   *)
(* running source, nor stops one that does not run.                        *)
THEOREM NoPanic ==
  ASSUME ~SetReadyMayFail PROVE Spec => []NeverPanics
<1>1. PathInOrder => NeverPanics
  BY DEF PathInOrder, NeverPanics
<1> QED
  BY <1>1, InOrderInit, InOrderStep, TypeCorrect, PTL DEF Spec

(* A static source runs exactly while the path wants it.                   *)
THEOREM SourceOnDemand ==
  ASSUME ~SetReadyMayFail PROVE Spec => []StaticSourceFollowsDemand
<1>1. PathInOrder => StaticSourceFollowsDemand
  BY DEF PathInOrder, InOrder, Supplied, Demanded, StaticSourceFollowsDemand
<1> QED
  BY <1>1, InOrderInit, InOrderStep, TypeCorrect, PTL DEF Spec

(* No on-demand source is up with nobody to stop it.                       *)
THEOREM DemandHasItsTimer ==
  ASSUME ~SetReadyMayFail PROVE Spec => []DemandIsBounded
<1>1. PathInOrder => DemandIsBounded
  BY DEF PathInOrder, InOrder, Demanded, DemandIsBounded, HasStaticSource, HasOnDemandPublisher
<1> QED
  BY <1>1, InOrderInit, InOrderStep, TypeCorrect, PTL DEF Spec
(* The step that takes the last user of a path.                            *)
LastOneLeaves == ~ShouldClose /\ ShouldClose' /\ conf' = conf

LEMMA LastUserCloses ==
  ASSUME ~SetReadyMayFail, TypeOK, PathInOrder, Next, LastOneLeaves
  PROVE  phase' # "running"
<1>1. /\ conf.regexp /\ conf.source = "publisher" /\ conf' = conf
      /\ publisher' = Nil /\ readers' = {} /\ heldDescribes' = {} /\ heldReaders' = <<>>
      /\ ShouldClose'
  BY DEF LastOneLeaves, ShouldClose
<1>2. ~(UNCHANGED <<publisher, readers, heldDescribes, heldReaders>>)
  BY <1>1 DEF LastOneLeaves, ShouldClose
<1>3. ~HasStaticSource(conf)
  BY <1>1 DEF HasStaticSource
<1>4. CASE \/ DoOnDemandStaticSourceReadyTimer \/ DoOnDemandStaticSourceCloseTimer
           \/ DoOnDemandPublisherReadyTimer \/ DoSourceStaticSetNotReady
           \/ \E d \in Describers : DoDescribe(d)
           \/ \E r \in Readers : DoAddReader(r)
           \/ \E p \in Publishers : DoRemovePublisher(p)
  <2>1. \E panics \in BOOLEAN : StayOrClose(panics)
    BY <1>4
    DEF DoOnDemandStaticSourceReadyTimer, DoOnDemandStaticSourceCloseTimer, DoOnDemandPublisherReadyTimer,
        DoSourceStaticSetNotReady, DoDescribe, DoAddReader, DoRemovePublisher, StopPanics, NotReadyPanics,
        StartOnDemandPanics, StartPanics
  <2>2. QED
    BY <1>1, <2>1 DEF StayOrClose
<1>5. ASSUME NEW ok \in Outcomes, DoSourceStaticSetReady(ok)
      PROVE  FALSE
  BY <1>3, <1>5 DEF DoSourceStaticSetReady, PathInOrder, InOrder, Supplied
<1>6. ASSUME NEW r \in Readers, DoRemoveReader(r)
      PROVE  FALSE
  <2>1. publisher = Nil /\ heldDescribes = {} /\ heldReaders = <<>> /\ phase = "running"
    BY <1>1, <1>6 DEF DoRemoveReader, holdVars, publishVars
  <2>2. readers # {}
    BY <1>1, <1>2, <1>6 DEF DoRemoveReader, holdVars, publishVars
  <2>3. QED
    BY <1>3, <2>1, <2>2 DEF PathInOrder, InOrder, Supplied, Served
<1>7. ASSUME NEW p \in Publishers, NEW ok \in Outcomes, DoAddPublisher(p, ok)
      PROVE  FALSE
  <2>1. publisher' = p /\ p # Nil
    BY <1>7, NilIsNoValue DEF Outcomes, DoAddPublisher
  <2>2. QED
    BY <1>1, <2>1
<1>8. ASSUME NEW new \in Confs, DoReloadConf(new)
      PROVE  FALSE
  BY <1>1, <1>8 DEF DoReloadConf
<1>9. CASE Cleanup \/ Terminate
  BY <1>9 DEF Cleanup, Terminate
<1>10. CASE \/ DoOnDemandPublisherCloseTimer \/ Close
            \/ \E d \in Describers : DescribeTerminated(d)
            \/ \E r \in Readers : RemoveReaderTerminated(r)
            \/ \E p \in Publishers : RemovePublisherTerminated(p)
  BY <1>2, <1>10
  DEF DoOnDemandPublisherCloseTimer, Close, DescribeTerminated, RemoveReaderTerminated,
      RemovePublisherTerminated, holdVars, readerVars, publishVars
<1>11. QED
  BY <1>4, <1>5, <1>6, <1>7, <1>8, <1>9, <1>10 DEF Next

(* The last user of a path of a regular expression takes the path along,   *)
(* whoever it is and whatever made it leave.                               *)
THEOREM UnusedPathsEnd ==
  ASSUME ~SetReadyMayFail PROVE Spec => NoUnusedPathLeft
<1>1. TypeOK /\ PathInOrder /\ [Next]_vars => [LastOneLeaves => phase' # "running"]_vars
  BY LastUserCloses
<1>2. QED
  BY <1>1, InOrderInit, InOrderStep, TypeCorrect, PTL DEF Spec, NoUnusedPathLeft, LastOneLeaves
-----------------------------------------------------------------------------
(***************************************************************************)
(* A path implements PathService, for any sets of clients and any          *)
(* configurations, as long as streams can be initialized.                  *)
(***************************************************************************)

(* All that is known of a path in every reachable state.                   *)
Known == TypeOK /\ HeldExactlyOnce /\ StreamUnderReaders /\ ReadersTracked /\ PathInOrder

(* One invariant from the parts proved so far.                             *)
LEMMA AlwaysKnown ==
  ASSUME ~SetReadyMayFail PROVE Spec => []Known
<1>1. Init => HeldExactlyOnce /\ StreamUnderReaders /\ ReadersTracked
  BY DEF Init, HeldExactlyOnce, OnHold, StreamUnderReaders, ReadersTracked, Tracked
<1> QED
  BY <1>1, InOrderInit, InOrderStep, HeldStep, TrackedStep, StreamUnderReadersStep, TypeCorrect,
     PTL DEF Spec, Known

(* Whoever reads is one the path will disconnect, and has a usable stream. *)
THEOREM ReadersAreServed ==
  ASSUME ~SetReadyMayFail PROVE Spec => []ReadersHaveStream
<1>1. Known => ReadersHaveStream
  BY DEF Known, ReadersHaveStream, ReadersTracked, Tracked, PathInOrder, InOrder, Served
<1> QED
  BY <1>1, AlwaysKnown, PTL

-----------------------------------------------------------------------------
(* A step that does not show.                                              *)
LEMMA Unseen ==
  ASSUME UNCHANGED <<stream, readerState>>
  PROVE  [Service!Next]_(Service!serviceVars)
BY DEF Service!serviceVars

(* Who waits for the service is on hold at the path.                       *)
LEMMA WaitingIsOnHold ==
  ASSUME Known
  PROVE  Service!Waiting = OnHold
BY DEF Known, HeldExactlyOnce, Service!Waiting

(* An interruption of the service tells those to close whom the path       *)
(* tells.                                                                  *)
LEMMA DisconnectedIsKicked ==
  ASSUME Known
  PROVE  /\ Service!Disconnected = Kicked
         /\ readers = {} => Kicked = readerState
BY DEF Known, ReadersTracked, Tracked, Kicked, TypeOK, Service!Disconnected

(* setNotReady interrupts the service.                                     *)
LEMMA NotReadyInterrupts ==
  ASSUME Known, phase = "running", SetNotReady
  PROVE  [Service!Next]_(Service!serviceVars)
<1>1. stream' = "nil" /\ readerState' = Kicked
  BY DEF SetNotReady, StreamDown
<1>2. CASE stream = "ok"
  <2>1. Service!Interrupt
    BY <1>1, <1>2, DisconnectedIsKicked DEF Service!Interrupt
  <2> QED BY <2>1 DEF Service!Next
<1>3. CASE stream = "nil"
  <2>1. readerState' = readerState
    BY <1>1, <1>3, DisconnectedIsKicked DEF Known, PathInOrder, InOrder, Served
  <2> QED BY <1>1, <1>3, <2>1, Unseen
<1> QED
  BY <1>2, <1>3 DEF Known, PathInOrder, InOrder, Supplied

(* A start timeout, or the end of a path with no stream, refuses those who *)
(* wait.                                                                   *)
LEMMA RejectRefuses ==
  ASSUME Known, phase \in {"running", "closing"}, RejectOnHold(readerState), UNCHANGED stream
  PROVE  [Service!Next]_(Service!serviceVars)
<1>1. CASE OnHold = {}
  <2>1. readerState' = readerState
    BY <1>1 DEF RejectOnHold, Known, TypeOK
  <2> QED BY <2>1, Unseen
<1>2. CASE OnHold # {}
  <2>1. heldReaders # <<>>
    BY <1>2 DEF OnHold
  <2>2. stream = "nil"
    BY <2>1 DEF Known, PathInOrder, InOrder, Served
  <2>3. Service!Refuse
    BY <1>2, <2>2, WaitingIsOnHold DEF Service!Refuse, RejectOnHold
  <2> QED BY <2>3 DEF Service!Next
<1> QED BY <1>1, <1>2

(* Those on hold are admitted or not when the stream comes up.             *)
LEMMA ConsumeServes ==
  ASSUME Known, NEW present \in SUBSET Readers, ConsumeOnHoldRequests(present, Kicked),
         stream' = "ok"
  PROVE  Service!Next
<1>1. Admitted(present) \in SUBSET OnHold
  BY AdmittedHeld DEF Known, TypeOK
<1>2. Service!Waiting = OnHold /\ Service!Disconnected = Kicked
  BY WaitingIsOnHold, DisconnectedIsKicked
<1>3. readerState' = [r \in Readers |-> IF r \in Admitted(present) THEN "reading"
                                       ELSE IF r \in OnHold THEN "idle" ELSE Kicked[r]]
  BY DEF ConsumeOnHoldRequests
<1>4. Service!Serve
  BY <1>1, <1>2, <1>3 DEF Service!Serve
<1> QED BY <1>4 DEF Service!Next

(* Each step of the path is one of the service or does not show.           *)
LEMMA ServiceStep ==
  ASSUME ~SetReadyMayFail
  PROVE  Known /\ [Next]_vars => [Service!Next]_(Service!serviceVars)
<1> SUFFICES ASSUME Known, [Next]_vars PROVE [Service!Next]_(Service!serviceVars)
  OBVIOUS
<1> USE DEF streamVars, readerVars
<1>t. /\ readerState \in [Readers -> {"idle", "waiting", "reading", "kicked", "gone"}]
      /\ readers \in SUBSET Readers
  BY DEF Known, TypeOK
<1>1. CASE DoOnDemandStaticSourceReadyTimer \/ DoOnDemandPublisherReadyTimer
  BY <1>1, RejectRefuses DEF DoOnDemandStaticSourceReadyTimer, DoOnDemandPublisherReadyTimer
<1>2. CASE DoOnDemandStaticSourceCloseTimer \/ DoSourceStaticSetNotReady
  BY <1>2, NotReadyInterrupts DEF DoOnDemandStaticSourceCloseTimer, DoSourceStaticSetNotReady
<1>3. ASSUME NEW ok \in Outcomes, DoSourceStaticSetReady(ok)
      PROVE  Service!Next
  <2>1. DoSourceStaticSetReady(TRUE)
    BY <1>3 DEF Outcomes
  <2>2. readers = {}
    BY <2>1
    DEF DoSourceStaticSetReady, Known, PathInOrder, InOrder, Supplied, Served
  <2>3. ConsumeOnHoldRequests(readers, Kicked) /\ stream' = "ok"
    BY <2>1, <2>2, DisconnectedIsKicked DEF DoSourceStaticSetReady, SetReady
  <2> QED BY <1>t, <2>3, ConsumeServes
<1>4. ASSUME NEW p \in Publishers, NEW ok \in Outcomes, DoAddPublisher(p, ok)
      PROVE  Service!Next
  <2>1. DoAddPublisher(p, TRUE)
    BY <1>4 DEF Outcomes
  <2>2. conf.source = "publisher" /\ phase = "running" /\ stream' = "ok"
    BY <2>1 DEF DoAddPublisher, AddPublisherAccepted, SetReady
  <2>3. CASE Overridden
    <3>1. ConsumeOnHoldRequests({}, Kicked)
      BY <2>1, <2>3 DEF DoAddPublisher
    <3> QED BY <2>2, <3>1, ConsumeServes
  <2>4. CASE ~Overridden
    <3>1. readers = {}
      BY <2>2, <2>4
      DEF Overridden, HasStaticSource, Known, PathInOrder, InOrder, Supplied, Served
    <3>2. ConsumeOnHoldRequests(readers, readerState)
      BY <2>1, <2>4 DEF DoAddPublisher
    <3>3. ConsumeOnHoldRequests(readers, Kicked)
      BY <3>1, <3>2, DisconnectedIsKicked
    <3> QED BY <1>t, <2>2, <3>3, ConsumeServes
  <2> QED BY <2>3, <2>4
<1>5. ASSUME NEW p \in Publishers, DoRemovePublisher(p)
      PROVE  [Service!Next]_(Service!serviceVars)
  BY <1>5, NotReadyInterrupts, Unseen DEF DoRemovePublisher
<1>6. ASSUME NEW r \in Readers, DoAddReader(r)
      PROVE  [Service!Next]_(Service!serviceVars)
  <2>1. /\ phase = "running" /\ stream \in {"nil", "ok"} /\ UNCHANGED stream
        /\ readerState[r] \in {"idle", "reading"}
    BY <1>6 DEF DoAddReader, Known, PathInOrder, InOrder, Supplied
  <2>2. CASE UNCHANGED readerState
    BY <2>1, <2>2, Unseen
  <2>3. CASE stream = "ok" /\ r \notin readers /\ readerState' = [readerState EXCEPT ![r] = "reading"]
    <3>1. readerState[r] = "idle"
      BY <2>1, <2>3 DEF Known, ReadersTracked, Tracked
    <3>2. Service!Ask(r)
      BY <2>1, <2>3, <3>1 DEF Service!Ask
    <3> QED BY <3>2 DEF Service!Next
  <2>4. CASE stream = "nil" /\ readerState' = [readerState EXCEPT ![r] = "waiting"]
    <3>1. readerState[r] = "idle"
      BY <2>1, <2>4 DEF Known, ReadersTracked, Tracked, PathInOrder, InOrder, Served
    <3>2. Service!Ask(r)
      BY <2>1, <2>4, <3>1 DEF Service!Ask
    <3> QED BY <3>2 DEF Service!Next
  <2> QED
    BY <1>6, <2>1, <2>2, <2>3, <2>4 DEF DoAddReader, AddReaderPost
<1>7. ASSUME NEW r \in Readers, DoRemoveReader(r) \/ RemoveReaderTerminated(r)
      PROVE  [Service!Next]_(Service!serviceVars)
  <2>1. Service!Leave(r)
    BY <1>7 DEF DoRemoveReader, RemoveReaderTerminated, Service!Leave
  <2> QED BY <2>1 DEF Service!Next
<1>8. CASE Cleanup
  <2>1. CASE stream = "nil"
    <3>1. RejectOnHold(readerState) /\ UNCHANGED stream /\ phase = "closing"
      BY <1>8, <2>1 DEF Cleanup
    <3> QED BY <3>1, RejectRefuses
  <2>2. CASE stream = "ok"
    <3>1. OnHold = {}
      BY <1>8, <2>2 DEF Cleanup, OnHold, Known, PathInOrder, InOrder, Served
    <3>2. RejectOnHold(Kicked) /\ stream' = "nil"
      BY <1>8, <2>2 DEF Cleanup, StreamDown
    <3>3. readerState' = Kicked
      BY <3>1, <3>2 DEF RejectOnHold, Kicked
    <3>4. Service!Interrupt
      BY <2>2, <3>2, <3>3, DisconnectedIsKicked DEF Service!Interrupt
    <3> QED BY <3>4 DEF Service!Next
  <2> QED
    BY <1>8, <2>1, <2>2 DEF Cleanup, Known, PathInOrder, InOrder, Supplied
<1>9. CASE \/ DoOnDemandPublisherCloseTimer \/ (\E new \in Confs : DoReloadConf(new))
           \/ (\E d \in Describers : DoDescribe(d) \/ DescribeTerminated(d))
           \/ (\E p \in Publishers : RemovePublisherTerminated(p))
           \/ Close \/ Terminate \/ UNCHANGED vars
  <2>1. UNCHANGED <<stream, readerState>>
    BY <1>9
    DEF DoOnDemandPublisherCloseTimer, DoReloadConf, DoDescribe, DescribeTerminated,
        RemovePublisherTerminated, Close, Terminate, vars
  <2> QED BY <2>1, Unseen
<1> QED
  BY <1>1, <1>2, <1>3, <1>4, <1>5, <1>6, <1>7, <1>8, <1>9 DEF Next

(* Seen by its readers a path is the service of PathService.               *)
THEOREM PathIsService ==
  ASSUME ~SetReadyMayFail PROVE Spec => ImplementsService
<1>1. Init => Service!Init
  BY DEF Init, Service!Init
<1> QED
  BY <1>1, ServiceStep, AlwaysKnown, PTL DEF Spec, ImplementsService, Service!Spec

-----------------------------------------------------------------------------
(***************************************************************************)
(* The handler of the static source, for every kind of source and any      *)
(* number of reloads.  HandlerInv says who may be where at the same time.  *)
(***************************************************************************)

(* The path is in Stop, or out of it and in agreement with the loop.       *)
StopAgrees ==
  /\ running => pathState = "running" /\ ~handlerCtxDone /\ loop # "off"
  /\ ~running => ~streamUp
  /\ ~running /\ loop # "off" => handlerCtxDone /\ pathState \in {"stopping", "closing"}

(* The loop is forwarding exactly while the instance waits for the path,   *)
(* and drains only for Stop.                                               *)
LoopAgrees ==
  /\ loop = "off" => inst = "none"
  /\ loop = "draining" => handlerCtxDone
  /\ loop = "forwarding" <=> inst \in {"readyCall", "notReadyCall"}

HandlerInv ==
  /\ HandlerTypeOK
  /\ StopAgrees
  /\ LoopAgrees
  /\ StreamFollowsInstance
  /\ PanicsOnlyWhenStopped

(* The invariant gives what Start relies on.                               *)
LEMMA InvImpliesQuiet == HandlerInv => StoppedIsQuiet
  BY DEF HandlerInv, StopAgrees, LoopAgrees, StoppedIsQuiet

(* A path starts with nothing of its source running, or with its first run.*)
LEMMA HandlerInitInv == HandlerInit => HandlerInv
<1> SUFFICES ASSUME HandlerInit PROVE HandlerInv
  OBVIOUS
<1>1. HandlerTypeOK
  <2>1. onDemand \in BOOLEAN /\ running \in BOOLEAN
    BY Zenon DEF HandlerInit
  <2>2. 0 \in Versions
    BY MaxReloadsIsNatural DEF Versions
  <2>3. loop \in {"off", "select"} /\ inst \in {"none", "starting"}
    BY DEF HandlerInit
  <2>4. reloads \subseteq Goroutines /\ innerReloads \subseteq Goroutines
    BY DEF HandlerInit
  <2>5. QED
    BY <2>1, <2>2, <2>3, <2>4 DEF HandlerInit, HandlerTypeOK, Steps
<1>2. StopAgrees /\ LoopAgrees
  BY DEF HandlerInit, StopAgrees, LoopAgrees
<1>3. StreamFollowsInstance /\ PanicsOnlyWhenStopped
  BY DEF HandlerInit, StreamFollowsInstance, PanicsOnlyWhenStopped
<1>4. QED
  BY <1>1, <1>2, <1>3 DEF HandlerInv

(* Goroutines of a former run stay goroutines.                             *)
LEMMA OldGoroutines ==
  ASSUME NEW G \in SUBSET Goroutines
  PROVE  {[r EXCEPT !.old = TRUE] : r \in G} \in SUBSET Goroutines
  BY DEF Goroutines

(* The steps of the path keep the invariant.                               *)
LEMMA PathKeepsHandlerInv == HandlerInv /\ Alive /\ PathNext => HandlerInv'
<1> SUFFICES ASSUME HandlerInv, Alive, PathNext PROVE HandlerInv'
  OBVIOUS
<1> USE MaxReloadsIsNatural, OldGoroutines
    DEF HandlerInv, HandlerTypeOK, StopAgrees, LoopAgrees, StreamFollowsInstance, PanicsOnlyWhenStopped,
        Versions, Steps, pathVars, runVars, loopVars, instVars, fixedVars
<1>1. CASE PathStart
  BY <1>1 DEF PathStart, Start
<1>2. CASE PathStop
  BY <1>2 DEF PathStop, Stop
<1>3. CASE StopReturns
  BY <1>3 DEF StopReturns
<1>4. CASE PathReloads
  <2>1. pathConf' \in Versions
    BY <1>4 DEF PathReloads
  <2>2. [conf |-> pathConf', old |-> FALSE] \in Goroutines
    BY <2>1 DEF Goroutines
  <2>3. reloads' \in SUBSET Goroutines
    BY <1>4, <2>2 DEF PathReloads
  <2>4. QED
    BY <1>4, <2>1, <2>3 DEF PathReloads
<1>5. CASE ClosePath("waiting") \/ ClosePath("done")
  <2>1. /\ manager' \in {"waiting", "done"}
        /\ pathCtxDone'
        /\ UNCHANGED <<kind, onDemand, pathState, pathConf, streamUp, running, handlerCtxDone, handlerConf,
                       loop, recreating, inst, runCtxDone, instConf, reloads, innerReloads>>
    BY <1>5 DEF ClosePath
  <2>2. HandlerTypeOK'
    BY <1>5, <2>1 DEF ClosePath
  <2>3. QED
    BY <2>1, <2>2
<1>6. CASE PathTerminates
  BY <1>6 DEF PathTerminates, Stop
<1>7. CASE Recreated
  BY <1>7 DEF Recreated, Start
<1>8. CASE PathTakesReady
  BY <1>8 DEF PathTakesReady
<1>9. CASE PathTakesNotReady
  BY <1>9 DEF PathTakesNotReady, Stop
<1>10. QED
  BY <1>1, <1>2, <1>3, <1>4, <1>5, <1>6, <1>7, <1>8, <1>9 DEF PathNext

(* The steps of the loop keep the invariant.                               *)
LEMMA LoopKeepsInv == HandlerInv /\ Alive /\ LoopNext => HandlerInv'
<1> SUFFICES ASSUME HandlerInv, Alive, LoopNext PROVE HandlerInv'
  OBVIOUS
<1> USE MaxReloadsIsNatural, OldGoroutines
    DEF HandlerInv, HandlerTypeOK, StopAgrees, LoopAgrees, StreamFollowsInstance, PanicsOnlyWhenStopped,
        Versions, Steps, pathVars, runVars, loopVars, instVars, fixedVars
<1>1. CASE RunErr
  BY <1>1 DEF RunErr
<1>2. CASE RecreateTimer
  BY <1>2 DEF RecreateTimer
<1>3. CASE TakeRequest
  BY <1>3 DEF TakeRequest
<1>4. CASE ForwardGivesUp
  BY <1>4 DEF ForwardGivesUp, Refused, Alive
<1>5. CASE CtxDone
  BY <1>5 DEF CtxDone
<1>6. CASE Drained
  BY <1>6 DEF Drained
<1>7. CASE \E r \in reloads : TakeReload(r) \/ ReloadGivesUp(r)
  <2>1. PICK r \in reloads : TakeReload(r) \/ ReloadGivesUp(r)
    BY <1>7
  <2>2. r.conf \in Versions /\ r \in Goroutines
    BY DEF Goroutines
  <2>3. [conf |-> r.conf, old |-> FALSE] \in Goroutines
    BY <2>2 DEF Goroutines
  <2>4. CASE TakeReload(r)
    <3>1. /\ reloads' \in SUBSET Goroutines
          /\ innerReloads' \in SUBSET Goroutines
          /\ handlerConf' \in Versions
      BY <2>2, <2>3, <2>4 DEF TakeReload
    <3>2. UNCHANGED <<kind, onDemand, manager, pathState, pathCtxDone, pathConf, streamUp, running,
                      handlerCtxDone, loop, recreating, inst, runCtxDone, instConf>>
      BY <2>4 DEF TakeReload
    <3>3. QED
      BY <3>1, <3>2
  <2>5. CASE ReloadGivesUp(r)
    BY <2>5 DEF ReloadGivesUp
  <2>6. QED
    BY <2>1, <2>4, <2>5
<1>8. CASE \E r \in innerReloads : InnerReloadGivesUp(r)
  BY <1>8 DEF InnerReloadGivesUp
<1>9. QED
  BY <1>1, <1>2, <1>3, <1>4, <1>5, <1>6, <1>7, <1>8 DEF LoopNext

(* The steps of the instance keep the invariant.                           *)
LEMMA InstanceKeepsInv == HandlerInv /\ Alive /\ InstanceNext => HandlerInv'
<1> SUFFICES ASSUME HandlerInv, Alive, InstanceNext PROVE HandlerInv'
  OBVIOUS
<1> USE DEF HandlerInv, HandlerTypeOK, StopAgrees, LoopAgrees, StreamFollowsInstance, PanicsOnlyWhenStopped,
            Versions, Steps, pathVars, runVars, loopVars, instVars, fixedVars
<1>1. CASE RunBegins
  BY <1>1 DEF RunBegins
<1>2. CASE Connects \/ ConnectFails \/ StreamFails
  BY <1>2 DEF Connects, ConnectFails, StreamFails, InstanceGoes
<1>3. CASE AsksManager \/ JoinsPrimary
  BY <1>3 DEF AsksManager, JoinsPrimary, InstanceGoes
<1>4. CASE PauseEnds \/ PauseInterrupted
  BY <1>4 DEF PauseEnds, PauseInterrupted, InstanceGoes
<1>5. CASE SecondaryEnds
  BY <1>5 DEF SecondaryEnds, InstanceGoes
<1>6. CASE CallGivesUp
  BY <1>6 DEF CallGivesUp, Refused, InstanceGoes, Alive
<1>7. CASE \E r \in innerReloads : InstanceReloads(r)
  <2>1. PICK r \in innerReloads : InstanceReloads(r)
    BY <1>7
  <2>2. r.conf \in Versions
    BY DEF Goroutines
  <2>3. QED
    BY <2>1, <2>2 DEF InstanceReloads
<1>8. QED
  BY <1>1, <1>2, <1>3, <1>4, <1>5, <1>6, <1>7 DEF InstanceNext

(* The invariant holds in every reachable state.                           *)
LEMMA HandlerInvHolds == HandlerSpec => []HandlerInv
<1>1. HandlerInv /\ [HandlerNext]_handlerVars => HandlerInv'
  <2>1. CASE HandlerNext
    BY <2>1, PathKeepsHandlerInv, LoopKeepsInv, InstanceKeepsInv DEF HandlerNext
  <2>2. CASE UNCHANGED handlerVars
    BY <2>2 DEF handlerVars, HandlerInv, HandlerTypeOK, StopAgrees, LoopAgrees, StreamFollowsInstance,
                PanicsOnlyWhenStopped, Versions, Steps, pathVars, runVars, loopVars, instVars,
                fixedVars
  <2>3. QED
    BY <2>1, <2>2
<1>2. QED
  BY HandlerInitInv, <1>1, PTL DEF HandlerSpec

(* handler.go, Stop: once it has returned, nothing of the run is left that *)
(* could call the path or read the context Start replaces.                 *)
THEOREM StopLeavesNothing == HandlerSpec => []StoppedIsQuiet
  BY HandlerInvHolds, InvImpliesQuiet, PTL

(* path.go relies on it: SetReady and SetNotReady arrive in turns, from    *)
(* the current run only, however runs, retries and reloads interleave.     *)
THEOREM ReadyInTurns == HandlerSpec => []StreamFollowsInstance
<1>1. HandlerInv => StreamFollowsInstance
  BY DEF HandlerInv
<1>2. QED
  BY HandlerInvHolds, <1>1, PTL

(* source.go:165: the assertion of the camera can only fail while the      *)
(* source or its path is being stopped.                                    *)
THEOREM AssertionHoldsWhileRunning == HandlerSpec => []PanicsOnlyWhenStopped
<1>1. HandlerInv => PanicsOnlyWhenStopped
  BY DEF HandlerInv
<1>2. QED
  BY HandlerInvHolds, <1>1, PTL
=============================================================================
