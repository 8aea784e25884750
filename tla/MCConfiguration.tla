-------------------------- MODULE MCConfiguration --------------------------
(* Files and requests for TLC.                                             *)
EXTENDS Configuration, TLC

CONSTANTS cam, door, anyOther, bad, custom

Nothing == [f \in {} |-> Unset]

Primary == [source |-> "rpiCamera"]
Secondary == [source |-> "rpiCamera", secondary |-> TRUE, width |-> 640]

FileOf(global, defaults, optional, oldDeleteAfter) ==
  [global |-> global, defaults |-> defaults, optional |-> optional, oldDeleteAfter |-> oldDeleteAfter]

(* An ordinary file, one with a pair of cameras, and one for each kind of  *)
(* deprecated parameter.                                                   *)
MCFiles ==
  { FileOf(Nothing, Nothing, (anyOther :> Nothing), Unset),
    FileOf(Nothing, Nothing, (cam :> Primary) @@ (door :> Secondary), Unset),
    FileOf([oldQueue |-> 1024, oldDisable |-> TRUE], Nothing, (cam :> Nothing), 48),
    FileOf([oldAuthAddress |-> "a URL", oldIce |-> 0], [deleteAfter |-> 0], Nothing, Unset),
    FileOf(Nothing, Nothing, (cam :> [legacyUser |-> "admin"]), Unset) }

MCGlobals ==
  { [queue |-> 100], [queue |-> 256], [rtsp |-> FALSE], [rtspAuth |-> "digest"],
    [authMethod |-> "http"], [playback |-> TRUE], [localUDP |-> FALSE],
    [users |-> custom, hashed |-> TRUE] }

MCPathValues ==
  { Nothing, Primary, Secondary, [source |-> "network", onDemand |-> TRUE],
    [recordPath |-> "no %f"], [segmentDuration |-> 30], [deleteAfter |-> 0],
    [disableOverride |-> TRUE, runOnDemand |-> TRUE], [overridePublisher |-> FALSE] }
=============================================================================
