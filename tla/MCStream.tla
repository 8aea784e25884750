------------------------------ MODULE MCStream ------------------------------
(* H264 with two readers whose callbacks wait for different things, and a   *)
(* codec of each other kind with one reader of each protocol that takes it  *)
(* (the second reader is refused: plain RTMP takes none of them).           *)
EXTENDS Stream

CONSTANTS r1, r2

Two == {[codec |-> "H264", publisher |-> "rtsp", protocol |-> r1 :> "rtmp" @@ r2 :> "webrtc"]}

One ==
  {s \in AllSettings :
     /\ <<s.codec, s.publisher>> \in
          {<<"H265", "mpegts">>, <<"MPEG4Video", "rtsp">>, <<"AV1", "rtmp">>, <<"AV1", "rtsp">>,
           <<"Opus", "rtsp">>, <<"KLV", "mpegts">>, <<"G722", "rtsp">>}
     /\ s.codec \in DOMAIN FromStream[s.protocol[r1]]
     /\ s.protocol[r2] = "rtmp"}

Pick == Two \cup {s \in One : s.codec # "Opus" \/ s.protocol[r1] \in {"hls", "webrtc"}}
=============================================================================
