----------------------------- MODULE MCRecorder -----------------------------
(* Both tracks with a disk that fails, audio two units behind the video,    *)
(* and one track with the cleaner at work: each for as long as it needs.    *)
EXTENDS Recorder

Set(kind, of, behind, breaks, cleaned, end) ==
  [format |-> kind, tracks |-> of, lag |-> behind, faults |-> breaks, cleans |-> cleaned,
   until |-> end]

Pick ==
  {Set("fmp4", Tracks, 0, TRUE, FALSE, 3), Set("mpegts", Tracks, 0, TRUE, FALSE, 3),
   Set("fmp4", Tracks, 2, FALSE, FALSE, 5), Set("fmp4", {"audio"}, 0, TRUE, FALSE, 5),
   Set("fmp4", {"video"}, 0, FALSE, TRUE, 4), Set("mpegts", {"video"}, 0, FALSE, TRUE, 4)}
=============================================================================
