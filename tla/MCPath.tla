------------------------------- MODULE MCPath -------------------------------
(* Configurations of one path for TLC.                                     *)
EXTENDS Path, TLC

Plain == [source |-> "publisher", onDemand |-> FALSE, regexp |-> FALSE, record |-> FALSE,
          recording |-> "fmp4", maxReaders |-> 0, overridePublisher |-> TRUE,
          fallback |-> FALSE]

(* One configuration of every kind the settings tell apart.                *)
AllKinds ==
  {Plain,
   [Plain EXCEPT !.regexp = TRUE],
   [Plain EXCEPT !.maxReaders = 1, !.overridePublisher = FALSE],
   [Plain EXCEPT !.onDemand = TRUE, !.regexp = TRUE, !.maxReaders = 1],
   [Plain EXCEPT !.source = "static"],
   [Plain EXCEPT !.source = "static", !.onDemand = TRUE, !.regexp = TRUE, !.maxReaders = 1],
   [Plain EXCEPT !.fallback = TRUE],
   [Plain EXCEPT !.source = "redirect"]}

(* What a reload may change while the path runs.                           *)
Reloads(base) ==
  {base, [base EXCEPT !.regexp = TRUE]} \cup
  {[base EXCEPT !.record = TRUE, !.recording = r] : r \in Recordings}

AllKindsAndReloads ==
  AllKinds \cup Reloads([Plain EXCEPT !.onDemand = TRUE])
           \cup Reloads([Plain EXCEPT !.source = "static", !.onDemand = TRUE])

StaticKinds ==
  {[Plain EXCEPT !.source = "static"],
   [Plain EXCEPT !.source = "static", !.onDemand = TRUE, !.maxReaders = 1],
   [Plain EXCEPT !.source = "static", !.onDemand = TRUE, !.regexp = TRUE]}

Symmetry == Permutations(Readers) \cup Permutations(Describers) \cup Permutations(Publishers)
=============================================================================
