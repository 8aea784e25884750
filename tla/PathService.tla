---------------------------- MODULE PathService ----------------------------
(***************************************************************************)
(* What a path promises to its readers, whatever feeds it.                 *)
(*                                                                         *)
(* A client asks for the stream once.  If the stream is up it reads or is  *)
(* refused, if not it may be kept waiting; all who wait are answered       *)
(* together, when the stream comes up or when the path gives up.  Nobody   *)
(* reads while the stream is down: the step that ends or replaces the      *)
(* stream disconnects every reader.                                        *)
(***************************************************************************)
CONSTANTS Clients
VARIABLES
  up,      (* there is a stream to read                                      *)
  client   (* "idle" | "waiting" | "reading" | "kicked" | "gone"             *)

serviceVars == <<up, client>>

Waiting == {c \in Clients : client[c] = "waiting"}

Disconnected == [c \in Clients |-> IF client[c] = "reading" THEN "kicked" ELSE client[c]]

Init ==
  /\ up = FALSE
  /\ client = [c \in Clients |-> "idle"]

Ask(c) ==
  /\ client[c] = "idle"
  /\ client' = [client EXCEPT ![c] = IF up THEN "reading" ELSE "waiting"]
  /\ UNCHANGED up

Leave(c) ==
  /\ client[c] \in {"reading", "kicked"}
  /\ \E after \in {"idle", "gone"} : client' = [client EXCEPT ![c] = after]
  /\ UNCHANGED up

(* A stream comes up, in place of the old one if there is one.             *)
Serve ==
  /\ up' = TRUE
  /\ \E admitted \in SUBSET Waiting :
       client' = [c \in Clients |-> IF c \in admitted THEN "reading"
                                   ELSE IF c \in Waiting THEN "idle" ELSE Disconnected[c]]

Refuse ==
  /\ Waiting # {}
  /\ ~up /\ UNCHANGED up
  /\ client' = [c \in Clients |-> IF c \in Waiting THEN "idle" ELSE client[c]]

Interrupt ==
  /\ up /\ up' = FALSE
  /\ client' = Disconnected

Next ==
  \/ \E c \in Clients : Ask(c) \/ Leave(c)
  \/ Serve
  \/ Refuse
  \/ Interrupt

Spec == Init /\ [][Next]_serviceVars
=============================================================================
