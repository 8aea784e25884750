------------------------------ MODULE Commands ------------------------------
(***************************************************************************)
(* External commands (internal/externalcmd) and the hooks that start and   *)
(* stop them (internal/hooks): a hook runs one command while something     *)
(* lasts and launches another one when it is over.                         *)
(*                                                                         *)
(* A command has a goroutine of its own, counted by the pool core waits    *)
(* for at the end.  What the command line says is left out; a command may  *)
(* fail to start, end on its own, or run for ever.                         *)
(***************************************************************************)
EXTENDS Naturals, FiniteSets

CONSTANTS
  Owners  (* connections and sessions whose life hooks are attached to     *)

Hooks == {"connect", "read"}
Over  == [connect |-> "disconnect", read |-> "unread"]
CommandIds == Owners \X {"connect", "disconnect", "read", "unread"}

VARIABLES
  hookConf,  (* the hook that is configured, and how:                      *)
             (* [hook, run, restart, runOver]                              *)
  commands   (* id -> [at, restart, closed]                                *)

commandVars == <<hookConf, commands>>

HookConfs ==
  [hook : Hooks, run : BOOLEAN, restart : BOOLEAN, runOver : BOOLEAN]

CommandSteps ==
  {"none",      (* never created                                           *)
   "starting",  (* about to run cmd.Start                                  *)
   "running",   (* the process is there: select terminate | cmdDone        *)
   "pausing",   (* select restartPause | terminate                         *)
   "ended",     (* pool.wg.Done                                            *)
   "panic"}     (* Close of a command that is closed already               *)

NoCommand == [at |-> "none", restart |-> FALSE, closed |-> FALSE]

CommandsTypeOK ==
  /\ hookConf \in HookConfs
  /\ commands \in [CommandIds -> [at : CommandSteps, restart : BOOLEAN, closed : BOOLEAN]]

CommandsInit ==
  commands = [c \in CommandIds |-> NoCommand]

-----------------------------------------------------------------------------
(* The operations, as functions of the table of commands.                  *)

NewCmd(cs, id, restart) ==
  [cs EXCEPT ![id] = [at |-> "starting", restart |-> restart, closed |-> FALSE]]

(* close(e.terminate), which panics the second time.                       *)
Close(cs, id) ==
  IF cs[id].closed THEN [cs EXCEPT ![id].at = "panic"]
  ELSE [cs EXCEPT ![id].closed = TRUE]

(* What OnConnect and OnRead do when they are called,                      *)
Begin(cs, o, hook) ==
  IF hookConf.hook = hook /\ hookConf.run /\ o \in Owners
  THEN NewCmd(cs, <<o, hook>>, hookConf.restart) ELSE cs

(* and the function they return.                                           *)
End(cs, o, hook) ==
  LET stopped == IF hookConf.hook = hook /\ hookConf.run /\ o \in Owners
                 THEN Close(cs, <<o, hook>>) ELSE cs
  IN  IF hookConf.hook = hook /\ hookConf.runOver /\ o \in Owners
      THEN NewCmd(stopped, <<o, Over[hook]>>, FALSE) ELSE stopped

-----------------------------------------------------------------------------
(* The goroutine of a command, run().                                      *)

Moves(id, from, to) ==
  /\ commands[id].at = from
  /\ commands' = [commands EXCEPT ![id].at = to]
  /\ UNCHANGED hookConf

Starts(id) == Moves(id, "starting", "running")

(* After an end that nobody asked for: once more, or over.                 *)
Again(id) == IF commands[id].restart THEN "pausing" ELSE "ended"

CannotStart(id) == Moves(id, "starting", Again(id))
Exits(id)       == Moves(id, "running", Again(id))

Terminated(id)  == commands[id].closed /\ Moves(id, "running", "ended")

PauseOver(id)        == Moves(id, "pausing", "starting")
PauseTerminated(id)  == commands[id].closed /\ Moves(id, "pausing", "ended")

CommandStep(id) ==
  Starts(id) \/ CannotStart(id) \/ Exits(id) \/ Terminated(id) \/ PauseOver(id) \/ PauseTerminated(id)

(* pool.Close(): nobody ends what a hook launched when it was over, so the *)
(* pool waits for it.                                                      *)
PoolIsEmpty == \A id \in CommandIds : commands[id].at \in {"none", "ended"}

(* Of two cases that are ready Go takes either with equal chance: a closed *)
(* command is told so sooner or later.  Commands launched by the end of a  *)
(* hook are assumed to end on their own.                                   *)
CommandFairness ==
  \A o \in Owners, h \in Hooks :
    /\ WF_commandVars(Starts(<<o, h>>) \/ CannotStart(<<o, h>>))
    /\ SF_commandVars(Terminated(<<o, h>>) \/ PauseTerminated(<<o, h>>))
    /\ WF_commandVars(CommandStep(<<o, Over[h]>>))
=============================================================================
