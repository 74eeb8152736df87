------------------------------ MODULE Program ------------------------------
(***************************************************************************)
(* main as a whole: the life of the process with the loop over the         *)
(* arguments inside it.  What Lifecycle leaves open about the arguments,   *)
(* CommandLine decides, and a signal may come between two arguments.       *)
(***************************************************************************)
EXTENDS Lifecycle, CommandLine

allVars == <<vars, lineVars>>

ProgramInit == Init /\ LineInit

LoopDone == phase = "loop" /\ i >= argc

ParseStep ==
  /\ MainAt("arguments")
  /\ CheckArgc \/ Help \/ PortTaken \/ PortThrows \/ OtherArgument
  /\ UNCHANGED vars

(* main goes on, returns, or ends with the exception nobody catches.       *)
ParseResult ==
  /\ ParseArguments
  /\ \/ LoopDone /\ pc' = "app"
     \/ phase \in {"usage", "help"} /\ fate' = "usage"
     \/ phase = "threw" /\ fate' = "crashed"
  /\ UNCHANGED lineVars

(* startListen gets the port that the loop left.                           *)
StartListen ==
  /\ ConstructServer
  /\ IF listening' THEN Listen ELSE UNCHANGED lineVars

MainGoesOn ==
  \/ ParseStep \/ ParseResult \/ StartListen
  \/ /\ RegisterSigterm \/ RegisterSigill \/ CreateApplication \/ InitLog
        \/ AssignServer \/ EnterLoop \/ RunPosted \/ LeaveLoop
     /\ UNCHANGED lineVars

HandlerGoesOn == HandlerStep /\ UNCHANGED lineVars

ProgramNext ==
  \/ MainGoesOn
  \/ HandlerGoesOn
  \/ /\ StartCommand \/ \E signal \in Signals, t \in Threads : Deliver(signal, t)
     /\ UNCHANGED lineVars

ProgramSpec == ProgramInit /\ [][ProgramNext]_allVars

(* Both threads are scheduled; no signal and no command is promised.       *)
FairProgram ==
  /\ ProgramSpec
  /\ WF_allVars(MainGoesOn) /\ WF_allVars(HandlerGoesOn)

-----------------------------------------------------------------------------
(* Start-up ends, in the event loop or with the process, whatever the      *)
(* arguments are and wherever signals interrupt it: the loop over the      *)
(* arguments cannot hang.                                                  *)
StartUpEnds == <>(Dead \/ pc = "exec")
=============================================================================
