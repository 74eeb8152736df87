---------------------------- MODULE CommandLine ----------------------------
(***************************************************************************)
(* main's loop over its arguments, up to the port the server listens on.   *)
(* An argument is what the loop can tell of it: an option, a numeral that  *)
(* std::stoi converts, or any other word.  Positions are those of C:       *)
(* argv[0] is the program, argv[argc] the null pointer.                    *)
(***************************************************************************)
EXTENDS Integers, FiniteSets

CONSTANTS
  Numerals,  \* the values of the numerals a user may type
  MaxArgc    \* bound on argc

ASSUME NumeralsAssumption == Numerals \subseteq Int
ASSUME MaxArgcAssumption == MaxArgc \in Nat \ {0}

Argument == [kind : {"help", "port", "word"}, value : {0}]
              \cup [kind : {"numeral"}, value : Numerals]
NullPtr == [kind |-> "null", value |-> 0]

VARIABLES argc, argv, i, port, phase, heard

lineVars == <<argc, argv, i, port, phase, heard>>

DefaultPort == 8080
NoPort == -1
PortWidth == 65536   \* of quint16

(* "usage" is the return -1, "help" the return 0, "threw" an exception     *)
(* that nobody catches.                                                    *)
Ended == phase \in {"usage", "help", "threw", "listening"}

LineTypeOK ==
  /\ argc \in 1 .. MaxArgc
  /\ argv \in [0 .. argc -> Argument \cup {NullPtr}]
  /\ i \in 0 .. argc
  /\ port \in Numerals \cup {DefaultPort}
  /\ phase \in {"start", "loop", "usage", "help", "threw", "listening"}
  /\ heard \in 0 .. PortWidth - 1 \/ heard = NoPort

LineInit ==
  /\ argc \in 1 .. MaxArgc
  /\ \E args \in [1 .. argc - 1 -> Argument] :
       argv = [k \in 0 .. argc |->
                 IF k = 0 THEN [kind |-> "word", value |-> 0]
                 ELSE IF k = argc THEN NullPtr ELSE args[k]]
  /\ i = 0
  /\ port = DefaultPort
  /\ phase = "start"
  /\ heard = NoPort

-----------------------------------------------------------------------------
(* Slips a change of the code could make, see EdgeNode.                    *)
NextArgument_SkipsOne == i + 2
NextArgument_Stays == i

-----------------------------------------------------------------------------
CheckArgc ==
  /\ phase = "start"
  /\ IF argc < 3 THEN phase' = "usage" /\ i' = i
                 ELSE phase' = "loop" /\ i' = 1
  /\ UNCHANGED <<argc, argv, port, heard>>

At(kinds) == phase = "loop" /\ i < argc /\ argv[i].kind \in kinds

Help ==
  /\ At({"help"})
  /\ phase' = "help"
  /\ UNCHANGED <<argc, argv, i, port, heard>>

AfterOperand == i + 2
NextArgument == i + 1

(* The test i + 1 <= argc.                                                 *)
HasOperand == i + 1 <= argc

PortTaken ==
  /\ At({"port"})
  /\ HasOperand
  /\ argv[i + 1].kind = "numeral"
  /\ port' = argv[i + 1].value
  /\ i' = AfterOperand
  /\ UNCHANGED <<argc, argv, phase, heard>>

(* stoi throws on a word; the std::string made of a null pointer throws.   *)
PortThrows ==
  /\ At({"port"})
  /\ HasOperand
  /\ argv[i + 1].kind # "numeral"
  /\ i' = i + 1
  /\ phase' = "threw"
  /\ UNCHANGED <<argc, argv, port, heard>>

OtherArgument ==
  /\ At({"numeral", "word"})
  /\ i' = NextArgument
  /\ UNCHANGED <<argc, argv, port, phase, heard>>

(* The int becomes the quint16 that QTcpServer::listen takes.              *)
ListenOn(p) == p % PortWidth

Listen ==
  /\ phase = "loop" /\ i >= argc
  /\ phase' = "listening"
  /\ heard' = ListenOn(port)
  /\ UNCHANGED <<argc, argv, i, port>>

LineNext == CheckArgc \/ Help \/ PortTaken \/ PortThrows \/ OtherArgument \/ Listen

LineSpec == LineInit /\ [][LineNext]_lineVars

-----------------------------------------------------------------------------
(* What the arguments mean, without the loop: the first help or the first  *)
(* port option without a number decides; else the last port option does.   *)
Options(kind) == {k \in 1 .. argc - 1 : argv[k].kind = kind}
Unusable == {k \in Options("port") : argv[k + 1].kind # "numeral"}
Deciding == Options("help") \cup Unusable
LastPort ==
  IF Options("port") = {} THEN DefaultPort
  ELSE argv[1 + CHOOSE k \in Options("port") : \A l \in Options("port") : l <= k].value

(* Once main is past the loop the outcome is the declared one: no operand  *)
(* is read as an option, no option is skipped.                             *)
OutcomeAsDeclared ==
  CASE phase = "usage" -> argc < 3
    [] phase = "listening" -> Deciding = {} /\ port = LastPort
    [] phase = "help" -> \E k \in Options("help") : \A l \in Deciding : k <= l
    [] phase = "threw" -> \E k \in Unusable : \A l \in Deciding : k <= l
    [] OTHER -> TRUE

=============================================================================
