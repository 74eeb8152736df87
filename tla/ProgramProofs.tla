--------------------------- MODULE ProgramProofs ---------------------------
(***************************************************************************)
(* Theorems about main: the loop over the arguments, for every argument    *)
(* vector of any length with any numerals in it, the life of the process,  *)
(* for any number of signals, and the two together.                        *)
(***************************************************************************)
EXTENDS Program, TLAPS

-----------------------------------------------------------------------------
(* CommandLine.                                                            *)

ArgvTyped ==
  /\ argc \in 1 .. MaxArgc
  /\ argv \in [0 .. argc -> Argument \cup {NullPtr}]
  /\ argv[argc] = NullPtr

LocalsTyped ==
  /\ i \in 0 .. argc
  /\ port \in Numerals \cup {DefaultPort}
  /\ phase \in {"start", "loop", "usage", "help", "threw", "listening"}
  /\ heard \in 0 .. PortWidth - 1 \/ heard = NoPort

LineTypeInv == ArgvTyped /\ LocalsTyped

(* The port in hand is the one the last port option before i asked for.    *)
PortSoFar ==
  \/ /\ port = DefaultPort
     /\ \A k \in Options("port") : k >= i
  \/ \E k \in Options("port") :
       /\ k < i
       /\ port = argv[k + 1].value
       /\ \A l \in Options("port") : l < i => l <= k

(* Nothing before i could have decided the outcome.                        *)
Undecided == \A k \in Deciding : k >= i

LoopInv ==
  /\ phase = "start" => port = DefaultPort
  /\ phase \in {"loop", "listening"} => i >= 1 /\ Undecided /\ PortSoFar
  /\ phase = "listening" => i >= argc
  /\ phase = "usage" => argc < 3
  /\ phase = "help" => \E k \in Options("help") : \A l \in Deciding : k <= l
  /\ phase = "threw" => \E k \in Unusable : \A l \in Deciding : k <= l

-----------------------------------------------------------------------------
LEMMA NumeralValue ==
  ASSUME NEW a \in Argument \cup {NullPtr}, a.kind = "numeral"
  PROVE  a.value \in Numerals /\ a # NullPtr
BY DEF Argument, NullPtr

LEMMA PortInRange ==
  ASSUME NEW p \in Int
  PROVE  ListenOn(p) \in 0 .. PortWidth - 1
<1>1. PortWidth \in Nat \ {0}
  BY SMT DEF PortWidth
<1> QED
  BY <1>1, SMT DEF ListenOn

LEMMA LineInitInv == LineInit => LineTypeInv /\ LoopInv
<1> SUFFICES ASSUME LineInit PROVE LineTypeInv /\ LoopInv
  OBVIOUS
<1>1. argc \in 1 .. MaxArgc /\ argc \in Nat \ {0}
  BY MaxArgcAssumption DEF LineInit
<1>2. PICK args \in [1 .. argc - 1 -> Argument] :
        argv = [k \in 0 .. argc |->
                  IF k = 0 THEN [kind |-> "word", value |-> 0]
                  ELSE IF k = argc THEN NullPtr ELSE args[k]]
  BY DEF LineInit
<1>3. [kind |-> "word", value |-> 0] \in Argument
  BY DEF Argument
<1>4. \A k \in 0 .. argc : argv[k] \in Argument \cup {NullPtr}
  <2>1. \A k \in 0 .. argc : k = 0 \/ k = argc \/ k \in 1 .. argc - 1
    BY <1>1
  <2> QED
    BY <1>2, <1>3, <2>1
<1>5. argv \in [0 .. argc -> Argument \cup {NullPtr}]
  BY <1>2, <1>4
<1>6. argv[argc] = NullPtr
  BY <1>1, <1>2
<1>7. LocalsTyped
  BY <1>1 DEF LineInit, LocalsTyped
<1>8. LoopInv
  BY DEF LineInit, LoopInv
<1> QED
  BY <1>1, <1>5, <1>6, <1>7, <1>8, Zenon DEF LineInit, ArgvTyped, LineTypeInv

(* What a port option takes for its operand is an argument or the null    *)
(* pointer that ends them, never what lies behind it.                      *)
LEMMA OperandIsArgument ==
  ASSUME LineTypeInv, i < argc
  PROVE  /\ i + 1 \in 1 .. argc
         /\ argv[i + 1] \in Argument \cup {NullPtr}
<1>1. i + 1 \in 1 .. argc /\ i + 1 \in 0 .. argc
  BY MaxArgcAssumption DEF LineTypeInv, ArgvTyped, LocalsTyped
<1>2. argv \in [0 .. argc -> Argument \cup {NullPtr}]
  BY DEF LineTypeInv, ArgvTyped
<1> QED
  BY <1>1, <1>2, Zenon

LEMMA NextLineTypeInv == LineTypeInv /\ [LineNext]_lineVars => LineTypeInv'
<1> SUFFICES ASSUME LineTypeInv, [LineNext]_lineVars PROVE LineTypeInv'
  OBVIOUS
<1>1. argc \in Nat \ {0} /\ i \in 0 .. argc
  BY MaxArgcAssumption DEF LineTypeInv, ArgvTyped, LocalsTyped
<1>2. UNCHANGED <<argc, argv>>
  BY DEF LineNext, CheckArgc, Help, PortTaken, PortThrows, OtherArgument, Listen, lineVars
<1>3. ArgvTyped'
  BY <1>2, Zenon DEF LineTypeInv, ArgvTyped
<1>4. LocalsTyped
  BY DEF LineTypeInv
<1>5. CASE CheckArgc
  BY <1>1, <1>3, <1>4, <1>5 DEF CheckArgc, LocalsTyped, LineTypeInv
<1>6. CASE Help
  BY <1>3, <1>4, <1>6 DEF Help, LocalsTyped, LineTypeInv
<1>7. CASE PortTaken
  <2>1. i < argc /\ argv[i + 1].kind = "numeral"
    BY <1>7 DEF PortTaken, At
  <2>2. i + 1 \in 1 .. argc /\ argv[i + 1] \in Argument \cup {NullPtr}
    BY <2>1, OperandIsArgument
  <2>3. argv[i + 1].value \in Numerals /\ argv[i + 1] # NullPtr
    BY ONLY <2>1, <2>2, NumeralValue
  <2>4. argv[argc] = NullPtr
    BY DEF LineTypeInv, ArgvTyped
  <2>5. i + 2 \in 0 .. argc
    BY ONLY <1>1, <2>1, <2>2, <2>3, <2>4
  <2>6. i' = i + 2 /\ port' = argv[i + 1].value /\ UNCHANGED <<argc, phase, heard>>
    BY <1>7 DEF PortTaken, AfterOperand
  <2>7. port' \in Numerals
    BY ONLY <2>3, <2>6
  <2> QED
    BY ONLY <1>3, <1>4, <2>5, <2>6, <2>7 DEF LocalsTyped, LineTypeInv
<1>8. CASE PortThrows
  BY <1>1, <1>3, <1>4, <1>8 DEF PortThrows, At, LocalsTyped, LineTypeInv
<1>9. CASE OtherArgument
  BY <1>1, <1>3, <1>4, <1>9 DEF OtherArgument, NextArgument, At, LocalsTyped, LineTypeInv
<1>10. CASE Listen
  <2>1. port \in Int
    BY NumeralsAssumption DEF LocalsTyped, LineTypeInv, DefaultPort
  <2>2. ListenOn(port) \in 0 .. PortWidth - 1
    BY <2>1, PortInRange
  <2> QED
    BY <1>3, <1>4, <1>10, <2>2 DEF Listen, LocalsTyped, LineTypeInv
<1>11. CASE UNCHANGED lineVars
  BY <1>3, <1>4, <1>11 DEF lineVars, LocalsTyped, LineTypeInv
<1> QED
  BY <1>3, <1>5, <1>6, <1>7, <1>8, <1>9, <1>10, <1>11 DEF LineNext, LineTypeInv

(* Every variable stays of its type: the index never passes argc, so no    *)
(* argument beyond the null pointer is read.                               *)
THEOREM CommandLineTypeCorrect == LineSpec => []LineTypeOK
<1>1. LineTypeInv => LineTypeOK
  BY Zenon DEF LineTypeInv, ArgvTyped, LocalsTyped, LineTypeOK
<1> QED
  BY <1>1, LineInitInv, NextLineTypeInv, PTL DEF LineSpec

-----------------------------------------------------------------------------
LEMMA NextLoopInv == LineTypeInv /\ LoopInv /\ [LineNext]_lineVars => LoopInv'
<1> SUFFICES ASSUME LineTypeInv, LoopInv, [LineNext]_lineVars PROVE LoopInv'
  OBVIOUS
<1>1. argc \in Nat \ {0} /\ i \in Nat /\ i <= argc
  BY MaxArgcAssumption DEF LineTypeInv, ArgvTyped, LocalsTyped
<1>2. UNCHANGED <<argc, argv>>
  BY DEF LineNext, CheckArgc, Help, PortTaken, PortThrows, OtherArgument, Listen, lineVars
<1>3. /\ \A kind : Options(kind)' = Options(kind)
      /\ Unusable' = Unusable /\ Deciding' = Deciding
  BY <1>2 DEF Options, Unusable, Deciding
<1>4. \A k : /\ k \in Deciding => k \in 1 .. argc - 1
             /\ k \in Options("port") => k \in 1 .. argc - 1
  BY DEF Deciding, Unusable, Options
<1>5. CASE CheckArgc
  <2>1. CASE argc < 3
    BY <1>2, <1>5, <2>1 DEF CheckArgc, LoopInv
  <2>2. CASE ~(argc < 3)
    <3>1. i' = 1 /\ port' = DefaultPort /\ phase' = "loop"
      BY <1>5, <2>2 DEF CheckArgc, LoopInv
    <3>2. Undecided' /\ PortSoFar'
      BY <1>3, <1>4, <3>1 DEF Undecided, PortSoFar
    <3> QED
      BY <3>1, <3>2 DEF LoopInv
  <2> QED
    BY <2>1, <2>2
<1>6. CASE Help
  <2>1. i \in Options("help") /\ phase' = "help"
    BY <1>1, <1>6 DEF Help, At, Options, LoopInv
  <2>2. \A l \in Deciding : i <= l
    BY <1>1, <1>4, <1>6 DEF Help, At, LoopInv, Undecided
  <2> QED
    BY <1>3, <2>1, <2>2 DEF LoopInv
<1>7. CASE PortTaken
  <2>1. /\ phase = "loop" /\ phase' = "loop"
        /\ i \in 1 .. argc - 1 /\ i' = i + 2 /\ i \in Options("port")
        /\ argv[i].kind = "port" /\ argv[i + 1].kind = "numeral"
        /\ port' = argv[i + 1].value
    BY <1>1, <1>7 DEF PortTaken, At, AfterOperand, Options, LoopInv
  <2>2. /\ i \notin Deciding
        /\ i + 1 \notin Deciding /\ i + 1 \notin Options("port")
    BY <2>1 DEF Deciding, Unusable, Options
  <2>3. Undecided'
    <3>1. \A k \in Deciding : k >= i /\ k # i /\ k # i + 1
      BY <2>1, <2>2 DEF LoopInv, Undecided
    <3>2. \A k \in Deciding : k >= i + 2
      BY <1>1, <1>4, <3>1
    <3> QED
      BY <1>3, <2>1, <3>2 DEF Undecided
  <2>4. \A l \in Options("port") : l < i + 2 => l <= i
    BY <1>1, <1>4, <2>2
  <2>5. PortSoFar'
    <3>1. i < i + 2
      BY <1>1
    <3> QED
      BY <1>2, <1>3, <2>1, <2>4, <3>1 DEF PortSoFar
  <2> QED
    BY <1>1, <2>1, <2>3, <2>5 DEF LoopInv
<1>8. CASE PortThrows
  <2>1. i \in Unusable /\ phase' = "threw"
    BY <1>1, <1>8 DEF PortThrows, At, Unusable, Options, LoopInv
  <2>2. \A l \in Deciding : i <= l
    BY <1>1, <1>4, <1>8 DEF PortThrows, At, LoopInv, Undecided
  <2> QED
    BY <1>3, <2>1, <2>2 DEF LoopInv
<1>9. CASE OtherArgument
  <2>1. /\ phase = "loop" /\ phase' = "loop"
        /\ i \in 1 .. argc - 1 /\ i' = i + 1 /\ port' = port
        /\ argv[i].kind \in {"numeral", "word"}
    BY <1>1, <1>9 DEF OtherArgument, At, NextArgument, LoopInv
  <2>2. i \notin Deciding /\ i \notin Options("port")
    BY <2>1 DEF Deciding, Unusable, Options
  <2>3. Undecided'
    <3>1. \A k \in Deciding : k >= i + 1
      BY <1>1, <1>4, <2>1, <2>2 DEF LoopInv, Undecided
    <3> QED
      BY <1>3, <2>1, <3>1 DEF Undecided
  <2>4. \A l \in Options("port") : l < i + 1 <=> l < i
    BY <1>1, <1>4, <2>2
  <2>5. PortSoFar'
    <3>1. \A k \in Options("port") : k >= i + 1 <=> k >= i
      BY <1>1, <1>4, <2>4
    <3>2. PortSoFar
      BY <2>1 DEF LoopInv
    <3> QED
      BY <1>2, <1>3, <2>1, <2>4, <3>1, <3>2 DEF PortSoFar
  <2> QED
    BY <1>1, <2>1, <2>3, <2>5 DEF LoopInv
<1>10. CASE Listen
  BY <1>2, <1>3, <1>10 DEF Listen, LoopInv, Undecided, PortSoFar
<1>11. CASE UNCHANGED lineVars
  BY <1>3, <1>11 DEF lineVars, LoopInv, Undecided, PortSoFar
<1> QED
  BY <1>5, <1>6, <1>7, <1>8, <1>9, <1>10, <1>11 DEF LineNext

(* The loop is over: the port in hand is that of the last port option.     *)
LEMMA PortIsLast ==
  ASSUME LineTypeInv, LoopInv, phase = "listening"
  PROVE  Deciding = {} /\ port = LastPort
<1>1. argc \in Nat \ {0} /\ i = argc /\ Undecided /\ PortSoFar
  BY MaxArgcAssumption DEF LineTypeInv, ArgvTyped, LocalsTyped, LoopInv
<1>2. \A k : /\ k \in Deciding => k \in 1 .. argc - 1
             /\ k \in Options("port") => k \in 1 .. argc - 1
  BY DEF Deciding, Unusable, Options
<1>3. Deciding = {}
  BY <1>1, <1>2 DEF Undecided
<1>4. CASE Options("port") = {}
  BY <1>1, <1>3, <1>4 DEF PortSoFar, LastPort
<1>5. CASE Options("port") # {}
  <2>1. PICK k \in Options("port") :
          /\ port = argv[k + 1].value
          /\ \A l \in Options("port") : l <= k
    BY <1>1, <1>2, <1>5 DEF PortSoFar
  <2>2. \A m \in Options("port") : (\A l \in Options("port") : l <= m) => m = k
    BY <1>2, <2>1
  <2>3. k = CHOOSE m \in Options("port") : \A l \in Options("port") : l <= m
    BY <2>1, <2>2
  <2>4. k + 1 = 1 + k
    BY <1>2, <2>1
  <2> QED
    BY <1>3, <1>5, <2>1, <2>3, <2>4 DEF LastPort
<1> QED
  BY <1>3, <1>4, <1>5

(* main's loop decides as a declarative reading of the arguments does: the *)
(* first help or unusable port option, else the last port option.          *)
THEOREM CommandLineAsDeclared == LineSpec => []OutcomeAsDeclared
<1>1. LineTypeInv /\ LoopInv => OutcomeAsDeclared
  BY PortIsLast DEF OutcomeAsDeclared, LoopInv
<1> QED
  BY <1>1, LineInitInv, NextLineTypeInv, NextLoopInv, PTL DEF LineSpec

-----------------------------------------------------------------------------
(* Lifecycle.                                                              *)

(* A thread whose handler is about to emit, as a number.                   *)
Emits(t) == IF handler[t] = "emit" THEN 1 ELSE 0
Handles(t) == IF handler[t] = "off" THEN 0 ELSE 1

(* Every signal is counted once: it is being handled, or handled, or it    *)
(* ended the process; and it posts at most one call.                       *)
Counted ==
  /\ handled + Handles("main") + Handles("other") <= signals
  /\ posted + Emits("main") + Emits("other") <= signals

TypeInv == TypeOK /\ Counted

(* main assigns tcpServer after the server began to listen, so whoever     *)
(* emits through it closes for good.                                       *)
Closed == ~listening \/ posted > 0
Closing ==
  /\ tcpServer = "set" => pc \in {"enter", "exec", "over"}
  /\ \A t \in Threads : handler[t] = "exit" => tcpServer = "set" /\ Closed
  /\ handled > 0 => tcpServer = "set" /\ Closed

-----------------------------------------------------------------------------
LEMMA InitInv == Init => TypeInv /\ Closing
<1> SUFFICES ASSUME Init PROVE TypeInv /\ Closing
  OBVIOUS
<1>1. TypeOK
  <2>1. posted \in 0 .. MaxSignals /\ signals \in 0 .. MaxSignals /\ handled \in 0 .. signals
    BY MaxSignalsAssumption DEF Init
  <2>2. handler \in [Threads -> {"off", "emit", "exit"}]
    BY DEF Init
  <2> QED
    BY <2>1, <2>2, Zenon DEF Init, TypeOK
<1>2. \A t \in Threads : handler[t] = "off"
  BY DEF Init
<1>3. Counted
  BY <1>2 DEF Init, Counted, Emits, Handles, Threads
<1>4. Closing
  BY <1>2 DEF Init, Closing
<1> QED
  BY <1>1, <1>3, <1>4 DEF TypeInv

LEMMA MainTypeInv == TypeInv /\ (MainStep \/ StartCommand) => TypeInv'
<1> SUFFICES ASSUME TypeInv, MainStep \/ StartCommand PROVE TypeInv'
  OBVIOUS
<1> USE MaxSignalsAssumption
<1> USE DEF TypeInv, TypeOK, Counted, Emits, Handles, MainAt, mainVars
<1>1. CASE RegisterSigterm \/ RegisterSigill
  BY <1>1 DEF RegisterSigterm, RegisterSigill, Register, Signals
<1>2. CASE ParseArguments
  BY <1>2 DEF ParseArguments
<1>3. CASE CreateApplication
  BY <1>3 DEF CreateApplication
<1>4. CASE InitLog
  BY <1>4 DEF InitLog
<1>5. CASE ConstructServer
  BY <1>5 DEF ConstructServer
<1>6. CASE AssignServer
  BY <1>6 DEF AssignServer
<1>7. CASE EnterLoop
  BY <1>7 DEF EnterLoop
<1>8. CASE RunPosted
  <2>1. posted' \in 0 .. MaxSignals /\ posted' <= posted
    BY <1>8 DEF RunPosted, Waiting
  <2>2. UNCHANGED <<mainVars, quitting, handler, signals, handled, fate>> /\ listening' = FALSE
    BY <1>8 DEF RunPosted
  <2>3. TypeOK'
    BY <2>1, <2>2
  <2>4. posted' + Emits("main") + Emits("other") <= signals
    <3>1. posted \in Nat /\ posted' \in Nat /\ signals \in Nat
      BY <2>1
    <3>2. Emits("main") \in Nat /\ Emits("other") \in Nat
      OBVIOUS
    <3> HIDE DEF Emits
    <3> QED
      BY <2>1, <3>1, <3>2
  <2> QED
    BY <2>2, <2>3, <2>4
<1>9. CASE LeaveLoop
  BY <1>9 DEF LeaveLoop
<1>10. CASE StartCommand
  BY <1>10 DEF StartCommand
<1> QED
  BY <1>1, <1>2, <1>3, <1>4, <1>5, <1>6, <1>7, <1>8, <1>9, <1>10 DEF MainStep

LEMMA SignalTypeInv ==
  ASSUME TypeInv,
         HandlerStep \/ \E signal \in Signals, t \in Threads : Deliver(signal, t)
  PROVE  TypeInv'
<1> USE MaxSignalsAssumption
<1> USE DEF TypeInv, TypeOK, Counted, Emits, Handles, mainVars, Threads
<1>1. ASSUME NEW t \in Threads, EmitClose(t) PROVE TypeInv'
  <2>1. /\ UNCHANGED <<mainVars, quitting, signals, handled, fate>>
        /\ handler[t] = "emit" /\ handler' = [handler EXCEPT ![t] = "exit"]
    BY <1>1 DEF EmitClose
  <2>2. /\ listening' \in BOOLEAN
        /\ \/ t = "main" /\ posted' = posted
           \/ t = "other" /\ posted' = posted + 1
    BY <1>1 DEF EmitClose, CloseServer
  <2>3. /\ Emits(t) = 1 /\ Emits(t)' = 0 /\ Handles(t) = 1 /\ Handles(t)' = 1
        /\ \A v \in Threads \ {t} : Emits(v)' = Emits(v) /\ Handles(v)' = Handles(v)
        /\ \A v \in Threads : Emits(v) \in {0, 1} /\ handler'[v] \in {"off", "emit", "exit"}
    BY <2>1
  <2>4. Counted'
    <3>1. CASE t = "main"
      BY <2>1, <2>2, <2>3, <3>1
    <3>2. CASE t = "other"
      BY <2>1, <2>2, <2>3, <3>2
    <3> QED
      BY <3>1, <3>2
  <2>5. posted' \in 0 .. MaxSignals
    BY <2>1, <2>2, <2>3
  <2> QED
    BY <2>1, <2>2, <2>4, <2>5
<1>2. ASSUME NEW t \in Threads, EmitThroughNull(t) PROVE TypeInv'
  BY <1>2 DEF EmitThroughNull
<1>3. ASSUME NEW t \in Threads, RequestExit(t) PROVE TypeInv'
  BY <1>3 DEF RequestExit
<1>4. ASSUME NEW signal \in Signals, NEW t \in Threads, Deliver(signal, t)
      PROVE  TypeInv'
  BY <1>4 DEF Deliver
<1> QED
  BY <1>1, <1>2, <1>3, <1>4 DEF HandlerStep

LEMMA NextTypeInv == TypeInv /\ [Next]_vars => TypeInv'
<1>1. TypeInv /\ UNCHANGED vars => TypeInv'
  BY DEF vars, TypeInv, TypeOK, Counted, Emits, Handles
<1> QED
  BY <1>1, MainTypeInv, SignalTypeInv DEF Next

(* Each variable of the process stays of its type, and no more closeServer *)
(* calls are queued than signals were sent.                                *)
THEOREM LifecycleTypeCorrect == Spec => []TypeOK
<1>1. TypeInv => TypeOK
  BY DEF TypeInv
<1> QED
  BY <1>1, InitInv, NextTypeInv, PTL DEF Spec

-----------------------------------------------------------------------------
LEMMA NextClosing == TypeInv /\ Closing /\ [Next]_vars => Closing'
<1> SUFFICES ASSUME TypeInv, Closing, [Next]_vars PROVE Closing'
  OBVIOUS
<1> USE DEF TypeInv, TypeOK, Closing, Closed, MainAt, mainVars
<1>1. CASE RegisterSigterm \/ RegisterSigill
  BY <1>1 DEF RegisterSigterm, RegisterSigill, Register
<1>2. CASE ParseArguments \/ CreateApplication \/ InitLog
  BY <1>2 DEF ParseArguments, CreateApplication, InitLog
<1>3. CASE ConstructServer \/ AssignServer \/ EnterLoop
  BY <1>3 DEF ConstructServer, AssignServer, EnterLoop
<1>4. CASE StartCommand \/ LeaveLoop
  BY <1>4 DEF StartCommand, LeaveLoop
<1>5. CASE RunPosted
  BY <1>5 DEF RunPosted, Waiting
<1>6. ASSUME NEW t \in Threads, EmitClose(t) PROVE Closing'
  BY <1>6 DEF EmitClose, CloseServer, Threads
<1>7. ASSUME NEW t \in Threads, EmitThroughNull(t) PROVE Closing'
  BY <1>7 DEF EmitThroughNull
<1>8. ASSUME NEW t \in Threads, RequestExit(t) PROVE Closing'
  BY <1>8 DEF RequestExit
<1>9. ASSUME NEW signal \in Signals, NEW t \in Threads, Deliver(signal, t)
      PROVE  Closing'
  BY <1>9 DEF Deliver
<1>10. CASE UNCHANGED vars
  BY <1>10 DEF vars
<1> QED
  BY <1>1, <1>2, <1>3, <1>4, <1>5, <1>6, <1>7, <1>8, <1>9, <1>10
     DEF Next, MainStep, HandlerStep

(* Once close_handle has run, in whatever thread and however many signals  *)
(* interrupt whom, the node takes no manager that the queued closeServer   *)
(* will not cut off.                                                       *)
THEOREM LifecycleDeaf == Spec => []DeafAfterSignal
<1>1. Closing => DeafAfterSignal
  BY DEF Closing, Closed, DeafAfterSignal
<1> QED
  BY <1>1, InitInv, NextTypeInv, NextClosing, PTL DEF Spec

-----------------------------------------------------------------------------
(* Program: every step of main is one of the life of the process or of the *)
(* loop, both, or neither, so what holds of each holds of the whole.       *)

LEMMA StepIsBoth == [ProgramNext]_allVars => [Next]_vars /\ [LineNext]_lineVars
<1> SUFFICES ASSUME [ProgramNext]_allVars PROVE [Next]_vars /\ [LineNext]_lineVars
  OBVIOUS
<1>1. CASE ParseStep
  BY <1>1 DEF ParseStep, LineNext
<1>2. CASE ParseResult
  BY <1>2 DEF ParseResult, Next, MainStep
<1>3. CASE StartListen
  <2>1. Listen \/ UNCHANGED lineVars BY <1>3 DEF StartListen
  <2> QED BY <1>3, <2>1 DEF StartListen, Next, MainStep, LineNext
<1>4. CASE /\ \/ RegisterSigterm \/ RegisterSigill \/ CreateApplication \/ InitLog
              \/ AssignServer \/ EnterLoop \/ RunPosted \/ LeaveLoop
           /\ UNCHANGED lineVars
  BY <1>4 DEF Next, MainStep
<1>5. CASE HandlerGoesOn
  BY <1>5 DEF HandlerGoesOn, Next
<1>6. CASE /\ StartCommand \/ \E signal \in Signals, t \in Threads : Deliver(signal, t)
           /\ UNCHANGED lineVars
  BY <1>6 DEF Next
<1>7. CASE UNCHANGED allVars
  BY <1>7 DEF allVars
<1> QED
  BY <1>1, <1>2, <1>3, <1>4, <1>5, <1>6, <1>7 DEF ProgramNext, MainGoesOn

(* main implements both of its parts.                                      *)
THEOREM ProgramIsBoth == ProgramSpec => Spec /\ LineSpec
<1>1. ProgramInit => Init /\ LineInit
  BY DEF ProgramInit
<1> QED
  BY <1>1, StepIsBoth, PTL DEF ProgramSpec, Spec, LineSpec

(* In the whole of main, with signals between any two arguments, the       *)
(* arguments mean what they are declared to.                               *)
THEOREM ProgramOutcome == ProgramSpec => []OutcomeAsDeclared
BY ProgramIsBoth, CommandLineAsDeclared, PTL

(* In the whole of main, too, a handler that has run leaves a server that  *)
(* is closed or about to be.                                               *)
THEOREM ProgramDeaf == ProgramSpec => []DeafAfterSignal
BY ProgramIsBoth, LifecycleDeaf, PTL
=============================================================================
