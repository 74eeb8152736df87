----------------------------- MODULE MCLogSinks -----------------------------
EXTENDS LogSinks

(* Two loggers of different names; levels by name that are set or not.     *)
MCNameOf == [l \in Loggers |-> IF l = "d" THEN "" ELSE "x"]
MCTables == [Names -> ConfigLevels \cup {None}]

(* Two sinks, as the node's console and file, the first less talkative;    *)
(* debug messages are traced only, info is flushed at once.                *)
MCSinks == <<"console", "file">>
MCSinkLevel == [s \in {"console", "file"} |-> IF s = "console" THEN 1 ELSE 0]
MCConfigured == {<<1, 1>>}

(* Two children, one of which takes warnings only.                         *)
MCChildLevel == [s \in {"k", "j"} |-> IF s = "k" THEN 0 ELSE 2]
MCOrders == {<<"k", "j">>, <<>>}

(* Messages of one, two and four bytes in turn, against a limit of three.  *)
MCSizeOf == [m \in 1 .. FileMessages |-> CASE m % 4 = 0 -> 4 [] m % 4 = 2 -> 2 [] OTHER -> 1]

(* A logger that writes to stdout and then to stderr.                      *)
MCOrder == <<"out", "err">>
=============================================================================
