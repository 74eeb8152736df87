----------------------------- MODULE FileNames -----------------------------
(***************************************************************************)
(* How spdlog takes file names apart: split_by_extension, dir_name and     *)
(* the names of rotated files.  A name is a sequence of characters of      *)
(* which only the separator and the dot matter; positions count from 1.    *)
(***************************************************************************)
EXTENDS Naturals, Sequences, FiniteSetsExt

CONSTANTS Letter, Dot, Slash, Digit, MaxLength

VARIABLE name

(* rfind, find_last_of: the last position of c, 0 if there is none.        *)
LastOf(c, s) == Max({0} \cup {i \in DOMAIN s : s[i] = c})

-----------------------------------------------------------------------------
NoExtension(s, ext) ==
  LET folder == LastOf(Slash, s)
  IN ext \in {0, 1, Len(s)} \/ (folder # 0 /\ folder >= ext - 1)

SplitByExtension(s) ==
  LET ext == LastOf(Dot, s)
  IN IF NoExtension(s, ext) THEN <<s, <<>>>>
     ELSE <<SubSeq(s, 1, ext - 1), SubSeq(s, ext, Len(s))>>

DirName(s) == LET pos == LastOf(Slash, s) IN IF pos = 0 THEN <<>> ELSE SubSeq(s, 1, pos - 1)

(* calc_filename; the index is its digits, <<>> for 0.                   *)
Numbered(s, index) ==
  LET parts == SplitByExtension(s)
  IN IF index = <<>> THEN s ELSE parts[1] \o <<Dot>> \o index \o parts[2]

-----------------------------------------------------------------------------
Init == name = <<>>
Next == Len(name) < MaxLength /\ \E c \in {Letter, Dot, Slash, Digit} : name' = Append(name, c)
Spec == Init /\ [][Next]_name

(* What the file is called inside its folder.                              *)
Component == SubSeq(name, LastOf(Slash, name) + 1, Len(name))

(* The comment of split_by_extension as a definition: the extension starts *)
(* at the last dot of the last component, which may not be hidden by it.   *)
SplitAsDocumented ==
  LET dot == LastOf(Dot, Component)
      base == IF dot \in {0, 1, Len(Component)} THEN Component ELSE SubSeq(Component, 1, dot - 1)
  IN /\ SplitByExtension(name)[1] \o SplitByExtension(name)[2] = name
     /\ Len(SplitByExtension(name)[2]) = Len(Component) - Len(base)

(* Rotation keeps the files of one log in its folder and gives them names  *)
(* of their own, with the same extension if the log has one.               *)
RotationStaysInFolder ==
  LET first == Numbered(name, <<Digit>>)
      second == Numbered(name, <<Digit, Digit>>)
  IN Component # <<>> =>
       /\ DirName(first) = DirName(name) /\ DirName(second) = DirName(name)
       /\ name \notin {first, second} /\ first # second
       /\ SplitByExtension(first)[2] = SplitByExtension(name)[2] \/ SplitByExtension(name)[2] = <<>>
=============================================================================
