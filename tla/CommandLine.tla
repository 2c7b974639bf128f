----------------------------- MODULE CommandLine -----------------------------
(***************************************************************************)
(* How smash takes a command line apart: SplitCommand at every &, and      *)
(* parseCommand at blanks (commands.cpp).  A line is a sequence of symbols:*)
(* "&", the blank (space, tab and newline alike), and others, each of      *)
(* which stands for some characters of a word.                             *)
(***************************************************************************)
EXTENDS Integers, Sequences, FiniteSetsExt

CONSTANT MAX_ARG     \* length of the array of arguments

ASSUME CommandLineAssumption == MAX_ARG \in Nat \ {0}

Amp   == "&"
Blank == " "

(* ReturnValue, as the place where the rest of a line begins.              *)
Pass == 0
ERROR_VALUE == -1

(* The first place from i on whose symbol is in the set, or past the end.  *)
FirstOf(symbols, s, i) ==
    Min({j \in i .. Len(s) : s[j] \in symbols} \cup {Len(s) + 1})

Symbols(s) == {s[i] : i \in DOMAIN s}

(* What stands from i to before j, if anything does.                       *)
Piece(s, i, j) == IF i = j THEN <<>> ELSE <<SubSeq(s, i, j - 1)>>

(* SplitCommand: what stands before each &, and where the rest begins.     *)
(* Mutant: a doubled & is not noticed.                                     *)
SplitLoosely(s) ==
    LET from[i \in 1 .. Len(s) + 1] ==
          LET j     == FirstOf({Amp}, s, i)
              later == from[j + 1]
          IN  IF j > Len(s) THEN [pieces |-> <<>>, rest |-> i]
              ELSE [pieces |-> Piece(s, i, j) \o later.pieces, rest |-> later.rest]
    IN  IF Amp \in Symbols(s) THEN from[1] ELSE [pieces |-> <<>>, rest |-> Pass]

Doubled == [pieces |-> <<>>, rest |-> ERROR_VALUE]

SplitCommand(s) ==
    LET from[i \in 1 .. Len(s) + 1] ==
          LET j     == FirstOf({Amp}, s, i)
              later == from[j + 1]
          IN  IF j > Len(s) THEN [pieces |-> <<>>, rest |-> i]
              ELSE IF (j < Len(s) /\ s[j + 1] = Amp) \/ later = Doubled THEN Doubled
              ELSE [pieces |-> Piece(s, i, j) \o later.pieces, rest |-> later.rest]
    IN  IF Amp \in Symbols(s) THEN from[1] ELSE [pieces |-> <<>>, rest |-> Pass]

(* The calls of strtok: the words of a line, in order.                     *)
WordsOf(s) ==
    LET from[i \in 1 .. Len(s) + 1] ==
          LET k == FirstOf(Symbols(s) \ {Blank}, s, i)
              e == FirstOf({Blank}, s, k)
          IN  IF k > Len(s) THEN <<>> ELSE <<SubSeq(s, k, e - 1)>> \o from[e]
    IN  from[1]

(* parseCommand: args[0] is the first word.  A NULL follows the words only *)
(* if the array has room for one; words that find no room are dropped.     *)
parseCommand(s) ==
    LET words == WordsOf(s) IN
    [args    |-> SubSeq(words, 1, Min({Len(words), MAX_ARG})),
     num_arg |-> Min({Len(words), MAX_ARG}) - 1,
     ended   |-> Len(words) < MAX_ARG]
=============================================================================
