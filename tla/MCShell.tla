------------------------------ MODULE MCShell -------------------------------
(***************************************************************************)
(* Files and command lines for TLC to run Shell.tla on.                    *)
(***************************************************************************)
EXTENDS Shell

(* f and ./f are one file, g another; D and E are directories.             *)
MCPath   == {"f", "./f", "g", "D", "E", "."}
MCNode   == {"f", "g", "D", "E"}
MCNodeOf == [p \in MCPath \ {"."} |-> IF p = "./f" THEN "f" ELSE p]
MCNameOf == [n \in MCNode |-> n]

Contents == {File(<<>>), File(<<"x">>), File(<<"x", "y">>)}

MCDisks ==
    {[n \in MCNode |-> CASE n = "f" -> f [] n = "g" -> g [] OTHER -> Directory] :
       f \in Contents, g \in Contents \cup {Nothing, File(<<"y", "y">>)}}

Typed(words) == FoldLeft(LAMBDA s, w : s \o <<Blank, w>>, <<>>, words)

FileLines ==
    {Typed(<<cmd, "f", q>>) : cmd \in {"cp", "diff"}, q \in {"f", "./f", "g", "D"}}
      \cup {Typed(<<cmd, "D", "g">>) : cmd \in {"cp", "diff"}}
      \cup {Typed(<<"diff", "D", "E">>)}
      \cup {Typed(<<"cd", p>>) : p \in {"D", "E", "f", ".", "-"}}

(* Every short line of a program, kill, blanks and &s, and some long ones. *)
Symbol == {"run", "kill", Blank, Amp}

ShortLines == UNION {[1 .. n -> Symbol] : n \in 0 .. 4}

LongLines ==
    {Typed([i \in 1 .. n |-> "run"]) : n \in 1 .. MAX_ARG + 1}
      \cup {Typed(<<"run", "&", "jobs", "&", "quit", "kill">>),
            Typed(<<"run", "&", "cd", "D", "&", "run", "run">>),
            Typed(<<"jobs">>), Typed(<<"quit">>), Typed(<<"quit", "run">>), Typed(<<"cp", "f">>)}

Parsed == ShortLines \cup LongLines

(* A user types one line that only concerns the parser, or a sequence of   *)
(* commands on files.                                                      *)
MCLines ==
    [u \in Parsed \cup {<<"files">>} |->
        IF u = <<"files">> THEN FileLines ELSE {u}]

(* The files do not matter to the parser.                                  *)
MCInit ==
    /\ Init
    /\ user = <<"files">> \/ (disk["f"] = File(<<>>) /\ disk["g"] = Nothing)

MCSpec == MCInit /\ [][Next]_vars /\ WF_vars(RunLine)
=============================================================================
