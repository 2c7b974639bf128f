------------------------------- MODULE MCBank -------------------------------
(***************************************************************************)
(* Input files for TLC to run Bank.tla on.                                 *)
(***************************************************************************)
EXTENDS Bank

CONSTANTS a1, a2

L(op, words, id, pw, amount, to) ==
    [op |-> op, words |-> words, id |-> id, pw |-> pw, amount |-> amount, to |-> to]

O(id, amount) == L("O", 4, id, 7, amount, 0)
D(id, amount) == L("D", 4, id, 7, amount, 0)
W(id, amount) == L("W", 4, id, 7, amount, 0)
B(id)         == L("B", 3, id, 7, 0, 0)
Q(id)         == L("Q", 3, id, 7, 0, 0)
T(id, to, amount) == L("T", 5, id, 7, amount, to)

Files(x, y) == [t \in ATM |-> IF t = a1 THEN x ELSE y]

(* Input files whose transactions compete for one balance or one number.   *)
RaceScripts ==
    {Files(<<O(1, 25), D(1, 1)>>, <<W(1, 25)>>),         \* update against update
     Files(<<O(1, 25), O(2, 26)>>, <<W(1, 20), Q(1)>>),   \* a round that fails
     Files(<<O(1, 1), O(1, 25)>>, <<O(1, 1), D(1, 1)>>),   \* opened twice
     Files(<<O(1, 25), Q(1)>>, <<O(2, 1), D(2, 25)>>),     \* positions that move
     Files(<<O(1, 25), D(1, 20), D(1, 1)>>, <<>>)}         \* more than fits a uint

(* Lines that HandleLine drops or refuses, or that fail inside the lock.   *)
WrongLines ==
    {L("D", 2, 1, 7, 1, 0), L("D", 3, 1, 7, 1, 0), L("?", 3, 1, 7, 0, 0),
     L("O", 4, -1, 7, 1, 0), L("B", 3, 1, 10000, 0, 0), L("W", 4, 1, 7, -1, 0),
     L("D", 4, 1, 8, 1, 0), L("B", 3, 2, 7, 0, 0), W(1, 20),
     T(2, 1, 1), T(1, 2, 1), L("T", 5, 1, 8, 1, 1), T(1, 1, 20)}

WrongScripts == {Files(<<O(1, 1), line>>, <<B(1)>>) : line \in WrongLines}

(* Only operations that change the list as writers, and inquiries.         *)
LedgerScripts ==
    {Files(<<O(1, 25), T(1, 2, 20)>>, <<O(2, 1), Q(1)>>),
     Files(<<O(1, 25), O(2, 1), T(2, 1, 1)>>, <<Q(2), B(1)>>)}

AllScripts == RaceScripts \cup WrongScripts

(* States after a lost update are not explored further. *)
Bound == ~lost
=============================================================================
