--------------------------------- MODULE Tasks ---------------------------------
(***************************************************************************)
(* The work of an algorithm that keeps no state between calls: an input    *)
(* that grows a symbol at a time, and what the code makes of it.           *)
(***************************************************************************)
EXTENDS Integers, Sequences

CONSTANTS
    Alphabets   \* records: a kind of work, the symbols its input may have, the most of
                \* them, and the values and the most of those that it is given

ASSUME AlphabetsAssumption == \A a \in Alphabets : a.most \in Nat

VARIABLES
    task,       \* the work: its kind and its input
    result      \* what the code makes of it

Begin(alphabet) == task = [alphabet |-> alphabet, src |-> <<>>, args |-> <<>>]
=============================================================================
