---------------------------- MODULE IntegerPictures ----------------------------
(***************************************************************************)
(* $formatInteger with every short picture: the picture grows a symbol at  *)
(* a time, and then a number is written with it.                           *)
(***************************************************************************)
EXTENDS Numerals, Tasks

ASSUME PictureAssumption ==
    \A a \in Alphabets : a.kind = "picture" => a.symbols \subseteq STRING /\ a.values \subseteq Int

\* the format token, and whether its modifier asks for an ordinal
Ordinal == task.src # <<>> /\ Last(task.src) = ";o"
Picture == IF Ordinal THEN Front(task.src) ELSE task.src

BeginPicture(alphabet) ==
    /\ alphabet.kind = "picture"
    /\ Begin(alphabet)
    /\ result = NotFormatted("D3130")

ReadPicture ==
    /\ task.alphabet.kind = "picture" /\ Len(task.src) < task.alphabet.most
    /\ task.args = <<>> /\ ~Ordinal
    /\ \E s \in task.alphabet.symbols : task' = [task EXCEPT !.src = Append(@, s)]
    /\ UNCHANGED result

FormatNumber ==
    /\ task.alphabet.kind = "picture" /\ task.args = <<>>
    /\ \E n \in task.alphabet.values :
        /\ task' = [task EXCEPT !.args = <<n>>]
        /\ result' = FormatInteger(n, Picture, Ordinal)

PictureSpec ==
    /\ \E a \in Alphabets : BeginPicture(a)
    /\ [][ReadPicture \/ FormatNumber]_<<task, result>>

-----------------------------------------------------------------------------
\* $parseInteger reads back what $formatInteger wrote with the same picture, cardinal
\* or ordinal, in words, letters, Roman numerals or grouped digits.  Words are read
\* back below a thousand of the largest scale; a sign is, in digits only, where a
\* hyphen that separates groups would be read as one.
IntegersReadBack ==
    task.alphabet.kind = "picture" /\ result.err = "" /\ task.args # <<>> =>
        LET n == task.args[1]
        IN  /\ n >= 0 \/ Digits(Picture) # {}
            /\ n < 1000 * Scales[1] \/ Picture # <<"w">>
            /\ "-" \notin ToSet(Picture)
            => ParseInteger(result, Picture) = Parsed(n)
=============================================================================
