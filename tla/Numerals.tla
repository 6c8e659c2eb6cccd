-------------------------------- MODULE Numerals --------------------------------
(***************************************************************************)
(* $formatInteger and $parseInteger of functions/string_format_integer.go. *)
(*                                                                         *)
(* A picture is its format token, as symbols, and whether it asks for an   *)
(* ordinal.  What is formatted is a sequence of symbols too: words are the *)
(* numbers they name, letters of a Roman numeral the numbers they stand    *)
(* for, those of a digit picture a symbol and its digit.  Case, spaces and *)
(* the hyphens and commas between words are left out: parsing drops them.  *)
(***************************************************************************)
EXTENDS Integers, Sequences, SequencesExt, FiniteSetsExt

CONSTANTS
    Scales,     \* the words for powers of a thousand, the largest first
    Letters     \* how many there are

ASSUME ScalesAssumption ==
    /\ Scales \in Seq(Nat) /\ Scales # <<>> /\ Last(Scales) = 1000
    /\ \A i \in 1 .. Len(Scales) - 1 : Scales[i] = 1000 * Scales[i + 1]
ASSUME LettersAssumption == Letters \in Nat \ {0}

And == -1
Formatted(symbols) == [err |-> "", symbols |-> symbols, sign |-> "", ordinal |-> FALSE]
NotFormatted(err) == [Formatted(<<>>) EXCEPT !.err = err]
Parsed(n) == [err |-> "", n |-> n]
NotParsed(err) == [err |-> err, n |-> 0]

\* the first value that fits in n, of values that fall
FirstFit(values, n) == CHOOSE i \in DOMAIN values : values[i] <= n /\ \A j \in 1 .. i - 1 : values[j] > n

\* a parser's loop over a text: step gives what is read after one more symbol
ReadAll(step, start, text) == FoldLeft(LAMBDA acc, symbol : step[acc][symbol], start, text)

-----------------------------------------------------------------------------
(* Words.                                                                  *)

BelowHundred(n) ==
    CASE n = 0 -> <<>> [] n \in 1 .. 20 -> <<n>>
      [] OTHER -> <<10 * (n \div 10)>> \o (IF n % 10 = 0 THEN <<>> ELSE <<n % 10>>)
BelowThousand(n) ==
    IF n < 100 THEN BelowHundred(n)
    ELSE <<n \div 100, 100>> \o (IF n % 100 = 0 THEN <<>> ELSE <<And>> \o BelowHundred(n % 100))

ToWords[n \in Nat] ==
    LET scale == Scales[FirstFit(Scales, n)]
        rest == n % scale
    IN  IF n < 1000 THEN BelowThousand(n)
        ELSE ToWords[n \div scale] \o <<scale>> \o (IF rest \in 1 .. 99 THEN <<And>> ELSE <<>>) \o ToWords[rest]

\* intToWords
IntToWords(n) == IF n = 0 THEN <<0>> ELSE ToWords[n]

\* deOrdinalise knows every word's ordinal, zeroth's too
Irregular == 0 .. 20 \cup {10 * k : k \in 3 .. 10} \cup ToSet(Scales)

\* a bug: a scale multiplies all that was read before it
ScaleAll(acc, scale) == [total |-> (acc.total + acc.current) * scale, current |-> 0]

\* a scale multiplies the number before it, or all of them if it follows a scale
Scale(acc, scale) ==
    IF acc.current # 0 THEN [total |-> acc.total + acc.current * scale, current |-> 0]
    ELSE [acc EXCEPT !.total = (IF @ = 0 THEN 1 ELSE @) * scale]

\* wordsToFloat
Counts == [total : Int, current : Int]
Word == [acc \in Counts |-> [w \in Int |->
    CASE w = And -> acc
      [] w = 100 -> [acc EXCEPT !.current = (IF @ = 0 THEN 1 ELSE @) * 100]
      [] w >= 1000 -> Scale(acc, w)
      [] OTHER -> [acc EXCEPT !.current = @ + w]]]
WordsToInt(words) ==
    LET read == ReadAll(Word, [total |-> 0, current |-> 0], words)
    IN  read.total + read.current
ParseWords(text) ==
    IF text.ordinal /\ Last(text.symbols) \notin Irregular THEN NotParsed("D3137")
    ELSE Parsed(WordsToInt(text.symbols))

-----------------------------------------------------------------------------
(* Roman numerals and letters.                                             *)

Romans == <<<<1000>>, <<100, 1000>>, <<500>>, <<100, 500>>, <<100>>, <<10, 100>>, <<50>>, <<10, 50>>,
            <<10>>, <<1, 10>>, <<5>>, <<1, 5>>, <<1>>>>
RomanValue(letters) == IF Len(letters) = 1 THEN letters[1] ELSE letters[2] - letters[1]

ToRoman[n \in Nat] ==
    LET fit == Romans[FirstFit([i \in DOMAIN Romans |-> RomanValue(Romans[i])], n)]
    IN  IF n = 0 THEN <<>> ELSE fit \o ToRoman[n - RomanValue(fit)]

\* each letter with the one after it
Neighbours(letters) ==
    [i \in DOMAIN letters |-> <<letters[i], IF i < Len(letters) THEN letters[i + 1] ELSE 0>>]
RomanLetter == [acc \in Int |-> [l \in Int \X Int |-> IF l[2] > l[1] THEN acc - l[1] ELSE acc + l[1]]]
FromRoman(letters) == ReadAll(RomanLetter, 0, Neighbours(letters))

ToAlphabetic[n \in Nat] ==
    IF n = 0 THEN <<>> ELSE ToAlphabetic[(n - 1) \div Letters] \o <<(n - 1) % Letters>>
Letter == [acc \in Int |-> [l \in Int |-> acc * Letters + l + 1]]
FromAlphabetic(letters) == ReadAll(Letter, 0, letters)

-----------------------------------------------------------------------------
(* Digits.                                                                 *)

Families == {"0", "z"}      \* the zero digits: ASCII, and of another family
Digits(picture) == {i \in DOMAIN picture : picture[i] \in Families}
Places(picture) == {i \in DOMAIN picture : picture[i] \in Families \cup {"#"}}

\* how many digits are right of a place, and the separators left of some
After(picture, i) == Cardinality({p \in Places(picture) : p > i})
Separators(picture) == {i \in DOMAIN picture \ Places(picture) : After(picture, i) > 0}

\* applyIntegerGrouping: all alike and evenly apart, they go on to the left
Repeats(picture) ==
    LET seps == Separators(picture)
    IN  /\ Cardinality({picture[i] : i \in seps}) = 1
        /\ \A i \in seps \ {Max(seps)} :
              After(picture, i) - After(picture, Min({j \in seps : j > i})) = After(picture, Max(seps))
SeparatorAt(picture, at) ==
    LET seps == Separators(picture)
        own == {i \in seps : After(picture, i) = at}
    IN  CASE own # {} -> <<<<picture[Min(own)], 0>>>>
          [] own = {} /\ Repeats(picture) /\ at % After(picture, Max(seps)) = 0 -> <<<<picture[Max(seps)], 0>>>>
          [] OTHER -> <<>>
Grouped(digits, family, picture) ==
    LET size == Len(digits)
        grouped[i \in 0 .. size] ==
            IF i = 0 THEN <<>>
            ELSE grouped[i - 1] \o (IF i = 1 THEN <<>> ELSE SeparatorAt(picture, size - i + 1))
                    \o <<<<family, digits[i]>>>>
    IN  grouped[size]

Decimal[n \in Nat] == IF n < 10 THEN <<n>> ELSE Decimal[n \div 10] \o <<n % 10>>

\* formatIntegerDecimal
FormatDecimal(n, picture) ==
    LET missing == Max({0, Cardinality(Digits(picture)) - Len(Decimal[n])})
        padded == [i \in 1 .. missing |-> 0] \o Decimal[n]
    IN  IF Cardinality({picture[i] : i \in Digits(picture)}) > 1 THEN NotFormatted("D3131")
        ELSE Formatted(Grouped(padded, picture[Min(Digits(picture))], picture))

\* the digits of a text that are of the picture's last family, or ASCII
Digit(families) ==
    [acc \in Int |-> [c \in STRING \X Int |-> IF c[1] \in families THEN acc * 10 + c[2] ELSE acc]]
ParseDecimal(text, picture) ==
    LET families == {"0", picture[Max(Digits(picture))]}
        n == ReadAll(Digit(families), 0, text.symbols)
        symbols == {c[1] : c \in ToSet(text.symbols)}
    IN  IF "-" \in symbols \/ symbols \cap families = {} THEN NotParsed("D3137")
        ELSE Parsed(IF text.sign = "-" THEN -n ELSE n)

-----------------------------------------------------------------------------
\* formatIntegerWithPicture
FormatInteger(n, picture, ordinal) ==
    LET size == IF n < 0 THEN -n ELSE n
        Signed(text) ==
            [text EXCEPT !.sign = IF n < 0 THEN "-" ELSE "",
                         !.ordinal = ordinal /\ picture \notin {<<"i">>, <<"a">>}]
    IN  CASE picture = <<"w">> -> Signed(Formatted(IntToWords(size)))
          [] picture = <<"i">> -> Signed(Formatted(ToRoman[size]))
          [] picture = <<"a">> -> Signed(Formatted(ToAlphabetic[size]))
          [] picture \notin {<<"w">>, <<"i">>, <<"a">>} /\ Digits(picture) = {} -> NotFormatted("D3130")
          [] OTHER -> Signed(FormatDecimal(size, picture))

\* parseIntegerWithPicture: a sign is a letter no numeral has, and a hyphen
\* between words
ParseInteger(text, picture) ==
    CASE picture = <<"w">> -> ParseWords(text)
      [] picture = <<"i">> -> IF text.sign = "-" THEN NotParsed("D3137") ELSE Parsed(FromRoman(text.symbols))
      [] picture = <<"a">> -> IF text.sign = "-" THEN NotParsed("D3137") ELSE Parsed(FromAlphabetic(text.symbols))
      [] picture \notin {<<"w">>, <<"i">>, <<"a">>} /\ Digits(picture) = {} -> NotParsed("D3130")
      [] OTHER -> ParseDecimal(text, picture)
=============================================================================
