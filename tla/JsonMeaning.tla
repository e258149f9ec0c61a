------------------------------ MODULE JsonMeaning ------------------------------
(***************************************************************************)
(* What a string or a number of a JSON text means, without the loops of    *)
(* JsonText: the table of well-formed UTF-8 of the Unicode standard, what  *)
(* a character of a string may be written as, and the grammar of numbers   *)
(* of RFC 8259.  A part of a text is given by where it starts and by the   *)
(* place after it.                                                         *)
(***************************************************************************)
EXTENDS JsonText

Part(s, i, j) == SubSeq(s, i, j - 1)

C == 128..191
WellFormed ==
    {<<0..127>>, <<194..223, C>>, <<{224}, 160..191, C>>, <<225..236 \cup 238..239, C, C>>,
     <<{237}, 128..159, C>>, <<{240}, 144..191, C, C>>, <<241..243, C, C, C>>, <<{244}, 128..143, C, C>>}
IsCharacter(u) == \E row \in WellFormed : Len(row) = Len(u) /\ \A i \in DOMAIN u : u[i] \in row[i]
PointOf(u) ==
    CASE Len(u) = 1 -> u[1]
      [] Len(u) = 2 -> 64 * (u[1] % 32) + (u[2] % 64)
      [] Len(u) = 3 -> 4096 * (u[1] % 16) + 64 * (u[2] % 64) + (u[3] % 64)
      [] Len(u) = 4 -> 262144 * (u[1] % 8) + 4096 * (u[2] % 64) + 64 * (u[3] % 64) + (u[4] % 64)

HexDigits == 48..57 \cup 65..70 \cup 97..102
HexOf(b)  == IF b <= 57 THEN b - 48 ELSE (b % 32) + 9
IsUnit(u) == Len(u) = 6 /\ u[1] = 92 /\ u[2] = 117 /\ \A i \in 3..6 : u[i] \in HexDigits
UnitOf(u) == 4096 * HexOf(u[3]) + 256 * HexOf(u[4]) + 16 * HexOf(u[5]) + HexOf(u[6])
Lead      == 55296..56319
Trail     == 56320..57343
Named     == {<<34, 34>>, <<92, 92>>, <<47, 47>>, <<98, 8>>, <<102, 12>>, <<110, 10>>, <<114, 13>>, <<116, 9>>}

\* The scalar value that the escape u stands for: a set of one, or empty.
Scalars(u) ==
    IF Len(u) = 2 /\ u[1] = 92 THEN {pair[2] : pair \in {pair \in Named : pair[1] = u[2]}}
    ELSE IF IsUnit(u) THEN {UnitOf(u)} \ (Lead \cup Trail)
    ELSE IF Len(u) = 12 /\ IsUnit(Part(u, 1, 7)) /\ IsUnit(Part(u, 7, 13))
    THEN {65536 + 1024 * (h - 55296) + (l - 56320) :
             h \in Lead \cap {UnitOf(Part(u, 1, 7))}, l \in Trail \cap {UnitOf(Part(u, 7, 13))}}
    ELSE {}

\* What u stands for between the quotes: a byte for itself, an escape for the
\* character of its scalar value, which append_utf8 has to make.
Encodes(c, w) == IsCharacter(w) /\ PointOf(w) = c
Spelt(u) ==
    IF Len(u) = 1 /\ u[1] \notin 0..31 \cup {34, 92} THEN {u}
    ELSE {append_utf8(c) : c \in {c \in Scalars(u) : Encodes(c, append_utf8(c))}}

\* The strings that s spells between its first byte and its last.
Spelled(s) ==
    LET S[i \in 2..Len(s)] ==
          IF i = Len(s) THEN {<<>>}
          ELSE UNION {{u \o v : u \in Spelt(Part(s, i, j)), v \in S[j]} :
                         j \in {j \in (i + 1)..Len(s) : Spelt(Part(s, i, j)) # {}}}
    IN  S[2]

\* One well-formed character after the other.
IsText(s) ==
    LET T[i \in 1..(Len(s) + 1)] ==
          i = Len(s) + 1 \/ \E j \in (i + 1)..(Len(s) + 1) : IsCharacter(Part(s, i, j)) /\ T[j]
    IN  T[1]

IsQuoted(s)  == Len(s) >= 2 /\ s[1] = 34 /\ s[Len(s)] = 34
StringsOf(s) ==
    IF ~IsQuoted(s) \/ (wanted = "string_view" /\ \E i \in DOMAIN s : s[i] = 92) THEN {}
    ELSE {v \in Spelled(s) : Len(v) <= MaximumString /\ IsText(v)}

Figures(s, i, j)    == i < j /\ \A k \in i..(j - 1) : s[k] \in 48..57
IsInteger(s, i, j)  == Figures(s, i, j) /\ (s[i] = 48 => j = i + 1)
IsFraction(s, i, j) == i = j \/ (s[i] = 46 /\ Figures(s, i + 1, j))
IsExponent(s, i, j) ==
    \/ i = j
    \/ s[i] \in {69, 101} /\ (Figures(s, i + 1, j) \/ (Figures(s, i + 2, j) /\ s[i + 1] \in {43, 45}))
Sign(s)             == IF s # <<>> /\ s[1] = 45 THEN -1 ELSE 1
AfterSign(s)        == IF Sign(s) = -1 THEN 2 ELSE 1

\* A fraction from i to j, and an exponent after it.
IsNumber(s, i, j) ==
    /\ IsInteger(s, AfterSign(s), i)
    /\ i <= j /\ IsFraction(s, i, j)
    /\ IsExponent(s, j, Len(s) + 1)

\* All its digits as one integer, and the power of ten that goes with it.
FiguresOf(s, i, j) == Decimal(Part(s, AfterSign(s), i) \o Part(s, i + 1, j))
ExponentOf(s, j)   ==
    IF j = Len(s) + 1 THEN 0
    ELSE IF s[j + 1] = 45 THEN -Decimal(Part(s, j + 2, Len(s) + 1))
    ELSE IF s[j + 1] = 43 THEN Decimal(Part(s, j + 2, Len(s) + 1))
    ELSE Decimal(Part(s, j + 1, Len(s) + 1))
PowerOf(s, i, j)   == ExponentOf(s, j) - (IF i = j THEN 0 ELSE j - i - 1)

\* A number in the range of a double keeps its text.
NumbersOf(s) ==
    {t \in {s} : \E i, j \in 1..(Len(s) + 1) : IsNumber(s, i, j) /\ Held(FiguresOf(s, i, j), PowerOf(s, i, j))}

\* An integer its type can hold; an unsigned one has no sign.
IntegersOf(s) ==
    IF ~IsInteger(s, AfterSign(s), Len(s) + 1) \/ (wanted = "unsigned" /\ Sign(s) = -1) THEN {}
    ELSE {Sign(s) * Decimal(Part(s, AfterSign(s), Len(s) + 1))} \cap Representable

\* A field of a string or number type takes the whole of a text exactly when the
\* text is such a string or number: well-formed UTF-8 once unescaped, no longer
\* than its limit, without escapes if it is a view; a number of the grammar in the
\* range of a double, an integer its type can hold.  The value is the string, or the
\* integer, that the text spells.
TextMeans ==
    verdict # "reading" /\ rule.kind = "none" =>
        LET meanings == CASE wanted \in StringLike -> StringsOf(bytes)
                          [] wanted = "double"     -> NumbersOf(bytes)
                          [] OTHER                 -> IntegersOf(bytes)
        IN  /\ Whole <=> meanings # {}
            /\ Whole => meanings = {parsed}

=============================================================================
