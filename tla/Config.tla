------------------------------- MODULE Config -------------------------------
(***************************************************************************)
(* The configuration files (ip.cfg, conf/param.conf) as every program      *)
(* reads them: getConfit.cpp.  A line is a sequence of characters; k and v *)
(* stand for any other than the four the code looks for.                   *)
(***************************************************************************)
EXTENDS Integers, Sequences, SequencesExt

CONSTANT MaxLine  \* bound: characters of a line

Chars == {"k", "v", "=", "#", " "}
Lines == BoundedSeq(Chars, MaxLine)

VARIABLES
    line,   \* the line read last
    entry   \* what it sets in the map of ReadConfig: <<key, value>>, or nothing

configVars == <<line, entry>>

Nothing == << >>

\* Position of the first ch, 0 if there is none.
Find(str, ch) == SelectInSeq(str, LAMBDA c : c = ch)

IsSpace(c) == c = " "

\* What is left between the first and the last character that is no space.
Trim(str) ==
    LET text == {i \in DOMAIN str : ~ IsSpace(str[i])} IN
        IF text = {} THEN << >>
        ELSE SubSeq(str, CHOOSE i \in text : \A j \in text : i <= j,
                         CHOOSE i \in text : \A j \in text : j <= i)

Substr(str, pos, n) ==  \* string::substr: a negative count means all the rest
    SubSeq(str, pos + 1, IF n < 0 \/ pos + n > Len(str) THEN Len(str) ELSE pos + n)

\* Index of the last character before a comment (0 is the first one).
EndPos(str) == IF Find(str, "#") = 0 THEN Len(str) - 1 ELSE Find(str, "#") - 2

NotComment(str) == str # << >> /\ Find(str, "#") # 1

\* The line that is searched for '='.  Its length is meant to be end_pos + 1 and
\* is 1 - end_pos: all of the line, or what is left of one or two characters.
NewLine(str) == Substr(str, 0, 1 - EndPos(str))

Key(str) == Trim(SubSeq(NewLine(str), 1, Find(NewLine(str), "=") - 1))

ValueToEnd(str) ==  \* mutant: the comment is not cut off the value
    Trim(Substr(NewLine(str), Find(NewLine(str), "="), -1))

\* The value ends where the comment begins, if it does not begin before.
ValueOf(str) ==
    LET pos == Find(NewLine(str), "=") IN
        Trim(Substr(NewLine(str), pos, EndPos(str) + 1 - pos))

AnalyseLine(str) ==
    NotComment(str) /\ Find(NewLine(str), "=") # 0 /\ Key(str) # << >>

Entry(str) == IF AnalyseLine(str) THEN <<Key(str), ValueOf(str)>> ELSE Nothing

ConfigInit == line = << >> /\ entry = Nothing

\* ReadConfig takes the lines one by one; a later entry replaces an earlier one.
ReadLine ==
    \E str \in Lines : line' = str /\ entry' = Entry(str)

ConfigSpec == ConfigInit /\ [][ReadLine]_configVars

-----------------------------------------------------------------------------
\* The text of a line is what stands before a comment; it sets a key if there is
\* one before '='.
Text(str) == IF Find(str, "#") = 0 THEN str ELSE SubSeq(str, 1, Find(str, "#") - 1)

Meant(str) ==
    LET text == Text(str)  pos == Find(text, "=")
        key == Trim(SubSeq(text, 1, pos - 1))
    IN IF pos = 0 \/ key = << >> THEN Nothing
       ELSE <<key, Trim(SubSeq(text, pos + 1, Len(text)))>>

\* The keys the programs ask for have no '#' and more than one character.
Used(e) == IF e # Nothing /\ ~ Contains(e[1], "#") /\ Len(e[1]) > 1 THEN e ELSE Nothing

\* A line sets what it was meant to set, though the comment is hardly ever
\* removed before the line is analysed, and a text of two characters is lost.
ReadAsMeant == Used(entry) = Used(Meant(line))
=============================================================================
