---------------------------------- MODULE IniFile ----------------------------------
(***************************************************************************)
(* IniFileReader::parse (src/inifilereader.cpp): the configuration of a    *)
(* file, line by line.  Pure operators.  A line is a sequence of           *)
(* characters, a configuration a function from <<section, key>> to values, *)
(* all of them sequences of characters; "NUL" is the end of a string.      *)
(***************************************************************************)
EXTENDS Integers, Sequences, SequencesExt, Lists

Blanks == {" ", "\t"}
NothingRead == [section |-> <<"DEFAULT">>, config |-> <<>>]

(* The character at index i; behind the end of the string there may be      *)
(* anything, here g.                                                        *)
CharAt(line, i, g) ==
  IF i <= Len(line) THEN line[i] ELSE IF i = Len(line) + 1 THEN "NUL" ELSE g

(* "defines symbol with which string is started" *)
FirstOf(line) == SelectInSeq(line, LAMBDA c : c \notin Blanks)

(* The index of the first character from i on that is one of `ends`, or of  *)
(* the end.                                                                 *)
Until(line, i, ends) ==
  LET at == {j \in i..Len(line) : line[j] \in ends}
  IN  IF at = {} THEN Len(line) + 1 ELSE CHOOSE j \in at : \A k \in at : j <= k

(* "string is started with [" *)
Section(line, s) == SubSeq(line, s + 1, Until(line, s + 1, {"]", "\r"}) - 1)

(* The key takes its first character whatever it is.                        *)
KeyOf(line, s) ==
  Without(Blanks \cup {"\r"},
          <<CharAt(line, s, "NUL")>> \o SubSeq(line, s + 1, Until(line, s + 1, {"="}) - 1))

(* The value goes to a comment.  Mutant: a semicolon does not begin one.    *)
EndsValue_Hash == {"#"}
EndsValue == {"#", ";"}
ValueOf(line, from, g) ==
  LET first == CharAt(line, from, g)
  IN  IF first \in EndsValue THEN <<>>
      ELSE Without(Blanks \cup {"=", "\r"},
                   <<first>> \o SubSeq(line, from + 1, Until(line, from + 1, EndsValue) - 1))

(* One line, r being what is read so far.  A line without any character but *)
(* blanks is read behind its end.                                           *)
ParseLine(r, line, g) ==
  LET first == FirstOf(line)
      s == IF first = 0 THEN Len(line) + 1 ELSE first
      key == KeyOf(line, s)
      value == ValueOf(line, IF s > Len(line) THEN s + 1 ELSE Until(line, s + 1, {"="}), g)
  IN  IF first # 0 /\ line[s] = "#" THEN r
      ELSE IF first # 0 /\ line[s] = "[" THEN [r EXCEPT !.section = Section(line, s)]
      ELSE IF Len(line) > 2 /\ key # <<>> /\ value # <<>>
      THEN [r EXCEPT !.config = With(@, <<r.section, key>>, value)]
      ELSE r

Parse(lines, g) == FoldLeft(LAMBDA r, line : ParseLine(r, line, g), NothingRead, lines)

================================================================================
