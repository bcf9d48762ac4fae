------------------------------ MODULE JsonRow ------------------------------
(***************************************************************************)
(* Building a JSONEachRow row out of a payload (sink/clickhouse/json.rs).  *)
(* A payload is a sequence of tokens: braces, commas, newlines "nl", other *)
(* whitespace "ws", and "x" for a member with all that is nested in it.    *)
(* Whitespace inside a payload is copied, so a row may be several lines.   *)
(* A metadata member is one token, its column; how the bytes of a key      *)
(* become a JSON string is modelled apart, character by class: quote,      *)
(* backslash, newline, carriage return, tab, other control characters, and *)
(* byte sequences that are not UTF-8 ("bad").                              *)
(***************************************************************************)
EXTENDS Sequences, SequencesExt, FiniteSetsExt, TLC

\* What is left of a sequence without the elements of drop.
Without(s, drop) ==
    LET kept[i \in 0..Len(s)] ==
          IF i = 0 THEN <<>>
          ELSE IF s[i] \in drop THEN kept[i - 1] ELSE Append(kept[i - 1], s[i])
    IN  kept[Len(s)]

\* The order in which write_row injects them ...
Columns == <<"topic", "partition", "offset", "timestamp", "key">>

\* ... those that are configured.
Injected(metadata) == Without(Columns, Range(Columns) \ metadata)

Whitespace == {"ws", "nl"}

trim_ascii(bytes) ==
    LET ink == {i \in DOMAIN bytes : bytes[i] \notin Whitespace}
    IN  IF ink = {} THEN <<>> ELSE SubSeq(bytes, Min(ink), Max(ink))

Untrimmed(payload) ==   \* mutant: the payload is looked at as it came
    CASE payload = <<>> -> "Empty"
      [] payload # <<>> /\ Head(payload) = "{" /\ Last(payload) = "}" -> "none"
      [] OTHER -> "NotAnObject"

\* object_body's verdict on the payload ...
Rejection(payload) ==
    LET trimmed == trim_ascii(payload)
    IN  CASE trimmed = <<>> -> "Empty"
          [] trimmed # <<>> /\ Head(trimmed) = "{" /\ Last(trimmed) = "}" -> "none"
          [] OTHER -> "NotAnObject"

\* ... and the body of one that is not rejected.
object_body(payload) ==
    LET trimmed == trim_ascii(payload)
    IN  trim_ascii(SubSeq(trimmed, 2, Len(trimmed) - 1))

\* The closure `separate`: a comma before every member but the first.
separate(members) ==
    FlattenSeq([i \in DOMAIN members |-> IF i = 1 THEN members[i]
                                                  ELSE <<",">> \o members[i]])

NaiveSplice(body) == <<body>>   \* mutant: an empty body is separated too
Spliced(body) == IF body = <<>> THEN <<>> ELSE <<body>>

write_row(payload, metadata) ==
    LET columns == Injected(metadata)
        members == [i \in DOMAIN columns |-> <<columns[i]>>]
                     \o Spliced(object_body(payload))
    IN  <<"{">> \o separate(members) \o <<"}", "nl">>

\* String::from_utf8_lossy
Lossy(c) == IF c = "bad" THEN "U+FFFD" ELSE c

EscapesQuote(c) == IF c = "\"" THEN <<"\\", "\"">> ELSE <<c>>   \* mutant
Escape(c) ==
    CASE c = "\"" -> <<"\\", "\"">>
      [] c = "\\" -> <<"\\", "\\">>
      [] c = "nl" -> <<"\\", "n">>
      [] c = "cr" -> <<"\\", "r">>
      [] c = "tab" -> <<"\\", "t">>
      [] c = "ctl" -> <<"\\", "u", "ctl">>
      [] OTHER -> <<c>>

write_json_string(value) ==
    <<"\"">> \o FlattenSeq([i \in DOMAIN value |-> Escape(Lossy(value[i]))])
      \o <<"\"">>

----------------------------------------------------------------------------
(* What JSON says, to compare with *)

Ink(tokens) == Without(tokens, Whitespace)
Punctuation == {"{", "}", ","}

\* A syntactically valid object: members separated by commas, in braces.
IsObject(tokens) ==
    LET ink == Ink(tokens)
        inner == SubSeq(ink, 2, Len(ink) - 1)
    IN  /\ Len(ink) >= 2 /\ Head(ink) = "{" /\ Last(ink) = "}"
        /\ inner = <<>> \/ Len(inner) % 2 = 1
        /\ \A i \in DOMAIN inner : IF i % 2 = 1 THEN inner[i] \notin Punctuation
                                                ELSE inner[i] = ","

Members(tokens) == Without(Ink(tokens), Punctuation)

\* What a reader of JSONEachRow takes one after the other, with their numbers:
\* each piece ends with a closing brace, and whitespace, newlines too, is nothing.
Pieces(text) ==
    LET ink == Ink(text)
        ends == {i \in DOMAIN ink : ink[i] = "}"}
        start(e) == Max({0} \union {i \in ends : i < e}) + 1
    IN  {<<Cardinality({i \in ends : i <= e}), SubSeq(ink, start(e), e)>> : e \in ends}

\* It reads a text that is objects side by side, a comma after one of them or not.
AllObjects(text) ==
    \A piece \in Pieces(text) :
      \/ IsObject(piece[2])
      \/ piece[1] # 1 /\ Head(piece[2]) = "," /\ IsObject(Tail(piece[2]))

\* A reader of JSON strings: the text, or "invalid" for a string that does not
\* end where it should or holds a character that must be escaped.
ReadString(text) ==
    LET after(c) == CASE c = "n" -> "nl" [] c = "r" -> "cr" [] c = "t" -> "tab"
                      [] OTHER -> c
        read[i \in 1..(Len(text) + 1)] ==
          IF i > Len(text) THEN <<"invalid">>
          ELSE IF text[i] = "\"" THEN (IF i = Len(text) THEN <<>> ELSE <<"invalid">>)
          ELSE IF text[i] = "\\" THEN
                 (IF i + 2 > Len(text) THEN <<"invalid">>
                  ELSE IF text[i + 1] = "u" THEN <<text[i + 2]>> \o read[i + 3]
                  ELSE <<after(text[i + 1])>> \o read[i + 2])
          ELSE IF text[i] \in {"nl", "cr", "tab", "ctl", "bad"} THEN <<"invalid">>
          ELSE <<text[i]>> \o read[i + 1]
    IN  IF Len(text) >= 2 /\ text[1] = "\"" THEN read[2] ELSE <<"invalid">>
============================================================================
