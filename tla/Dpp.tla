---------------------------------- MODULE Dpp ----------------------------------
(***************************************************************************)
(* dpp.c of lab2, the Dual-Purpose Protocol.  Text is a sequence of words: *)
(* the three types, the delimiter "::", usernames and message texts.  TCP  *)
(* keeps no boundaries, so transmissions that follow each other are one    *)
(* text, in which the end of a username and the next type are one string.  *)
(***************************************************************************)
EXTENDS Naturals, Sequences, SequencesExt

CONSTANT NULL

Types == {"MSG", "HELO", "BYE"}
Delimiter == "::"
Text == "text"

build_message(username) == <<"MSG", Delimiter, username, Delimiter, Text>>
build_join(username) == <<"HELO", Delimiter, username>>
build_quit(username) == <<"BYE", Delimiter, username>>

\* The position of the first delimiter, 0 if there is none (strstr).
strstr(text) == SelectInSeq(text, LAMBDA w : w = Delimiter)

\* The text before the first delimiter and the one behind it.
Before(text) == IF strstr(text) = 0 THEN text ELSE SubSeq(text, 1, strstr(text) - 1)
Behind(text) == SubSeq(text, strstr(text) + 1, Len(text))

\* The type a receiver sees, the username, and whether the message pointer
\* points into the text: without a second delimiter it is NULL + 2.
parse_transmission(text) ==
  LET username == Before(Behind(text))
      type == IF strstr(text) # 0 /\ Before(text) \in {<<t>> : t \in Types}
              THEN Before(text)[1] ELSE "unknown"
  IN  [type |-> type, username |-> username,
       valid |-> type = "MSG" => strstr(Behind(text)) # 0]

is_quit(text) == text[1] = "BYE"
===============================================================================
