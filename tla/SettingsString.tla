---------------------------- MODULE SettingsString ----------------------------
(***************************************************************************)
(* A player's settings (the PlayerConfig of his data column) travel as a   *)
(* JSON text inside a JSON string, and neither direction uses a JSON       *)
(* writer or reader for the string: GetPlayerDataProcessor writes it,      *)
(* SavePlayerDataProcessor reads it, each character by character.  A       *)
(* character here is one the code tells apart; "a" is any other, "version" *)
(* is the last field, which both search for by its text.                   *)
(***************************************************************************)
EXTENDS Naturals, SequencesExt

Quote == "\""
Backslash == "\\"

\* The fields: a number, an object, and strings without and with what JSON escapes.
Field == {"number", "object", "plain", "quoting", "path"}

FieldText(f) ==
  LET string(text) == <<Quote>> \o text \o <<Quote>>
  IN  string(<<"a">>) \o
      CASE f = "number"  -> <<"a">>
        [] f = "object"  -> <<"{", "a", "}">>
        [] f = "plain"   -> string(<<"a">>)
        [] f = "quoting" -> string(<<"a", Backslash, Quote>>)
        [] f = "path"    -> string(<<"a", Backslash, Backslash>>)

\* As protobuf prints settings, and as the client does: over several lines.
TextOf(config, separator) ==
  <<"{">> \o FlattenSeq([i \in DOMAIN config |-> separator \o FieldText(config[i])])
          \o separator \o <<"version">> \o separator \o <<"}">>
Text(config) == TextOf(config, <<>>)
ClientText(config) == TextOf(config, <<"line">>)

\* What JSON makes of a text in a string.
AsString(text) ==
  LET escaped(ch) == CASE ch \in {Quote, Backslash} -> <<Backslash, ch>>
                       [] ch = "line"               -> <<Backslash, "a">>
                       [] OTHER                     -> <<ch>>
  IN  <<Quote>> \o FlattenSeq([i \in DOMAIN text |-> escaped(text[i])]) \o <<Quote>>

-----------------------------------------------------------------------------
(* GetPlayerDataProcessor::GetPlayerDataAsString *)

\* Of the braces that close, only the one behind the version is copied.
WrittenString(text) ==
  LET inside == SelectSeq(Tail(text), LAMBDA ch : ch # "}")
      copy(ch) == IF ch = Quote THEN <<Backslash, Quote>> ELSE <<ch>>
  IN  <<Quote, "{">> \o FlattenSeq([i \in DOMAIN inside |-> copy(inside[i])]) \o <<"}", Quote>>

-----------------------------------------------------------------------------
(* SavePlayerDataProcessor::Process *)

\* The body of a request is the envelope around the payload around the string.
Body(config) == <<"{", "{">> \o AsString(ClientText(config)) \o <<"}", "}">>

ReadChar(read, ch) ==
  LET goes(mode) == [read EXCEPT !.mode = mode]
      copies(mode) == [mode |-> mode, text |-> Append(read.text, ch)]
  IN  CASE read.mode = "seek" /\ ch = Quote                    -> goes("quoted")
        [] read.mode = "quoted" /\ ch = "{"                    -> copies("text")
        [] read.mode = "quoted" /\ ch \notin {"{", Quote}      -> goes("seek")
        [] read.mode = "text" /\ ch = Backslash                -> goes("escape")
        [] read.mode = "text" /\ ch = "}" /\ Last(read.text) = "version" -> copies("close")
        [] read.mode = "escape" /\ ch = Quote                  -> copies("text")
        [] read.mode = "escape" /\ ch # Quote                  -> goes("text")
        [] read.mode = "close"                                 -> goes("rest")
        [] read.mode \in {"text", "rest"}                      -> copies(read.mode)
        [] OTHER                                               -> read

\* The payload, with the settings as an object; the envelope's last brace is left out.
ReadPayload(body) ==
  LET read == FoldLeft(ReadChar, [mode |-> "seek", text |-> <<>>], body)
  IN  IF read.mode = "rest" THEN Front(read.text) ELSE read.text
=============================================================================
