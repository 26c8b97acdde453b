------------------------------ MODULE LogParser ------------------------------
(***************************************************************************)
(* Reading one line of a log (src/src/logparser.cpp).  A line is what its  *)
(* writer meant: a format, the word that stands for the level in it, and   *)
(* what was put in front of it, docker's time stamp or trun's own          *)
(* "[time] label:".  The regular expressions are told by what they take    *)
(* for what.                                                               *)
(***************************************************************************)
EXTENDS FiniteSets

Severities == {"EMERGENCY", "ALERT", "CRITICAL", "ERROR", "WARNING", "NOTICE", "INFO", "DEBUG"}

Upper == [w \in {"warn", "error", "info", "debug", "http", "silly", "fatal", "ready"} |->
  CASE w = "warn" -> "WARN" [] w = "error" -> "ERROR" [] w = "info" -> "INFO"
    [] w = "debug" -> "DEBUG" [] w = "http" -> "HTTP" [] w = "silly" -> "SILLY"
    [] w = "fatal" -> "FATAL" [] w = "ready" -> "READY"]

Short == [u \in {"WARN", "DEBU", "ERRO", "FATA", "FATAL", "PANI"} |->
  CASE u = "WARN" -> "WARNING" [] u = "DEBU" -> "DEBUG" [] u = "ERRO" -> "ERROR"
    [] OTHER -> "CRITICAL"]

normalizeLevel(word) ==
  LET u == IF word \in DOMAIN Upper THEN Upper[word] ELSE word
  IN  IF u \in DOMAIN Short THEN Short[u] ELSE u

isLevelName(word) == normalizeLevel(word) \in Severities \cup {"TRACE"}

levelFromHttpStatus(status) ==
  CASE status = "500" -> "ERROR" [] status = "404" -> "WARNING" [] OTHER -> "INFO"

severityToLevel(code) == CASE code = "3" -> "ERROR" [] code = "4" -> "WARNING" [] OTHER -> "INFO"

NoLevel == ""
NoChannel == ""
Channel == "app"
Unread == [ok |-> FALSE, level |-> NoLevel, channel |-> NoChannel]
Read(level, channel) == [ok |-> TRUE, level |-> level, channel |-> channel]
ReadIfLevel(word, channel) ==
  IF isLevelName(word) THEN Read(normalizeLevel(word), channel) ELSE Unread

-----------------------------------------------------------------------------
(* One object per line; without a message or a level it is nothing else.   *)
tryJson(l) == ReadIfLevel(l.word, Channel)

(* Monolog's own format, tried on the line as a whole.                     *)
monolog(l) == ReadIfLevel(l.word, Channel)

(* The formats tried on what is behind trun's prefix, in this order.       *)
consoleFormats(body) ==
  CASE body.format \in {"symfony", "custom", "tracing", "tracingLocal", "envlogger", "envloggerColon"}
         -> ReadIfLevel(body.word, Channel)
    [] body.format \in {"uvicorn", "gunicorn", "logrus"} -> ReadIfLevel(body.word, NoChannel)
    [] OTHER -> Unread

serverFormats(body) ==
  CASE body.format = "python" /\ body.word \in {"WARNING", "INFO", "ERROR"} -> Read(body.word, Channel)
    [] body.format = "syslog" -> Read(severityToLevel(body.word), Channel)
    [] body.format = "access" -> Read(levelFromHttpStatus(body.word), NoChannel)
    [] body.format = "apache" -> ReadIfLevel(body.word, Channel)
    [] OTHER -> Unread

(* npm is looked for in the line, prefix and all.                          *)
npm(l) == IF l.format = "npm" /\ ~l.labelled THEN Read(normalizeLevel(l.word), NoChannel) ELSE Unread

(* Lines that begin with a full time stamp are taken for docker's; the     *)
(* rest is a line of no known format.                                      *)
Stamped(l) == l.format = "tracing" /\ ~l.labelled

(* "[x] some words:" at the start of a line is taken for trun's prefix.    *)
TakenForLabel(l) == l.format \in {"custom", "envloggerColon"}

layer1(l) ==
  IF l.labelled THEN [l EXCEPT !.labelled = FALSE]
  ELSE IF TakenForLabel(l) THEN [l EXCEPT !.format = "text"]
  ELSE l

(* Bug: what docker wraps is read as plain text.                           *)
WrappedIsText(l) == IF l.docker THEN [l EXCEPT !.docker = FALSE, !.format = "text"] ELSE l

(* docker's stamp is taken off, and off what is behind it once more.       *)
Unwrapped(l) == IF Stamped(l) THEN [l EXCEPT !.docker = FALSE, !.format = "text"]
                ELSE [l EXCEPT !.docker = FALSE]

parse(line) ==
  LET l == Unwrapped(line)
      body == layer1(l)
      found == {r \in {consoleFormats(body), serverFormats(body), npm(l)} : r.ok}
  IN  IF l.format = "json" /\ ~l.labelled THEN tryJson(l)
      ELSE IF l.format = "monolog" /\ ~l.labelled THEN monolog(l)
      ELSE IF found = {} THEN Unread ELSE CHOOSE r \in found : TRUE

(***************************************************************************)
(* Levels and channels are sets here, in the code lists in which one has   *)
(* to match; query says whether there is one and hit whether it matches.   *)
(***************************************************************************)
applyFilter(p, hit, f) ==
  IF f.query /\ ~hit THEN "Hidden"
  ELSE IF ~p.ok THEN (IF f.levels # {} \/ f.channels # {} THEN "HiddenUnparsed" ELSE "Shown")
  ELSE IF f.levels # {} /\ \A lv \in f.levels : p.level # normalizeLevel(lv) THEN "Hidden"
  ELSE IF f.channels # {} /\ p.channel \notin f.channels THEN "Hidden"
  ELSE "Shown"

NoFilter == [query |-> FALSE, levels |-> {}, channels |-> {}]

-----------------------------------------------------------------------------
(* The lines the parser is tried on.                                       *)
Words(format) ==
  CASE format \in {"syslog"} -> {"3", "4", "6"}
    [] format = "access" -> {"500", "404", "200"}
    [] format = "npm" -> {"warn", "http", "silly"}
    [] format = "python" -> {"WARNING", "WARN", "INFO"}
    [] format = "apache" -> {"warn", "error", "ready"}
    [] format \in {"tracing", "tracingLocal", "envlogger", "envloggerColon"} -> {"WARN", "INFO"}
    [] format = "text" -> {"ready"}
    [] OTHER -> {"warn", "FATA", "info", "ready"}

WithLevel == {"json", "monolog", "symfony", "custom", "uvicorn", "gunicorn", "logrus", "tracing",
  "tracingLocal", "envlogger", "envloggerColon", "python", "syslog", "access", "apache", "npm"}

Lines == UNION {{[format |-> f, word |-> w, docker |-> d, labelled |-> b] :
  w \in Words(f), d \in BOOLEAN, b \in BOOLEAN} : f \in WithLevel \cup {"text"}}

(* A level chip of the console, or of the header an agent reads, selects   *)
(* the lines it was found on: what parse answers is what applyFilter       *)
(* compares with, however the line spells its level.                       *)
ChipSelectsItsLine(l) ==
  LET p == parse(l)
  IN  p.ok /\ p.level # NoLevel =>
        applyFilter(p, TRUE, [NoFilter EXCEPT !.levels = {p.level}]) = "Shown"

(* A line with a level is read as one, also out of a container and behind  *)
(* trun's own prefix, but for those that one prefix is mistaken for        *)
(* another in: a zoned stamp for docker's, a bracket and a colon for       *)
(* trun's; and for the formats that are only looked for at the very start. *)
LevelIsSeen(l) ==
  LET mistaken == \/ l.format \in {"tracing", "custom", "envloggerColon"} /\ ~l.labelled
                  \/ l.format \in {"json", "monolog", "npm"} /\ l.labelled
      nolevel == l.word = "ready" \/ (l.format = "python" /\ l.word = "WARN")
  IN  parse(l).ok <=> ~mistaken /\ ~nolevel
=============================================================================
