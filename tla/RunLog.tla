-------------------------------- MODULE RunLog --------------------------------
(***************************************************************************)
(* From a child's two output streams to the log file of its run, with what *)
(* a further start of the program does to the files of the log directory   *)
(* (security/sanitize.rs, process/mod.rs, logs/mod.rs, ctx.rs).            *)
(*                                                                         *)
(* A line is one of the kinds below.  Of a line that carries a secret only *)
(* the redacted form is left; the lines of a private key are known only by *)
(* the state of a StreamRedactor.  "cut" is a line longer than 64 KiB: its *)
(* first 64 KiB and a mark, which is again longer than 64 KiB.  "cutbegin" *)
(* and "cutend" are such lines with the first or the last marker of a key  *)
(* in the part that is dropped, before any redactor looks at the line.     *)
(***************************************************************************)
EXTENDS Lists, SequencesExt

CONSTANTS
  MaxLines,   \* bound: lines of the two streams
  MaxEvents,  \* the channel's capacity
  MaxStarts,  \* bound: further starts of the program
  OldLogs     \* what a log of an earlier version may hold, raw

ASSUME RunLogAssumption == {MaxLines, MaxEvents, MaxStarts} \subseteq Nat \ {0}

Streams == {"stdout", "stderr"}
LineKinds == {"plain", "secret", "cut", "begin", "body", "end"}
CutMarkers == {"cutbegin", "cutend"}
LogFiles == <<"old", "live">>   \* in the order read_dir gives them

VARIABLES
  read,       \* what each stream's reader took
  redactor,   \* inside_private_key of the stream's StreamRedactor
  events,     \* the run's channel
  writer,     \* inside_private_key of the LogWriter's
  logged,     \* the lines handed to the file, wherever it is
  log,        \* log["live"] is what the run's path holds, log["old"] an older one
  attached,   \* the LogWriter's file is the one at its path
  starts,     \* further starts so far
  starter,    \* the start under way: the file it is at and what it read
  temps,      \* the temporary files that were left, by position
  cleaned     \* a start's sanitize_existing_logs has returned Ok

logVars == <<read, redactor, events, writer, logged, log, attached,
             starts, starter, temps, cleaned>>

NoStarter == [at |-> 0, samePid |-> FALSE, taken |-> FALSE, content |-> << >>]

-----------------------------------------------------------------------------
(* StreamRedactor::redact_line: the state after the line, and what is left *)
(* of it, as a sequence of one line or none.                               *)
RedactLine(inside, line) ==
  IF inside THEN [inside |-> line # "end", out |-> << >>]
  ELSE IF line = "begin" THEN [inside |-> TRUE, out |-> <<"redacted">>]
  ELSE [inside |-> FALSE, out |-> IF line = "secret" THEN <<"redacted">>
                                  ELSE IF line \in CutMarkers THEN <<"cut">> ELSE <<line>>]

(* Slip: a redactor for every line.                                        *)
SanitizedByLine(lines) ==
  FlattenSeq([i \in 1 .. Len(lines) |-> RedactLine(FALSE, lines[i]).out])

(* sanitize_log_stream: one redactor over the whole file, line by line.    *)
RedactedUpTo(lines) ==
  LET pass[n \in 0 .. Len(lines)] ==
        IF n = 0 THEN [inside |-> FALSE, out |-> << >>]
        ELSE LET r == RedactLine(pass[n - 1].inside, lines[n])
             IN  [inside |-> r.inside, out |-> pass[n - 1].out \o r.out]
  IN  pass

Sanitized(lines) == RedactedUpTo(lines)[Len(lines)].out

(* Slip: every file is written anew.                                       *)
ChangedAlways(lines) == TRUE

(* A cut line is cut again and so counts as changed.                       *)
Changed(lines) == Sanitized(lines) # lines \/ "cut" \in ToSet(lines)

-----------------------------------------------------------------------------
(* The child.  It may end in the middle of a key.  What makes a line part  *)
(* of a key is only where it stands; an old log has whole keys, except for *)
(* the last, which may be cut short, and no marker beyond 64 KiB.          *)

InKeyAt(lines, n) ==
  \E i \in 1 .. n : /\ lines[i] \in {"begin", "cutbegin"}
                     /\ \A k \in i + 1 .. n : lines[k] \notin {"end", "cutend"}

InKey(lines) == InKeyAt(lines, Len(lines))

KeysBegin(lines) ==
  \A n \in 1 .. Len(lines) : lines[n] \in {"body", "end", "cutend"} => InKeyAt(lines, n - 1)

ASSUME OldLogsAssumption ==
  \A old \in OldLogs : old \in Seq(LineKinds \cup {"redacted"}) /\ KeysBegin(old)

(* Slip: the streams share one redactor.                                   *)
RedactorsAfterShared(s, inside) == [t \in Streams |-> inside]

RedactorsAfter(s, inside) == [redactor EXCEPT ![s] = inside]

(* flush_line and emit_line, with room in the channel: a reader takes the  *)
(* next line the child wrote.                                              *)
Reads(s, line) ==
  /\ Len(read["stdout"]) + Len(read["stderr"]) < MaxLines
  /\ (line \in {"body", "end", "cutend"}) = InKey(read[s])
  /\ LET r == RedactLine(redactor[s], line)
     IN  /\ Len(events \o r.out) <= MaxEvents
         /\ redactor' = RedactorsAfter(s, r.inside)
         /\ events' = events \o r.out
  /\ read' = [read EXCEPT ![s] = Append(@, line)]
  /\ UNCHANGED <<writer, logged, log, attached, starts, starter, temps, cleaned>>

(* The run's loop hands each line to LogWriter::write_line.                *)
WritesLine ==
  /\ events # << >>
  /\ LET r == RedactLine(writer, Head(events))
     IN  /\ writer' = r.inside
         /\ logged' = logged \o r.out
         /\ log' = IF attached THEN [log EXCEPT !["live"] = @ \o r.out] ELSE log
  /\ events' = Tail(events)
  /\ UNCHANGED <<read, redactor, attached, starts, starter, temps, cleaned>>

-----------------------------------------------------------------------------
(* Another start of the program: sanitize_existing_logs, file by file.     *)
(* The name of a temporary file is made of the process id and the file's   *)
(* position, so one that was left stands in the way of a process with the  *)
(* same id.                                                                *)

OpensTemp(k, samePid, others) ==
  IF samePid /\ k \in others
  THEN starter' = NoStarter /\ temps' = others   \* create_new fails, and the pass with it
  ELSE /\ starter' = [at |-> k, samePid |-> samePid, taken |-> FALSE, content |-> << >>]
       /\ temps' = others \cup {k}

StartAgain(samePid) ==
  /\ starter = NoStarter /\ starts < MaxStarts
  /\ starts' = starts + 1
  /\ OpensTemp(1, samePid, temps)
  /\ UNCHANGED <<read, redactor, events, writer, logged, log, attached, cleaned>>

ReadsFile ==
  /\ starter # NoStarter /\ ~starter.taken
  /\ starter' = [starter EXCEPT !.taken = TRUE, !.content = log[LogFiles[starter.at]]]
  /\ UNCHANGED <<read, redactor, events, writer, logged, log, attached, starts, temps, cleaned>>

(* The rename, when something changed, puts another file at the path: what *)
(* was appended since the reading, and all that follows, is gone from it.  *)
ReplacesFile ==
  /\ starter.taken
  /\ LET f == LogFiles[starter.at]
     IN  IF Changed(starter.content)
         THEN /\ log' = [log EXCEPT ![f] = Sanitized(starter.content)]
              /\ attached' = (attached /\ f # "live")
         ELSE UNCHANGED <<log, attached>>
  /\ IF starter.at = Len(LogFiles)
     THEN /\ starter' = NoStarter /\ temps' = temps \ {starter.at}
          /\ cleaned' = TRUE
     ELSE /\ OpensTemp(starter.at + 1, starter.samePid, temps \ {starter.at})
          /\ UNCHANGED cleaned
  /\ UNCHANGED <<read, redactor, events, writer, logged, starts>>

(* A file cannot be opened, read, written or renamed: the pass returns the *)
(* error.  A failure of sanitize_log_stream removes the temporary file, a  *)
(* later one leaves it.                                                    *)
PassFails ==
  /\ starter # NoStarter
  /\ starter' = NoStarter
  /\ temps' \in {temps, temps \ {starter.at}}
  /\ UNCHANGED <<read, redactor, events, writer, logged, log, attached, starts, cleaned>>

(* The process is killed; its temporary file stays.                        *)
StarterKilled ==
  /\ starter # NoStarter
  /\ starter' = NoStarter
  /\ UNCHANGED <<read, redactor, events, writer, logged, log, attached, starts, temps, cleaned>>

-----------------------------------------------------------------------------
LogInit ==
  /\ read = [s \in Streams |-> << >>]
  /\ redactor = [s \in Streams |-> FALSE]
  /\ events = << >> /\ writer = FALSE /\ logged = << >>
  /\ \E old \in OldLogs : log = [f \in {"old", "live"} |-> IF f = "old" THEN old ELSE << >>]
  /\ attached = TRUE
  /\ starts = 0 /\ starter = NoStarter /\ temps = {} /\ cleaned = FALSE

LogNext ==
  \/ \E s \in Streams, line \in LineKinds \cup CutMarkers : Reads(s, line)
  \/ WritesLine
  \/ \E samePid \in BOOLEAN : StartAgain(samePid)
  \/ ReadsFile \/ ReplacesFile \/ PassFails \/ StarterKilled

LogSpec == LogInit /\ [][LogNext]_logVars

-----------------------------------------------------------------------------
HasSecret(lines) == ToSet(lines) \cap {"secret", "begin", "body"} # {}

(* A reader dropped a marker of a key with the end of a line, so redactors *)
(* mistake what follows.                                                   *)
MarkerCutOff == \E s \in Streams : ToSet(read[s]) \cap CutMarkers # {}

(* No line of a private key and no secret is on its way to the page or in  *)
(* the log of a run, unless a marker was cut off, and none is in an older  *)
(* log once a pass over the directory has succeeded, in whatever order the *)
(* streams come and wherever the child, or a start, is killed              *)
(* (sanitize.rs:117-145, process/mod.rs:413-451, logs/mod.rs:119-231).     *)
NoKeyMaterial ==
  /\ MarkerCutOff \/ (~HasSecret(events) /\ ~HasSecret(logged) /\ ~HasSecret(log["live"]))
  /\ cleaned => ~HasSecret(log["old"])

Harmless(lines) == Kept(lines, {"plain", "cut"})

(* Only the lines of a key are swallowed, unless a marker was cut off:     *)
(* every other line a reader took is handed on, a key that the other       *)
(* stream is in the middle of notwithstanding (process/mod.rs:380-445).    *)
OnlyKeysSwallowed ==
  \/ MarkerCutOff
  \/ Len(Harmless(events)) + Len(Harmless(logged))
       = Len(Harmless(read["stdout"])) + Len(Harmless(read["stderr"]))

(* A start of the program leaves the log of a run in progress to its       *)
(* writer, unless the log holds a line that was cut (logs/mod.rs:160-228). *)
LiveLogKept == "cut" \notin ToSet(logged) => log["live"] = logged
=============================================================================
