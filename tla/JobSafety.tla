------------------------------ MODULE JobSafety ------------------------------
(***************************************************************************)
(* What cascade-core decides about one job before anything runs: the path  *)
(* checks (security/path.rs, job/spec.rs), the custom flags                *)
(* (security/flags.rs), the risk (security/destructive.rs) and the command *)
(* built from the job (rclone/command.rs, rsync/command.rs, rclone/rc.rs). *)
(* No state: everything is a function of the specification and, for local  *)
(* paths, of the symbolic links of the moment.                             *)
(*                                                                         *)
(* An endpoint is [kind, host, path].  `kind` is what the text looks like: *)
(* "local", "rclone" (name:path), "ssh" (user@host:path), "backend"        *)
(* (:backend:path), "empty", or "malformed" (control characters, too long, *)
(* spaces at an end).  `path` lists the components; trailing slashes are   *)
(* left out, and a remote path is taken without a leading one.             *)
(* `links` maps the path of a symbolic link to the path it leads to, which *)
(* passes through no other link and has none below it.                     *)
(***************************************************************************)
EXTENDS Lists, SequencesExt

CONSTANTS Home,         \* the path of $HOME
          SystemDirs,   \* /etc, /usr ...: paths of one component
          SecretHosts,  \* on-the-fly backends whose text holds a credential
          NoBackup      \* no backup directory

Tools == {"rclone", "rsync"}
OpKinds == {"copy", "sync", "move", "bisync"}

(* The power-user options whose value matters only by being set, and those *)
(* each tool has.  The backup directory is an endpoint, kept apart.        *)
TypedOptions == {"transfers", "checkers", "bwlimit", "retries", "max-delete", "checksum",
                 "exclude", "include", "compress", "rsh", "resync"}
Supported(tool, op) ==
  {"max-delete", "checksum", "exclude", "include"}
    \cup (IF tool = "rsync" THEN {"compress", "rsh"}
          ELSE {"transfers", "checkers", "bwlimit", "retries"}
                 \cup (IF op = "bisync" THEN {"resync"} ELSE {}))

-----------------------------------------------------------------------------
(* security/path.rs *)

Inside(p, q) == IsPrefix(q, p)

Resolve(links, p) ==
  IF \E l \in DOMAIN links : Inside(p, l)
  THEN LET l == CHOOSE k \in DOMAIN links : Inside(p, k)
       IN  links[l] \o SubSeq(p, Len(l) + 1, Len(p))
  ELSE p

IsRemote(e) == e.kind \in {"rclone", "ssh"}

(* The components of the text, cut at its slashes: a remote's name and the *)
(* first component of the path are one.                                    *)
TextPath(e) ==
  IF e.kind = "local" THEN e.path
  ELSE IF e.path = << >> THEN <<e.host>>
  ELSE <<e.host \o Head(e.path)>> \o Tail(e.path)

(* A text that is no remote is a path; ":x:y" is one below the current     *)
(* directory, unless the tool is rclone.                                   *)
LocalPath(e) == (IF e.kind = "backend" THEN <<"cwd">> ELSE << >>) \o TextPath(e)

IsBackend(tool, e) == tool = "rclone" /\ e.kind = "backend"

PathRefused(links, e) ==
  \/ e.kind = "empty"
  \/ ".." \in ToSet(LocalPath(e))
  \/ {LocalPath(e), Resolve(links, LocalPath(e))} \cap {<< >>, Home} # {}

SystemWarnings(links, e) ==
  LET system(p) == \E d \in SystemDirs : Inside(p, d)
      resolved == Resolve(links, LocalPath(e))
  IN  IF system(resolved) THEN {[what |-> "system", at |-> resolved]}
      ELSE IF system(LocalPath(e)) THEN {[what |-> "system", at |-> LocalPath(e)]}
      ELSE {}

(* normalize_for_overlap and check_overlap: a path is inside another when  *)
(* its components begin with all of the other's, so nothing is inside the  *)
(* root of a remote, whose only component is the name.                     *)
(* Slip: the paths as they are written.                                    *)
NormalizedAsWritten(links, e) == IF IsRemote(e) THEN TextPath(e) ELSE LocalPath(e)

Normalized(links, e) == IF IsRemote(e) THEN TextPath(e) ELSE Resolve(links, LocalPath(e))

Overlap(links, a, b) ==
  LET s == Normalized(links, a)
      d == Normalized(links, b)
  IN  IF IsRemote(a) # IsRemote(b) THEN "none"
      ELSE IF s = d THEN "identical"
      ELSE IF Inside(d, s) THEN "dest inside source"
      ELSE IF Inside(s, d) THEN "source inside dest" ELSE "none"

-----------------------------------------------------------------------------
(* JobSpec::validate_paths.  A job is [tool, op, source, destination,      *)
(* delete, dry, typed, backup, flags].                                     *)

RemoteMismatch(tool, e) == IsRemote(e) /\ (tool = "rsync") = (e.kind = "rclone")

EndpointRefused(tool, links, e) ==
  \/ e.kind = "malformed"
  \/ IsRemote(e) /\ ".." \in ToSet(e.path)
  \/ ~IsRemote(e) /\ ~IsBackend(tool, e) /\ PathRefused(links, e)

EndpointWarnings(tool, links, e) ==
  IF IsRemote(e) THEN IF e.path = << >> THEN {[what |-> "root", at |-> << >>]} ELSE {}
  ELSE IF IsBackend(tool, e) THEN {} ELSE SystemWarnings(links, e)

OverlapWarnings(links, a, b) ==
  LET kind == Overlap(links, a, b) IN IF kind = "none" THEN {} ELSE {[what |-> kind, at |-> << >>]}

PathsRefused(s, links) ==
  \/ \E e \in {s.source, s.destination} :
        EndpointRefused(s.tool, links, e) \/ RemoteMismatch(s.tool, e)
  \/ /\ s.backup # NoBackup
     /\ \/ EndpointRefused(s.tool, links, s.backup)
        \/ IsRemote(s.backup) /\ (s.tool = "rsync" \/ s.backup.kind # "rclone")

PathWarnings(s, links) ==
  LET about(label, ws) == {[label |-> label, text |-> w] : w \in ws}
  IN  UNION {about("source", EndpointWarnings(s.tool, links, s.source)),
             about("destination", EndpointWarnings(s.tool, links, s.destination)),
             IF s.backup = NoBackup THEN {}
             ELSE about("backup", EndpointWarnings(s.tool, links, s.backup)
                                    \cup OverlapWarnings(links, s.destination, s.backup)),
             about("overlap", OverlapWarnings(links, s.source, s.destination))}

-----------------------------------------------------------------------------
(* security/flags.rs.  A custom flag is [no, key, tail]: the key is the    *)
(* name as it is typed, after "--" and one "no-" and up to an equals sign; *)
(* `no` when the flag takes its option back, by the "no-" or by its value  *)
(* ("--compress-choice=none"); further words that only quotes hold         *)
(* together are in `tail`.  The key "word" is a token that is no long      *)
(* option, "credential" one that holds a credential.                       *)

CommonControlled == {"dry-run", "max-delete", "backup-dir", "include", "exclude", "checksum"}

Controlled(tool) ==
  CommonControlled \cup
    (IF tool = "rclone"
     THEN {"transfers", "checkers", "bwlimit", "retries", "stats", "stats-one-line",
           "stats-log-level", "resync"}
     ELSE {"archive", "compress", "rsh", "rsync-path", "remote-option", "old-args",
           "secluded-args", "protect-args", "itemize-changes", "info", "outbuf"})

(* The names of the two tools that begin with "delete" or "remove-source", *)
(* and two more.                                                           *)
DeleteFamily == {"delete", "delete-before", "delete-during", "delete-delay", "delete-after",
                 "delete-excluded", "delete-missing-args"}
ChangesOperation == DeleteFamily \cup {"remove-source-files", "remove-sent-files",
                                       "password-command"}

(* Slip: the key is compared with its "no-".                               *)
FlagAcceptedUnstripped(tool, f) ==
  f.key \notin {"word", "credential"} /\ (f.no \/ f.key \notin Controlled(tool) \cup ChangesOperation)

FlagAccepted(tool, f) ==
  f.key \notin {"word", "credential"} \cup Controlled(tool) \cup ChangesOperation

FlagsAccepted(tool, flags) == \A i \in 1 .. Len(flags) : FlagAccepted(tool, flags[i])

-----------------------------------------------------------------------------
(* JobSpec::risk, with classify. *)

DeleteEffective(s) == s.op # "copy" \/ s.delete

(* Slip: rsync's short name of --delete-during is forgotten.               *)
DangerousFlagsWithoutAlias ==
  DeleteFamily \cup {"remove-source-files", "remove-sent-files", "rsync-path", "rsh",
                     "password-command"}

DangerousFlags ==
  DeleteFamily \cup {"del", "remove-source-files", "remove-sent-files", "rsync-path", "rsh",
                     "password-command"}

HasDangerousFlags(s) ==
  \E i \in 1 .. Len(s.flags) : s.flags[i].key \in DangerousFlags /\ ~s.flags[i].no

Classify(op, deletes) ==
  CASE op = "copy" -> "caution"
    [] op = "sync" -> IF deletes THEN "destructive" ELSE "caution"
    [] op \in {"move", "bisync"} -> "destructive"

Risk(s) ==
  IF HasDangerousFlags(s) THEN "destructive" ELSE Classify(s.op, DeleteEffective(s))

-----------------------------------------------------------------------------
(* The command.  A token is [no, key]: the option it names, and whether it *)
(* takes it back.  Options with the same effect share a key ("-n" is       *)
(* dry-run, "-z" compress, "-e" rsh).                                      *)

Option(key) == [no |-> FALSE, key |-> key]

(* The order in which build_args pushes them.                              *)
RcloneOrder == <<"dry-run", "transfers", "checkers", "checksum", "bwlimit", "retries",
                 "max-delete", "backup-dir", "exclude", "include", "stats", "resync">>
RsyncOrder == <<"archive", "compress", "checksum", "remove-source-files", "dry-run", "delete",
                "max-delete", "backup-dir", "info", "outbuf", "exclude", "include", "rsh">>

(* What the rows set and the tool has.                                     *)
Asked(s) ==
  (s.typed \cap Supported(s.tool, s.op))
    \cup (IF s.backup = NoBackup THEN {} ELSE {"backup-dir"})
    \cup (IF s.dry THEN {"dry-run"} ELSE {})

Pushed(order, keys) ==
  LET kept == Kept(order, keys)
  IN  [i \in 1 .. Len(kept) |-> Option(kept[i])]

(* Other names a tool has for an option with a row (rsync's option table,  *)
(* outside the repository).                                                *)
Means(tool, key) ==
  IF tool = "rsync" /\ key = "c" THEN "checksum"
  ELSE IF tool = "rsync" /\ key \in {"z", "compress-choice", "zc", "compress-level", "zl",
                                    "old-compress", "new-compress"} THEN "compress"
  ELSE key

FlagTokens(s) ==
  [i \in 1 .. Len(s.flags) |-> [no |-> s.flags[i].no, key |-> Means(s.tool, s.flags[i].key)]]

(* rclone: power-user flags go first, typed options follow and win.        *)
RcloneTokens(s) == FlagTokens(s) \o Pushed(RcloneOrder, Asked(s) \cup {"stats"})

(* rsync: a move is --remove-source-files and no deletion; flags go last.  *)
RsyncTokens(s) ==
  Pushed(RsyncOrder,
         Asked(s) \cup {"archive", "info", "outbuf"}
           \cup (IF s.op = "move" THEN {"remove-source-files"}
                 ELSE IF DeleteEffective(s) THEN {"delete"} ELSE {}))
    \o FlagTokens(s)

Tokens(s) == IF s.tool = "rclone" THEN RcloneTokens(s) ELSE RsyncTokens(s)

(* endpoint_for_argv: a local path is replaced by what it leads to.        *)
EndpointForArgv(tool, links, e) ==
  IF IsRemote(e) \/ IsBackend(tool, e) THEN e
  ELSE [kind |-> "local", host |-> "", path |-> Resolve(links, LocalPath(e))]

(* The source, the destination and the backup directory are resolved one  *)
(* after the other, each by the links it meets.                            *)
ResolvedBy(s, atSource, atDestination, atBackup) ==
  [s EXCEPT !.source = EndpointForArgv(s.tool, atSource, @),
            !.destination = EndpointForArgv(s.tool, atDestination, @),
            !.backup = IF @ = NoBackup THEN @ ELSE EndpointForArgv(s.tool, atBackup, @)]

Resolved(s, links) == ResolvedBy(s, links, links, links)

(* contains_secret *)
HoldsSecret(s) ==
  \E e \in {s.source, s.destination} \cup ({s.backup} \ {NoBackup}) : e.host \in SecretHosts

(* prepare_execution fails, or gives the resolved job and its tokens.      *)
CannotPrepare(s, links) ==
  \/ HoldsSecret(s)
  \/ PathsRefused(s, links)
  \/ ~FlagsAccepted(s.tool, s.flags)
  \/ s.tool = "rsync" /\ s.op = "bisync"

(* endpoint_for_argv refuses the place it resolves.                        *)
CannotResolve(tool, links, e) == ~IsRemote(e) /\ ~IsBackend(tool, e) /\ PathRefused(links, e)

(* rc_eligible and sync_payload: the same options as keys of _config and   *)
(* _filter.                                                                *)
RcEligible(s) == s.tool = "rclone" /\ ~s.dry /\ s.flags = << >> /\ s.op # "bisync"

RcOptions(s) ==
  (s.typed \cap {"transfers", "checkers", "checksum", "bwlimit", "retries", "max-delete",
                 "exclude", "include"})
    \cup (IF s.backup = NoBackup THEN {} ELSE {"backup-dir"})
    \cup (IF s.dry THEN {"dry-run"} ELSE {})

-----------------------------------------------------------------------------
(* How a tool reads its command line: the last token about an option holds *)
(* (rclone's and rsync's parsers, outside the repository).                 *)
Effective(tokens) ==
  {k \in {tokens[i].key : i \in DOMAIN tokens} :
     \E i \in DOMAIN tokens :
        /\ tokens[i] = Option(k)
        /\ \A j \in i + 1 .. Len(tokens) : tokens[j].key # k}

(* What a finished command may remove: rclone's subcommand says it, rsync's *)
(* options do (--del is its short name of --delete-during, and --force     *)
(* removes a directory whose place a file takes).                          *)
RemovingOptions == DeleteFamily \cup {"del", "remove-source-files", "remove-sent-files", "force"}

MayRemove(tool, op, options) ==
  /\ "dry-run" \notin options
  /\ \/ tool = "rclone" /\ op # "copy"
     \/ tool = "rsync" /\ options \cap RemovingOptions # {}
=============================================================================
