------------------------------- MODULE MCParts -------------------------------
(* Parts on small instances: four ids and a cap that moves between 0       *)
(* (clamped to 1) and 3; a source inside $HOME with every way to name a    *)
(* place inside it, through a symbolic link that is turned, and a remote   *)
(* with a folder of its own; two mounts that may meet on one place; three  *)
(* lines on two streams over an old log with a key that was cut in two;    *)
(* two processes and three starts over an old, a new or an empty file.     *)
EXTENDS Parts

MCMaxCap == 3

local(p) == [kind |-> "local", host |-> "", path |-> p]
gdrive(p) == [kind |-> "rclone", host |-> "gdrive:", path |-> p]
Pics == <<"home", "u", "pics">>
MCHome == <<"home", "u">>
MCDemo == <<"home", "u", "demo">>
MCSystemDirs == {<<"etc">>}

MCSources == {local(Pics), gdrive(<<"a">>)}
MCDestinations ==
  {local(Pics \o <<"2024">>), local(<<"mnt", "l">>), local(<<"etc", "x">>),
   gdrive(<< >>), gdrive(<<"a", "b">>),
   [kind |-> "ssh", host |-> "me@h:", path |-> <<"x">>],
   [kind |-> "backend", host |-> ":sftp:", path |-> << >>],
   [kind |-> "backend", host |-> ":s3,secret:", path |-> <<"x">>]}
MCBackups == {local(<<"mnt", "old">>), gdrive(<<"a", "b", "old">>)}

Flag(no, key, tail) == [no |-> no, key |-> key, tail |-> tail]
MCFlags ==
  {<< >>, <<Flag(FALSE, "inplace", << >>)>>, <<Flag(TRUE, "checksum", << >>)>>,
   <<Flag(FALSE, "del", << >>)>>, <<Flag(FALSE, "force", << >>)>>,
   <<Flag(TRUE, "c", << >>), Flag(FALSE, "compress-level", << >>)>>,
   <<Flag(FALSE, "suffix", <<Flag(FALSE, "del", << >>)>>)>>}

LinkTo(target) == <<"mnt", "l">> :> target
MCBefore == LinkTo(<<"mnt", "disk">>)
MCAfter == LinkTo(Pics)

MCMountPoints == {local(<<"mnt", "m">>), local(<<"mnt", "l">>), local(<<"etc", "x">>)}
MCMountLinks == LinkTo(<<"mnt", "m">>)

MCOldLogs == {<<"secret", "begin", "body">>}
=============================================================================
