------------------------------- MODULE Lists -------------------------------
(***************************************************************************)
(* What clear_finished() of cascade-gui/src/views/queue.rs leaves of the   *)
(* rows, and what is left of a listing, of a channel or of a log when some *)
(* of it is looked at: the elements of T that s holds, in the order of s.  *)
(* It is SelectSeq with a set for the test, as a recursive function over   *)
(* the prefixes of s, so that it can be proved about.                      *)
(***************************************************************************)
EXTENDS Naturals, Sequences

KeptUpTo(s, T) ==
  LET kept[n \in 0 .. Len(s)] ==
        IF n = 0 THEN <<>>
        ELSE IF s[n] \in T THEN Append(kept[n - 1], s[n]) ELSE kept[n - 1]
  IN  kept

Kept(s, T) == KeptUpTo(s, T)[Len(s)]
=============================================================================
