---- MODULE MCGroupRekey ----
(* GroupRekey on small instances. *)
EXTENDS GroupRekey

\* Where the grace of a previous key may lapse before the next rotation: never,
\* anywhere, or at the members after the first rotation.
Never == {}
Anywhere == (Members \cup {Host}) \X (1 .. MaxEpoch)
AtMembers == Members \X {2}
====
