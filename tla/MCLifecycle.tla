---------------------------- MODULE MCLifecycle ----------------------------
\* A web client with two sessions; a native client that returns twice; the
\* deletion of a household during a link; two members of whom one links; and
\* three members without a link.
EXTENDS Lifecycle

World(members, leaving, outside, linked, workers, sessions, tokens, crashes, losses) ==
  [members |-> members, leaving |-> leaving, outside |-> outside, linked |-> linked, workers |-> workers,
   linker |-> members, native |-> FALSE, sessions |-> sessions, tokens |-> tokens,
   crashes |-> crashes, losses |-> losses, restarts |-> 0, expires |-> FALSE, fails |-> FALSE]
MCWorlds ==
  {[World(1, {}, {}, FALSE, 0, 2, 2, 0, 0) EXCEPT !.restarts = 1, !.expires = TRUE],
   [World(1, {}, {}, FALSE, 0, 1, 1, 1, 1) EXCEPT !.native = TRUE, !.restarts = 1],
   [World(1, {1}, {1}, TRUE, 1, 1, 1, 1, 0) EXCEPT !.fails = TRUE],
   [World(2, {1, 2}, {}, TRUE, 1, 1, 1, 0, 0) EXCEPT !.native = TRUE],
   [World(3, {1}, {2}, TRUE, 2, 0, 0, 1, 0) EXCEPT !.fails = TRUE]}

\* Two owners leave a third member behind.
MCOwners == {World(3, {1, 2}, {}, FALSE, 1, 0, 0, 0, 0)}
=============================================================================

