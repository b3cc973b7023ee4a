---------------------------- MODULE MCWorkspace ----------------------------
\* Two commands of which one may arrive twice; a command that is checked
\* against nothing; the native copy across a restart; the form over the
\* plan; onboarding's form across a restart; a bank command and its poll.
EXTENDS Workspace

World(native, clicks, forms, edits, revisions, requests, copies, restarts, links) ==
  [native |-> native, clicks |-> clicks, forms |-> forms, edits |-> edits,
   revisions |-> revisions, requests |-> requests, copies |-> copies, restarts |-> restarts, links |-> links]
MCWorlds ==
  {World(FALSE, {"goal"}, {}, {"goal"}, 3, 2, 1, 0, FALSE),
   World(FALSE, {"add"}, {}, {}, 3, 1, 1, 0, FALSE),
   World(TRUE, {"plan"}, {}, {"plan"}, 3, 1, 0, 1, TRUE),
   World(FALSE, {"calibrate"}, {"plan"}, {"bill"}, 3, 1, 0, 0, FALSE),
   World(FALSE, {"calibrate"}, {"setup"}, {"add", "remove"}, 2, 1, 0, 1, TRUE),
   World(FALSE, {"sync"}, {}, {"goal"}, 2, 1, 0, 0, TRUE)}
=============================================================================
