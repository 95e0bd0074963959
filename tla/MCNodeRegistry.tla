--------------------------- MODULE MCNodeRegistry ---------------------------
(***************************************************************************)
(* Small instances of NodeRegistry.                                        *)
(***************************************************************************)
EXTENDS NodeRegistry, TLC

\* One handler at a time, for one name: every operation but renaming while
\* clocks stand still, workers that fall silent, and removal and purge while
\* tokens expire.  And the enrolment of two names by two handlers at a time.
MCLoads ==
    {[operations |-> {"token", "join", "heartbeat", "bootstrap", "drain", "uncordon",
                      "remove", "purge", "pin", "restart"},
      alone |-> TRUE, names |-> 1],
     [operations |-> {"token", "join", "heartbeat", "bootstrap", "drain", "uncordon",
                      "clock", "restart"},
      alone |-> TRUE, names |-> 1],
     [operations |-> {"token", "join", "remove", "purge", "clock"},
      alone |-> TRUE, names |-> 1],
     [operations |-> {"token", "join", "rename"}, alone |-> FALSE, names |-> 2]}
Symmetric == Permutations(Names) \cup Permutations(Ids) \cup Permutations(Keys)
                 \cup Permutations(Tokens) \cup Permutations(Callers)
=============================================================================
