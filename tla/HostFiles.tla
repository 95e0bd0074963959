------------------------------ MODULE HostFiles ------------------------------
(***************************************************************************)
(* Files on a host, as the three programs of the repository write them.    *)
(* An entry is what a reader finds under the name now, and what a power    *)
(* loss may leave there: written data reaches the disk only with Sync, and *)
(* no program syncs a directory, so a name that was just linked or renamed *)
(* may still be the old one after the power returns.  A process that is    *)
(* killed loses nothing it already wrote.                                  *)
(***************************************************************************)
EXTENDS Naturals, FiniteSets

Absent == [kind |-> "absent"]
Torn == [kind |-> "torn"]       \* a prefix of what was written

Clean(content) == [now |-> content, lost |-> {content}]
Exists(entry) == entry.now # Absent

\* os.WriteFile empties the file, then fills it; nothing is synced.
Truncate(entry) ==
    [now |-> Torn, lost |-> entry.lost \cup {Torn}]
WriteFile(entry, content) ==
    [now |-> content, lost |-> entry.lost \cup {Torn, content}]

\* A temporary file, written and synced, is given its name: by os.Rename over
\* whatever has the name, by os.Link only where nothing has it.
Rename(entry, content) ==
    [now |-> content, lost |-> entry.lost \cup {content}]
CanLink(entry) == ~Exists(entry)
Link(entry, content) ==
    [now |-> content, lost |-> entry.lost \cup {content}]

\* What remains of an entry when the power goes.
AfterPowerLoss(entry) == { Clean(content) : content \in entry.lost }
=============================================================================
