------------------------------ MODULE MCJobPage ------------------------------
(* Three changes of stage, three edits, two briefs of this page or another, *)
(* delivered once more when their task is run again, a tailored resume, and *)
(* what may befall them.                                                    *)
EXTENDS JobPage, TLC

CONSTANTS saved, applied, screen, c1, c2, c3, e1, e2, e3, b1, b2, t1

SomeStages == {saved, applied, screen}
SomeChanges == {c1, c2, c3}
SomeEdits == {e1, e2, e3}
SomeBriefs == {b1, b2}
OneTailor == {t1}
Alike == Permutations(SomeChanges) \cup Permutations(SomeBriefs)
SomeOccasions ==
  { {"changes", "removal", "db"}, {"elsewhere", "timeout", "contract"},
    {"generate", "elsewhere", "timeout", "removal"}, {"elsewhere", "rerun"},
    {"generate", "rerun"}, {"generate", "select"},
    {"generate", "delete", "removal"}, {"select", "delete", "removal"},
    {"editor", "edits", "network"}, {"editor", "edits", "removal", "db"},
    {"generate", "tailor", "leave"}, {"generate", "tailor", "network"} }
=============================================================================
