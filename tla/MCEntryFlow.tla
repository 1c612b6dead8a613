---------------------------- MODULE MCEntryFlow ----------------------------
(* Two forms beside those that ask for a new code, two codes.               *)
EXTENDS EntryFlow

CONSTANTS f1, f2, a, b

\* An entry that nobody reloads and that has its first code and no restart notice; its
\* code may be refused and asked for.
Calm(id) ==
    /\ entry[id].state \in {"setup", "loaded"}
    /\ entry[id].client = entry[id].code
    /\ ~entry[id].restart /\ ~entry[id].reload
    /\ id \notin closed
    /\ \A code \in Codes : <<id, code>> \notin stale

OpenForms == {f \in Forms : form[f] # NoForm}

\* Two forms are open at once only while no restart notice is stored.  An entry without
\* a unique id is calm.  One that was created beside it is calm while a form is open, and
\* has its reloads and new codes when none is.
OneMoves ==
    /\ (\E id \in Ids : Exists(id) /\ entry[id].restart) => OpenForms # Forms
    /\ Exists("none") =>
         /\ Calm("none")
         /\ Exists("upper") =>
              /\ IF OpenForms = {} THEN stale = {} ELSE Calm("upper") /\ OpenForms # Forms
              /\ ~entry["upper"].restart
=============================================================================
