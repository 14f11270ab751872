---------------------------- MODULE ResultStore -----------------------------
(***************************************************************************)
(* The result store of the leader (netanvil-distributed, result_store.rs): *)
(* one file per test and an index file, each replaced by a rename.  save() *)
(* is a sequence of disk operations; the process may stop between any two  *)
(* of them and each may fail.  A temporary file is never read, so a write  *)
(* that was not renamed leaves nothing behind.                             *)
(***************************************************************************)
EXTENDS Naturals, Sequences, FiniteSets, Functions, Filter

CONSTANTS
    MaxTests,       \* bound: tests that are created
    max_results     \* ResultStore.max_results

ASSUME StoreAssumption == MaxTests \in Nat \ {0} /\ max_results \in Nat

Tests == 1..MaxTests
Terminal == {"Completed", "Failed", "Cancelled"}
Status == {"Queued", "Running"} \cup Terminal
TestInfo == [id : Tests, status : Status]

VARIABLES
    entries,        \* the status in the file of each test, or "absent"
    index,          \* index.json
    save,           \* the save() that is being executed and where it is
    doomed          \* files that its prune() still has to remove

storeVars == <<entries, index, save, doomed>>

StoreTypeOK ==
    /\ entries \in [Tests -> Status \cup {"absent"}]
    /\ index \in Seq(TestInfo)
    /\ save \in [pc : {"idle", "entry", "prune"}, id : Tests, status : Status]
    /\ doomed \in Seq(Tests)

StoreInit ==
    /\ entries = [t \in Tests |-> "absent"]
    /\ index = <<>>
    /\ save = [pc |-> "idle", id |-> 1, status |-> "Queued"]
    /\ doomed = <<>>

(* The positions of the finished tests in an index.                        *)
TerminalAt(idx) == {k \in DOMAIN idx : idx[k].status \in Terminal}

-----------------------------------------------------------------------------
(* The index with the entry replaced or appended.                          *)
Updated(id, status) ==
    LET info == [id |-> id, status |-> status] IN
    IF \E k \in DOMAIN index : index[k].id = id
    THEN [k \in DOMAIN index |-> IF index[k].id = id THEN info ELSE index[k]]
    ELSE Append(index, info)

(* Faulty variant: one entry too many is removed.                          *)
ExcessOneMore(n) == n + 1 - max_results

Excess(n) == n - max_results

(* prune: the first entries of finished tests, down to max_results.        *)
PruneIds(idx) ==
    LET terminal == Filtered(idx, TerminalAt(idx)) IN
    IF Len(terminal) <= max_results
    THEN <<>>
    ELSE [k \in 1..Excess(Len(terminal)) |-> terminal[k].id]

(* Faulty variant: the files are removed and the index keeps them.         *)
PrunedNot(idx) == idx

Pruned(idx) == Filtered(idx, {k \in DOMAIN idx : idx[k].id \notin Range(PruneIds(idx))})

-----------------------------------------------------------------------------
BeginSave(t, status) ==
    /\ save' = [pc |-> "entry", id |-> t, status |-> status]
    /\ UNCHANGED <<entries, index, doomed>>

(* The rename of the entry file; then the index is loaded and pruned.      *)
WriteEntry ==
    /\ save.pc = "entry"
    /\ entries' = [entries EXCEPT ![save.id] = save.status]
    /\ doomed' = PruneIds(Updated(save.id, save.status))
    /\ save' = [save EXCEPT !.pc = "prune"]
    /\ UNCHANGED index

(* One removal of prune().  A removal that fails is ignored.               *)
RemoveFile(ok) ==
    /\ save.pc = "prune" /\ doomed # <<>>
    /\ entries' = IF ok THEN [entries EXCEPT ![Head(doomed)] = "absent"] ELSE entries
    /\ doomed' = Tail(doomed)
    /\ UNCHANGED <<index, save>>

(* The rename of the index file ends the save.                             *)
WriteIndex ==
    /\ save.pc = "prune" /\ doomed = <<>>
    /\ index' = Pruned(Updated(save.id, save.status))
    /\ save' = [save EXCEPT !.pc = "idle"]
    /\ UNCHANGED <<entries, doomed>>

(* Writing the entry or the index fails: save() returns the error.         *)
WriteFails ==
    /\ save.pc = "entry" \/ (save.pc = "prune" /\ doomed = <<>>)
    /\ save' = [save EXCEPT !.pc = "idle"]
    /\ UNCHANGED <<entries, index, doomed>>

StoreStep == WriteEntry \/ RemoveFile(TRUE) \/ WriteIndex
StoreFailure == WriteFails \/ RemoveFile(FALSE)

(* The process stops: what save() had not done yet is never done.          *)
StoreCrash ==
    /\ save' = [save EXCEPT !.pc = "idle"]
    /\ doomed' = <<>>
    /\ UNCHANGED <<entries, index>>
=============================================================================
