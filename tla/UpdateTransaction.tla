-------------------------- MODULE UpdateTransaction -------------------------
(***************************************************************************)
(* One self-update (src/bot/updater.py, apply_update): local changes are    *)
(* stashed, the release's commit is checked out on main, its migration      *)
(* steps, pip and a smoke test run, the changes come back; a failure at any *)
(* point is compensated by a rollback of the code, then the data, then the  *)
(* branch.  A marker on disk, written ahead of each phase, is to keep a bot *)
(* that died half way from booting (src/bot/_bootstrap.py); the boot also   *)
(* installs dependencies and runs the chain of data migrations              *)
(* (src/bot/migrations).  The exclusion of everything else during an update *)
(* is MaintenanceGate's.                                                    *)
(*                                                                          *)
(* An action is one child process (git, pip, a step) or one write: the bot  *)
(* may die, and the update be cancelled, between any two.                   *)
(***************************************************************************)
EXTENDS Naturals

CONSTANT Chain      \* how many migrations the new release adds to the chain

ASSUME ChainAssumption == Chain \in Nat

VARIABLES
    home,       \* the branch the installation was on when it was set up
    notes,      \* the release notes ask for migration steps
    tree,       \* the checkout: branch, what main points at, how whole it is
    wip,        \* where the user's local changes are: working tree, stash
    data,       \* DATA_DIR: migration steps of the release, migration chain
    aside,      \* its copy while a restore swaps the directories
    venv,       \* the installed packages and .robyx_deps_hash
    marker,     \* active-update.json: the phase it names
    tx,         \* the update in progress: where it is and its local flags
    bot,        \* the process: down, on its way up, up
    image,      \* the release the running process was loaded from
    poisoned,   \* the maintenance gate's poison
    left,       \* history: the gate was opened on something not put back
    torn        \* history: an exception once the local changes were back

files == <<tree, wip, data, aside, venv, marker>>
vars == <<home, notes, tree, wip, data, aside, venv, marker, tx, bot, image,
          poisoned, left, torn>>

NoTx == [at |-> "idle", switched |-> FALSE, moved |-> FALSE, pending |-> FALSE,
         code |-> FALSE, ok |-> TRUE, repop |-> TRUE, shielded |-> FALSE]

OldData == [steps |-> "none", chain |-> 0, recorded |-> 0]
NoData == [steps |-> "gone", chain |-> 0, recorded |-> 0]
Nothing == "nothing"

-----------------------------------------------------------------------------
\* The code that a process started now would load.
Code == IF ~tree.whole THEN "unknown"
        ELSE IF tree.head # "main" THEN "old"
        ELSE IF tree.main = "new" THEN "new"
        ELSE IF home = "main" THEN "old"
        ELSE "other"        \* main, of an installation on its own branch

\* The data that a release expects to find.
Fits(release) ==
    IF release = "new" THEN data.steps = (IF notes THEN "all" ELSE "none")
                       ELSE data = OldData

\* The marker where the next boot looks for it: inside DATA_DIR.
MarkerSeen == marker # Nothing /\ aside = {}

\* The verified archive of DATA_DIR.
Snapshot == OldData

\* mark_transaction: the marker is on disk before the phase begins.
Mark(phase) == marker' = phase

MarkerCleared == marker' = Nothing

Goto(where) == tx' = [tx EXCEPT !.at = where]

\* The transaction returns; the gate opens unless it is poisoned.
Leave == tx' = NoTx

\* rollback_failure, or abort_before_install if nothing was mutated.
Rollback(repop) ==
    tx' = [tx EXCEPT !.at = IF tx.code THEN "undo code" ELSE IF tx.moved THEN "undo data"
                            ELSE "undo branch",
                     !.repop = repop, !.ok = TRUE]

\* Mutant: a cancellation reaches the rollback.
Shielded_Not == Rollback(TRUE)
\* The same on an exception: a task of its own, which a cancellation cannot reach.
Shielded ==
    tx' = [tx EXCEPT !.at = IF tx.code THEN "undo code" ELSE IF tx.moved THEN "undo data"
                            ELSE "undo branch",
                     !.repop = TRUE, !.ok = TRUE, !.shielded = TRUE]

-----------------------------------------------------------------------------
(***************************************************************************)
(* Forward.                                                                 *)
(***************************************************************************)
\* _preflight_git_state: no unmerged paths, no merge in progress.
Preflight == tree.whole /\ ~tree.conflict

\* Anchor and verified snapshot change nothing; the marker does.  (An update that
\* starts over what an earlier one left behind is not modelled.)
Begin ==
    /\ bot = "up" /\ image = "old" /\ tx.at = "idle" /\ ~poisoned
    /\ Preflight /\ marker = Nothing /\ Code = "old" /\ wip # {"stash"}
    /\ Mark("stash")
    /\ Goto("stash")
    /\ UNCHANGED <<home, notes, tree, wip, data, aside, venv, bot, image, poisoned, left, torn>>

Stash ==
    /\ tx.at = "stash"
    /\ \/ /\ wip' = IF wip = {} THEN {} ELSE {"stash"}
          /\ tx' = [tx EXCEPT !.at = "attach", !.pending = wip # {}]
          /\ UNCHANGED poisoned
       \/ /\ wip' = wip \/ wip' = {"stash"}
          /\ wip # {}
          /\ poisoned' = TRUE
          /\ Leave
    /\ UNCHANGED <<home, notes, tree, data, aside, venv, marker, bot, image, left, torn>>

\* HEAD is attached to main; its commit there is what a rollback returns to.  The
\* checkout fails, or the commit cannot be read.
Attach ==
    /\ tx.at = "attach"
    /\ \/ /\ tree' = [tree EXCEPT !.head = "main"]
          /\ Mark("workspace-prepare")
          /\ tx' = [tx EXCEPT !.at = "resolve", !.switched = home # "main"]
       \/ /\ tree' = tree \/ tree' = [tree EXCEPT !.head = "main"]
          /\ tx' = [tx EXCEPT !.at = "undo branch", !.switched = home # "main"]
          /\ UNCHANGED marker
    /\ UNCHANGED <<home, notes, wip, data, aside, venv, bot, image, poisoned, left, torn>>

\* The tag is ambiguous, moved, absent, or its notes are of another version.
CannotResolve == Rollback(TRUE) /\ UNCHANGED <<marker, tree>>

\* The tag is resolved to a commit.  Personal files are copied into data/: from
\* here on a rollback restores the data as well.
Resolve ==
    /\ tx.at = "resolve"
    /\ \/ /\ tx' = [tx EXCEPT !.at = "prepared", !.moved = TRUE]
          /\ UNCHANGED <<marker, tree>>
       \/ CannotResolve
    /\ UNCHANGED <<home, notes, wip, data, aside, venv, bot, image, poisoned, left, torn>>

\* The checkout begins, and until it has ended the tree is in an unknown state.
Replace ==
    /\ tx.at = "prepared"
    /\ Mark("checkout")
    /\ tree' = [tree EXCEPT !.whole = FALSE]
    /\ tx' = [tx EXCEPT !.at = "checkout", !.code = TRUE]
    /\ UNCHANGED <<home, notes, wip, data, aside, venv, bot, image, poisoned, left, torn>>

Installed == tree' = [tree EXCEPT !.main = "new", !.whole = TRUE]

Checkout ==
    /\ tx.at = "checkout"
    /\ \/ Installed /\ Goto("migrate")
       \/ Rollback(TRUE) /\ UNCHANGED tree
    /\ UNCHANGED <<home, notes, wip, data, aside, venv, marker, bot, image, poisoned, left, torn>>

\* The release's migration steps begin, if it has any.
Migrate ==
    /\ tx.at = "migrate"
    /\ IF notes THEN /\ Mark("migration") /\ Goto("migrating")
                     /\ data' = [data EXCEPT !.steps = "some"]
                ELSE /\ Goto("deps") /\ UNCHANGED <<marker, data>>
    /\ UNCHANGED <<home, notes, tree, wip, aside, venv, bot, image, poisoned, left, torn>>

MigrateReturns ==
    /\ tx.at = "migrating"
    /\ \/ data' = [data EXCEPT !.steps = "all"] /\ Goto("deps")
       \/ Rollback(TRUE) /\ UNCHANGED data
    /\ UNCHANGED <<home, notes, tree, wip, aside, venv, marker, bot, image, poisoned, left, torn>>

\* pip replaces one package after the other.
Install ==
    /\ tx.at = "deps"
    /\ Mark("dependencies")
    /\ venv' = [venv EXCEPT !.packages = "mixed"]
    /\ Goto("pip")
    /\ UNCHANGED <<home, notes, tree, wip, data, aside, bot, image, poisoned, left, torn>>

\* The fingerprint may fail to be written; that is logged.
InstallReturns ==
    /\ tx.at = "pip"
    /\ \/ /\ \E hash \in {"new", venv.hash} : venv' = [packages |-> "new", hash |-> hash]
          /\ Mark("smoke-test")
          /\ Goto("smoke")
       \/ Rollback(TRUE) /\ UNCHANGED <<venv, marker>>
    /\ UNCHANGED <<home, notes, tree, wip, data, aside, bot, image, poisoned, left, torn>>

\* The smoke child passes the boot gate if the marker's target is checked out,
\* and must find the fingerprint its parent wrote.
SmokeAdmitted == marker = "smoke-test" /\ Code = "new" /\ venv.hash = "new"

Smoke ==
    /\ tx.at = "smoke"
    /\ \/ SmokeAdmitted /\ Goto("pop")
       \/ Rollback(TRUE)
    /\ UNCHANGED <<home, notes, files, bot, image, poisoned, left, torn>>

\* A conflict leaves the local changes in both places.
PopConflict ==
    /\ wip' = {"tree", "stash"}
    /\ tree' = [tree EXCEPT !.conflict = TRUE]

\* Local changes come back; a pop that fails without a conflict counts as done.
Pop ==
    /\ tx.at = "pop"
    /\ \/ /\ ~tx.pending /\ Goto("verify")
          /\ UNCHANGED <<wip, tree>>
       \/ /\ tx.pending
          /\ \E place \in {"tree", "stash"} : wip' = {place}
          /\ tx' = [tx EXCEPT !.at = "verify", !.pending = FALSE]
          /\ UNCHANGED tree
       \/ tx.pending /\ PopConflict /\ Rollback(FALSE)
    /\ UNCHANGED <<home, notes, data, aside, venv, marker, bot, image, poisoned, left, torn>>

\* The changes may have broken the syntax of a file, or VERSION: they are stashed
\* again before the rollback.
Restash_Skipped == wip' = wip /\ Rollback(FALSE)
Restash ==
    /\ wip' = {"stash"}
    /\ tx' = [tx EXCEPT !.at = "undo code", !.repop = FALSE, !.pending = TRUE]

\* HEAD and VERSION are compared last.  If the changes cannot be stashed again
\* everything is left as it is.
Verify ==
    /\ tx.at = "verify"
    /\ \/ Goto("record") /\ UNCHANGED <<wip, left>>
       \/ wip # {} /\ Restash /\ UNCHANGED left
       \/ wip # {} /\ Leave /\ left' = TRUE /\ UNCHANGED wip
       \/ wip = {} /\ Rollback(FALSE) /\ UNCHANGED <<wip, left>>
    /\ UNCHANGED <<home, notes, tree, data, aside, venv, marker, bot, image, poisoned, torn>>

\* The gate's finalize removes the marker, and the service manager restarts the bot.
Finalize == MarkerCleared /\ bot' = "restarting"

\* Sessions are reset, success recorded.  If the marker cannot be removed nothing
\* restarts.
Commit ==
    /\ tx.at = "record"
    /\ \/ Finalize /\ UNCHANGED left
       \/ left' = TRUE /\ UNCHANGED <<marker, bot>>
    /\ Leave
    /\ UNCHANGED <<home, notes, tree, wip, data, aside, venv, image, poisoned, torn>>

-----------------------------------------------------------------------------
(***************************************************************************)
(* Back.                                                                    *)
(***************************************************************************)
Forward == {"attach", "resolve", "prepared", "checkout", "migrate", "migrating", "deps", "pip",
            "smoke", "pop", "verify", "record"}
Undoing == {"undo code", "undo branch", "undo stash"}

\* An I/O error or a cancellation, between two awaits or within one (a pop may
\* have been done by then).  The rollback that follows is shielded.
Throws ==
    /\ tx.at \in Forward \cup Undoing /\ ~tx.shielded
    /\ \/ UNCHANGED wip
       \/ tx.at \in {"pop", "undo stash"} /\ tx.pending /\ wip' = {"tree"}
    /\ Shielded
    /\ torn' = (torn \/ "tree" \in wip')
    /\ left' = (left \/ tx.at = "undo stash")
    /\ UNCHANGED <<home, notes, tree, data, aside, venv, marker, bot, image, poisoned>>

\* A hard reset of main; it takes changes in the tree with it.
ResetMain ==
    /\ tree' = [head |-> "main", main |-> "base", whole |-> TRUE, conflict |-> FALSE]
    /\ wip' = wip \ {"tree"}

\* A pop on an error path: whether it worked is only logged.
PopBack ==
    IF tx.repop /\ tx.pending /\ wip = {"stash"}
    THEN \E place \in {"tree", "stash"} : wip' = {place}
    ELSE wip' = wip

\* An exception of git (its 60 s are over, it cannot be started, the update is
\* canceled) that nothing in the transaction catches: of the stash, which comes before the try, or of a
\* rollback that an exception had started.  git may have done its work.  The
\* gate opens unpoisoned over what is not put back, and the marker stays.
Escapes ==
    /\ \/ /\ tx.at = "stash"
          /\ wip' \in {wip, IF wip = {} THEN {} ELSE {"stash"}}
          /\ UNCHANGED tree
       \/ /\ tx.at = "undo code" /\ tx.shielded
          /\ UNCHANGED <<tree, wip>> \/ ResetMain
       \/ /\ tx.at = "undo branch" /\ tx.shielded /\ tx.switched
          /\ tree' = tree \/ tree' = [tree EXCEPT !.head = home]
          /\ UNCHANGED wip
       \/ /\ tx.at = "undo stash" /\ tx.shielded /\ tx.repop /\ tx.pending
          /\ PopBack
          /\ UNCHANGED tree
    /\ left' = TRUE
    /\ Leave
    /\ UNCHANGED <<home, notes, data, aside, venv, marker, bot, image, poisoned, torn>>

\* _rollback_code_to.
UndoCode ==
    /\ tx.at = "undo code"
    /\ \/ /\ ResetMain
          /\ Goto("undo data")
          /\ UNCHANGED poisoned
       \/ /\ poisoned' = TRUE
          /\ Leave
          /\ UNCHANGED <<tree, wip>>
    /\ UNCHANGED <<home, notes, data, aside, venv, marker, bot, image, left, torn>>

\* _restore_data_dir: the snapshot is staged, and DATA_DIR renamed.  A failure up
\* to here, or one whose compensation works, leaves the data as they are.
UndoData ==
    /\ tx.at = "undo data"
    /\ \/ aside' = {data} /\ data' = NoData /\ Goto("swap")
       \/ tx' = [tx EXCEPT !.at = "undo branch", !.ok = FALSE] /\ UNCHANGED <<aside, data>>
    /\ UNCHANGED <<home, notes, tree, wip, venv, marker, bot, image, poisoned, left, torn>>

\* The staged tree takes its place, then backups/ with the marker come back into
\* it, and the agents are loaded again.
Swap ==
    /\ tx.at = "swap"
    /\ \/ data' = Snapshot /\ aside' = aside /\ Goto("backups")
       \/ /\ data' \in aside /\ aside' = {}
          /\ tx' = [tx EXCEPT !.at = "undo branch", !.ok = FALSE]
       \/ tx' = [tx EXCEPT !.at = "undo branch", !.ok = FALSE] /\ UNCHANGED <<aside, data>>
    /\ UNCHANGED <<home, notes, tree, wip, venv, marker, bot, image, poisoned, left, torn>>

BringBackups ==
    /\ tx.at = "backups"
    /\ \/ /\ aside' = {} /\ data' = data
          /\ \E loaded \in BOOLEAN : tx' = [tx EXCEPT !.at = "undo branch", !.ok = loaded]
       \/ /\ data' \in aside /\ aside' = {}
          /\ tx' = [tx EXCEPT !.at = "undo branch", !.ok = FALSE]
    /\ UNCHANGED <<home, notes, tree, wip, venv, marker, bot, image, poisoned, left, torn>>

\* Mutant: what could not be restored is forgotten.
AllBack_Assumed == TRUE
AllBack == tx.ok

\* HEAD returns to the branch it was on, and VERSION is compared, which another
\* commit may share.  Unless all of it succeeds the gate is poisoned, and marker and
\* stash stay.
UndoBranch ==
    /\ tx.at = "undo branch"
    /\ \/ /\ tree' = IF tx.switched THEN [tree EXCEPT !.head = home] ELSE tree
          /\ AllBack
          /\ tx' = [tx EXCEPT !.at = "undo stash", !.switched = FALSE]
          /\ UNCHANGED poisoned
       \/ /\ tree' = tree \/ tree' = [tree EXCEPT !.head = home]
          /\ ~tx.ok \/ tx.switched \/ Code # "old"
          /\ poisoned' = TRUE
          /\ Leave
    /\ UNCHANGED <<home, notes, wip, data, aside, venv, marker, bot, image, left, torn>>

UndoStash ==
    /\ tx.at = "undo stash"
    /\ PopBack
    /\ MarkerCleared \/ UNCHANGED marker
    /\ left' = (left \/ marker' # Nothing)
    /\ Leave
    /\ UNCHANGED <<home, notes, tree, data, aside, venv, bot, image, poisoned, torn>>

-----------------------------------------------------------------------------
(***************************************************************************)
(* Death and boot.                                                          *)
(***************************************************************************)
Dies ==
    /\ bot # "down"
    /\ bot' = "down" /\ image' = Nothing /\ poisoned' = FALSE
    /\ Leave
    /\ UNCHANGED <<home, notes, files, left, torn>>

Lock(code) == IF code = "new" THEN "new" ELSE "old"

\* Mutant: the boot goes on when a marker is there.
Gate_Open == TRUE
\* _assert_no_interrupted_update.
Gate == ~MarkerSeen

\* ensure_dependencies: pip runs only if the fingerprint is another.
Boot ==
    /\ bot \in {"down", "restarting"} /\ Gate
    /\ image' = Code
    /\ IF venv.hash = Lock(Code)
       THEN bot' = "migrating" /\ UNCHANGED venv
       ELSE bot' = "installing" /\ venv' = [venv EXCEPT !.packages = "mixed"]
    /\ UNCHANGED <<home, notes, tree, wip, data, aside, marker, tx, poisoned, left, torn>>

BootInstalls ==
    /\ bot = "installing"
    /\ \/ /\ \E hash \in {Lock(Code), venv.hash} :
                venv' = [packages |-> Lock(Code), hash |-> hash]
          /\ bot' = "migrating"
       \/ bot' = "down" /\ UNCHANGED venv
    /\ UNCHANGED <<home, notes, tree, wip, data, aside, marker, tx, image, poisoned, left, torn>>

\* slice_pending.
Pending == image = "new" /\ data.recorded < Chain

\* run_chain: a migration runs, then it is recorded; at the first that fails the
\* chain stops, and the bot comes up all the same.
Upgrade ==
    /\ bot = "migrating" /\ Pending /\ data.chain = data.recorded
    /\ data' = [data EXCEPT !.chain = @ + 1]
    /\ UNCHANGED <<home, notes, tree, wip, aside, venv, marker, tx, bot, image, poisoned, left, torn>>

RecordStep ==
    /\ bot = "migrating" /\ Pending /\ data.chain > data.recorded
    /\ data' = [data EXCEPT !.recorded = @ + 1]
    /\ UNCHANGED <<home, notes, tree, wip, aside, venv, marker, tx, bot, image, poisoned, left, torn>>

ComesUp ==
    /\ bot = "migrating"
    /\ bot' = "up"
    /\ UNCHANGED <<home, notes, files, tx, image, poisoned, left, torn>>

-----------------------------------------------------------------------------
Init ==
    /\ home \in {"main", "own"} /\ notes \in BOOLEAN
    /\ tree = [head |-> home, main |-> "base", whole |-> TRUE, conflict |-> FALSE]
    /\ wip \in {{}, {"tree"}}
    /\ data = OldData /\ aside = {}
    /\ venv = [packages |-> "old", hash |-> "old"]
    /\ marker = Nothing /\ tx = NoTx
    /\ bot = "up" /\ image = "old" /\ poisoned = FALSE
    /\ left = FALSE /\ torn = FALSE

Step == Stash \/ Attach \/ Resolve \/ Replace \/ Checkout \/ Migrate \/ MigrateReturns \/ Install
        \/ InstallReturns \/ Smoke \/ Pop \/ Verify \/ Commit \/ UndoCode \/ UndoData
        \/ Swap \/ BringBackups \/ UndoBranch \/ UndoStash

Next == \/ Begin \/ Step \/ Throws \/ Escapes
        \/ Dies \/ Boot \/ BootInstalls \/ Upgrade \/ RecordStep \/ ComesUp

\* Every child of the updater has a timeout; git, the steps and pip end.
Spec == Init /\ [][Next]_vars /\ WF_vars(Step)

-----------------------------------------------------------------------------
(***************************************************************************)
(* Properties.                                                              *)
(***************************************************************************)
Datas == [steps : {"none", "some", "all", "gone"}, chain : 0..Chain, recorded : 0..Chain]

\* Every variable stays in its domain.
TypeOK ==
    /\ home \in {"main", "own"} /\ notes \in BOOLEAN
    /\ tree \in [head : {"main", "own"}, main : {"base", "new"}, whole : BOOLEAN,
                 conflict : BOOLEAN]
    /\ wip \subseteq {"tree", "stash"}
    /\ data \in Datas /\ aside \in {{}} \cup {{d} : d \in Datas}
    /\ venv \in [packages : {"old", "new", "mixed"}, hash : {"old", "new"}]
    /\ marker \in {Nothing, "stash", "workspace-prepare", "checkout", "migration",
                   "dependencies", "smoke-test"}
    /\ tx.at \in Forward \cup Undoing \cup {"idle", "stash", "undo data", "swap", "backups"}
    /\ bot \in {"down", "restarting", "installing", "migrating", "up"}
    /\ image \in {"old", "new", "other", "unknown", Nothing}

\* A bot never comes up on code half installed, with conflict markers in it, or on
\* data that another release's steps have touched -- but for a death between the
\* renames of a restore -- and a new release comes up on its own packages only.
\* What the migration tracker has recorded by then has been run.
BootsAreWhole ==
    bot = "migrating" /\ aside = {} =>
        /\ image \in {"old", "new"} \/ left
        /\ ~tree.conflict /\ Fits(image)
        /\ image = "new" => venv.packages = "new"
        /\ data.recorded <= data.chain

\* When the gate is open again after an update that failed, everything is put
\* back and the marker is gone -- or HEAD stays on main, when an exception met
\* the last step of a rollback.  What cannot be put back leaves the gate poisoned;
\* where it does not, the marker is there to stop the next boot, and the failure
\* is one the code does not compensate: an exception of the stash or of a rollback
\* (Escapes), changes that cannot be stashed again, a marker that cannot be removed.
FailureRestores ==
    bot = "up" /\ image = "old" /\ tx.at = "idle" /\ ~poisoned /\ aside = {}
        => \/ /\ marker = Nothing /\ data = OldData /\ ~tree.conflict
              /\ Code = "old" \/ (left /\ Code = "other")
           \/ marker # Nothing /\ left

\* Local changes are never lost, unless an exception or a cancellation met the
\* update when they were back in the tree.
LocalWorkSurvives == [][wip # {} => wip' # {} \/ torn']_vars

\* Every update ends, committed or rolled back, whatever fails on the way.
EveryUpdateEnds == tx.at # "idle" ~> tx.at = "idle"
=============================================================================
