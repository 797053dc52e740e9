---------------------- MODULE UpdateTransactionProofs ----------------------
(***************************************************************************)
(* Theorems about UpdateTransaction, for any length of the migration chain.  *)
(***************************************************************************)
EXTENDS UpdateTransaction, TLAPS

-----------------------------------------------------------------------------
(***************************************************************************)
(* The inductive invariant: what each point of the transaction, and of the  *)
(* boot, finds on disk.                                                     *)
(***************************************************************************)
Places == Forward \cup Undoing \cup {"idle", "stash", "undo data", "swap", "backups"}
Ahead == Forward \cup {"stash"}
Undone == Undoing \cup {"undo data", "swap", "backups"}
Txs == [at : Places, switched : BOOLEAN, moved : BOOLEAN, pending : BOOLEAN,
        code : BOOLEAN, ok : BOOLEAN, repop : BOOLEAN, shielded : BOOLEAN]
Venvs == [packages : {"old", "new", "mixed"}, hash : {"old", "new"}]

\* The two releases, as a checkout of main, and the data each goes with.
BaseIn(where) == tree = [head |-> where, main |-> "base", whole |-> TRUE, conflict |-> FALSE]
NewIn == tree = [head |-> "main", main |-> "new", whole |-> TRUE, conflict |-> FALSE]
Returned == BaseIn(home) \/ (left /\ BaseIn("main"))
\* The files of the release are untouched, and HEAD is away only if that is known.
Untouched == (BaseIn(home) \/ BaseIn("main")) /\ (~tx.switched => Returned)
Migrated == data = [steps |-> (IF notes THEN "all" ELSE "none"), chain |-> 0, recorded |-> 0]
Packed == venv = [packages |-> "new", hash |-> "new"]

\* Without a marker the installation is of one release.
Settled ==
    /\ aside = {}
    /\ \/ data = OldData /\ Returned
       \/ NewIn /\ Packed /\ Fits("new")
          /\ data.chain \in Nat /\ data.recorded \in Nat /\ data.recorded <= data.chain
          /\ DOMAIN data = DOMAIN OldData

\* Between two transactions: settled, or marked, and then nothing boots.
IdleOK ==
    tx.at = "idle" =>
        /\ tx = NoTx
        /\ marker = Nothing =>
              /\ Settled
              /\ bot \in {"installing", "migrating"} => image = Code
              /\ bot = "up" => image = Code \/ (left /\ image = "old" /\ Code = "other")
        /\ marker # Nothing /\ aside = {} => bot = "down" \/ (bot = "up" /\ (poisoned \/ left))

\* A transaction runs in the old release's process, under its marker.
ActiveOK == tx.at # "idle" => bot = "up" /\ image = "old" /\ ~poisoned /\ marker # Nothing

\* On the way forward each phase finds what the ones before it have left.
ForwardOK ==
    /\ tx.at \in Ahead => aside = {} /\ ~tx.shielded
    /\ tx.at \in {"stash", "attach", "resolve"} => ~tx.code /\ ~tx.moved /\ data = OldData
    /\ tx.at \in {"stash", "attach"} => BaseIn(home) /\ ~tx.switched
    /\ tx.at \in {"resolve", "prepared"} => BaseIn("main")
    /\ tx.at = "prepared" => ~tx.code /\ tx.moved /\ data = OldData
    /\ tx.at \in Forward \ {"attach"} => tx.switched = (home # "main")
    /\ tx.at \in Forward \ {"attach", "resolve", "prepared"} => tx.code /\ tx.moved
    /\ tx.at = "checkout" =>
          /\ tree = [head |-> "main", main |-> "base", whole |-> FALSE, conflict |-> FALSE]
          /\ data = OldData
    /\ tx.at \in Forward \ {"attach", "resolve", "prepared", "checkout"} => NewIn
    /\ tx.at = "migrate" => data = OldData
    /\ tx.at = "migrating" => notes /\ data = [OldData EXCEPT !.steps = "some"]
    /\ tx.at \in {"deps", "pip", "smoke", "pop", "verify", "record"} => Migrated
    /\ tx.at = "smoke" => venv.packages = "new"
    /\ tx.at \in {"pop", "verify", "record"} => Packed

\* On the way back each phase has undone its part, or is known to have failed.
BackOK ==
    /\ tx.at \in Undone =>
          /\ tx.code => tx.moved
          /\ tx.switched => home = "own"
          /\ ~tx.moved => data = OldData /\ aside = {}
          /\ ~tx.code => Untouched
    /\ tx.at = "undo code" => tx.code
    /\ tx.at \in Undone \ {"undo stash"} /\ tx.code /\ ~tx.switched => home = "main" \/ left
    /\ tx.at \in {"undo data", "swap", "backups"} =>
          /\ tx.moved
          /\ tx.code => BaseIn("main")
    /\ tx.at = "backups" => data = OldData
    /\ tx.at = "undo branch" => Untouched /\ (tx.ok => data = OldData /\ aside = {})
    /\ tx.at = "undo stash" => Returned /\ data = OldData /\ aside = {}

\* The local changes are in the stash while the tree is replaced, and before it is reset.
WipOK ==
    /\ tx.at \in Forward \ {"verify", "record"} => "tree" \notin wip
    /\ tx.at = "undo code" /\ "tree" \in wip => "stash" \in wip \/ torn

ShapeOK == tx \in Txs /\ home \in {"main", "own"} /\ venv \in Venvs

Inv == ShapeOK /\ IdleOK /\ ActiveOK /\ ForwardOK /\ BackOK /\ WipOK

-----------------------------------------------------------------------------
(***************************************************************************)
(* What becomes of the transaction's record.                                *)
(***************************************************************************)
SameFlags ==
    /\ tx'.switched = tx.switched /\ tx'.moved = tx.moved /\ tx'.code = tx.code
    /\ tx'.shielded = tx.shielded /\ tx'.ok = tx.ok

GoesOn(w) == tx' \in Txs /\ tx'.at = w /\ SameFlags

TurnsBack ==
    /\ tx' \in Txs
    /\ tx'.at = IF tx.code THEN "undo code" ELSE IF tx.moved THEN "undo data" ELSE "undo branch"
    /\ tx'.switched = tx.switched /\ tx'.moved = tx.moved /\ tx'.code = tx.code

LEMMA TxFacts ==
    ASSUME tx \in Txs
    PROVE  /\ \A w \in Places : Goto(w) => GoesOn(w)
           /\ \A r \in BOOLEAN : Rollback(r) => TurnsBack
           /\ Shielded => TurnsBack
           /\ NoTx \in Txs /\ NoTx.at = "idle"
<1> USE DEF Txs
<1>1. \A w \in Places : Goto(w) => GoesOn(w)
    BY DEF Goto, GoesOn, SameFlags
<1>2. \A r \in BOOLEAN : Rollback(r) => TurnsBack
    BY DEF Rollback, TurnsBack, Places, Forward, Undoing
<1>3. Shielded => TurnsBack
    BY DEF Shielded, TurnsBack, Places, Forward, Undoing
<1>4. NoTx \in Txs /\ NoTx.at = "idle"
    BY DEF NoTx, Places
<1> QED
    BY <1>1, <1>2, <1>3, <1>4

\* What no step of a transaction touches, and its marker.
Running ==
    /\ home' = home /\ notes' = notes /\ bot' = "up" /\ image' = "old" /\ ~poisoned'
    /\ marker' # Nothing /\ venv' \in Venvs

LEMMA RunningFacts ==
    ASSUME Inv, tx.at # "idle"
    PROVE  /\ ShapeOK /\ tx \in Txs /\ bot = "up" /\ image = "old" /\ ~poisoned /\ marker # Nothing
           /\ bot' = bot /\ image' = image /\ poisoned' = poisoned /\ home' = home /\ notes' = notes
              /\ marker' # Nothing /\ (venv' = venv \/ venv' \in Venvs) => Running
    BY DEF Inv, ActiveOK, ShapeOK, Running

\* One phase further.
LEMMA Advances ==
    ASSUME ShapeOK, Running, tx' \in Txs, tx'.at \in Ahead, ForwardOK',
           tx'.at \in {"stash", "verify", "record"} \/ "tree" \notin wip'
    PROVE  Inv'
<1>1. ShapeOK' /\ ActiveOK'
    BY DEF ShapeOK, ActiveOK, Running
<1>2. IdleOK' /\ BackOK' /\ WipOK'
    BY DEF IdleOK, BackOK, WipOK, Ahead, Undone, Forward, Undoing
<1> QED
    BY <1>1, <1>2 DEF Inv

\* A rollback begins: by the flags, with the code, the data or the branch.
LEMMA RollbackBegins ==
    ASSUME ShapeOK, Running, TurnsBack, tx.code => tx.moved, tx.switched => home = "own",
           ~tx.moved => data' = OldData /\ aside' = {}, ~tx.code => Untouched',
           tx.code /\ ~tx.switched => home = "main" \/ left',
           tx.code => "tree" \notin wip' \/ "stash" \in wip' \/ torn'
    PROVE  Inv'
<1>1. /\ tx'.at = IF tx.code THEN "undo code" ELSE IF tx.moved THEN "undo data" ELSE "undo branch"
      /\ tx' \in Txs /\ tx'.switched = tx.switched /\ tx'.moved = tx.moved /\ tx'.code = tx.code
    BY DEF TurnsBack
<1>2. ShapeOK' /\ ActiveOK'
    BY <1>1 DEF ShapeOK, ActiveOK, Running
<1>3. IdleOK' /\ ForwardOK'
    BY <1>1 DEF IdleOK, ForwardOK, Ahead, Forward
<1>4. BackOK'
  <2>1. home' = home
    BY DEF Running
  <2>2. CASE tx.code
    BY <1>1, <2>1, <2>2 DEF BackOK, Undone, Undoing
  <2>3. CASE ~tx.code /\ tx.moved
    BY <1>1, <2>1, <2>3 DEF BackOK, Undone, Undoing
  <2>4. CASE ~tx.code /\ ~tx.moved
    BY <1>1, <2>1, <2>4 DEF BackOK, Undone, Undoing
  <2> QED
    BY <2>2, <2>3, <2>4
<1>5. WipOK'
    BY <1>1 DEF WipOK, Forward
<1> QED
    BY <1>2, <1>3, <1>4, <1>5 DEF Inv

\* It goes on, past the code.
LEMMA BackFurther ==
    ASSUME ShapeOK, Running, tx' \in Txs, tx'.at \in Undone \ {"undo code"}, BackOK'
    PROVE  Inv'
<1>1. ShapeOK' /\ ActiveOK'
    BY DEF ShapeOK, ActiveOK, Running, Undone, Undoing
<1>2. IdleOK' /\ ForwardOK' /\ WipOK'
    BY DEF IdleOK, ForwardOK, WipOK, Ahead, Undone, Forward, Undoing
<1> QED
    BY <1>1, <1>2 DEF Inv

\* It ends, one way or the other.
LEMMA Stops ==
    ASSUME tx' = NoTx, IdleOK', home' \in {"main", "own"}, venv' \in Venvs
    PROVE  Inv'
<1>1. NoTx \in Txs /\ NoTx.at = "idle"
    BY DEF NoTx, Txs, Places
<1>2. ShapeOK' /\ ActiveOK'
    BY <1>1 DEF ShapeOK, ActiveOK
<1>3. ForwardOK' /\ BackOK' /\ WipOK'
    BY <1>1 DEF ForwardOK, BackOK, WipOK, Ahead, Undone, Forward, Undoing
<1> QED
    BY <1>2, <1>3 DEF Inv

\* ... with the marker left where it is, and nothing boots.
LEMMA StopsMarked ==
    ASSUME tx' = NoTx, marker' # Nothing, home' = home, home \in {"main", "own"},
           venv' \in Venvs, bot' = "up" /\ (poisoned' \/ left')
    PROVE  Inv'
    BY Stops DEF IdleOK

-----------------------------------------------------------------------------
(***************************************************************************)
(* Forward.                                                                 *)
(***************************************************************************)
LEMMA CodeFacts ==
    ASSUME home \in {"main", "own"}
    PROVE  /\ NewIn => Code = "new"
           /\ BaseIn(home) => Code = "old"
           /\ BaseIn("main") => Code = (IF home = "main" THEN "old" ELSE "other")
<1>1. NewIn => Code = "new"
    BY DEF NewIn, Code
<1>2. BaseIn(home) => Code = "old"
    BY DEF BaseIn, Code
<1>3. BaseIn("main") => Code = (IF home = "main" THEN "old" ELSE "other")
    BY DEF BaseIn, Code
<1> QED
    BY <1>1, <1>2, <1>3

LEMMA BeginStep ==
    ASSUME Inv, Begin
    PROVE  Inv'
<1>1. /\ tx.at = "idle" /\ tx = NoTx /\ Settled /\ marker = Nothing /\ Code = "old" /\ ShapeOK
      /\ bot = "up" /\ image = "old" /\ ~poisoned
    BY DEF Begin, Inv, IdleOK
<1>2. aside = {} /\ data = OldData /\ BaseIn(home)
    BY <1>1, CodeFacts DEF Settled, Returned, ShapeOK
<1>3. tx' \in Txs /\ tx'.at = "stash" /\ ~tx'.code /\ ~tx'.moved /\ ~tx'.switched /\ ~tx'.shielded
    BY <1>1, TxFacts DEF Begin, GoesOn, SameFlags, Places, ShapeOK, NoTx
<1>4. Running
    BY <1>1 DEF Begin, Running, Mark, Nothing, ShapeOK
<1>5. ForwardOK'
    BY <1>2, <1>3 DEF Begin, ForwardOK, Ahead, Forward, BaseIn
<1> QED
    BY <1>1, <1>3, <1>4, <1>5, Advances DEF Ahead

LEMMA StashStep ==
    ASSUME Inv, Stash
    PROVE  Inv'
<1>1. /\ tx.at = "stash" /\ aside = {} /\ ~tx.code /\ ~tx.moved /\ ~tx.switched /\ ~tx.shielded
      /\ data = OldData /\ BaseIn(home)
    BY DEF Stash, Inv, ForwardOK, Ahead
<1>2. tx.at # "idle" /\ ShapeOK
    BY <1>1, RunningFacts
<1>3. CASE tx' = [tx EXCEPT !.at = "attach", !.pending = wip # {}] /\ poisoned' = poisoned
           /\ wip' = (IF wip = {} THEN {} ELSE {"stash"})
  <2>1. tx' \in Txs /\ tx'.at = "attach" /\ SameFlags
    BY <1>2, <1>3 DEF ShapeOK, Txs, Places, Forward, SameFlags
  <2>2. Running
    BY <1>2, <1>3, RunningFacts DEF Stash
  <2>3. ForwardOK'
    BY <1>1, <2>1 DEF Stash, ForwardOK, Ahead, Forward, BaseIn, SameFlags
  <2> QED
    BY <1>2, <1>3, <2>1, <2>2, <2>3, Advances DEF Ahead, Forward
<1>4. CASE poisoned' = TRUE /\ Leave
    BY <1>2, <1>4, RunningFacts, StopsMarked DEF Stash, Leave, ShapeOK
<1> QED
    BY <1>3, <1>4 DEF Stash

LEMMA AttachStep ==
    ASSUME Inv, Attach
    PROVE  Inv'
<1>1. /\ tx.at = "attach" /\ aside = {} /\ ~tx.code /\ ~tx.moved /\ ~tx.switched /\ ~tx.shielded
      /\ data = OldData /\ BaseIn(home) /\ "tree" \notin wip
    BY DEF Attach, Inv, ForwardOK, Ahead, Forward, WipOK
<1>2. tx.at # "idle" /\ ShapeOK
    BY <1>1, RunningFacts
<1>3. CASE /\ tree' = [tree EXCEPT !.head = "main"] /\ Mark("workspace-prepare")
           /\ tx' = [tx EXCEPT !.at = "resolve", !.switched = home # "main"]
  <2>1. /\ tx' \in Txs /\ tx'.at = "resolve" /\ tx'.switched = (home # "main")
        /\ ~tx'.code /\ ~tx'.moved /\ ~tx'.shielded
    BY <1>1, <1>2, <1>3 DEF ShapeOK, Txs, Places, Forward
  <2>2. Running
    BY <1>2, <1>3, RunningFacts DEF Attach, Mark, Nothing
  <2>3. BaseIn("main")'
    BY <1>1, <1>3 DEF BaseIn
  <2>4. ForwardOK'
    BY <1>1, <2>1, <2>3 DEF Attach, ForwardOK, Ahead, Forward
  <2> QED
    BY <1>1, <1>2, <2>1, <2>2, <2>4, Advances DEF Ahead, Forward, Attach
<1>4. CASE /\ tree' = tree \/ tree' = [tree EXCEPT !.head = "main"]
           /\ tx' = [tx EXCEPT !.at = "undo branch", !.switched = home # "main"]
           /\ UNCHANGED marker
  <2>1. /\ tx' \in Txs /\ tx'.at = "undo branch" /\ tx'.switched = (home # "main")
        /\ tx'.code = FALSE /\ tx'.moved = FALSE
    BY <1>1, <1>2, <1>4 DEF ShapeOK, Txs, Places, Undoing
  <2>2. Running
    BY <1>2, <1>4, RunningFacts DEF Attach
  <2>3. data' = OldData /\ aside' = {} /\ home' = home
    BY <1>1 DEF Attach
  <2>4. BaseIn(home)' \/ BaseIn("main")'
    BY <1>1, <1>4, <2>3 DEF BaseIn
  <2>5. home = "main" => BaseIn(home)'
    BY <2>3, <2>4
  <2>6. Untouched'
    BY <2>1, <2>4, <2>5 DEF Untouched, Returned
  <2>7. tx'.switched => home' = "own"
    BY <1>2, <2>1, <2>3 DEF ShapeOK
  <2>8. BackOK'
    BY <2>1, <2>3, <2>6, <2>7 DEF BackOK, Undone, Undoing
  <2> QED
    BY <1>2, <2>1, <2>2, <2>8, BackFurther DEF Undone, Undoing
<1> QED
    BY <1>3, <1>4 DEF Attach

LEMMA ResolveStep ==
    ASSUME Inv, Resolve
    PROVE  Inv'
<1>1. /\ tx.at = "resolve" /\ aside = {} /\ ~tx.code /\ ~tx.moved /\ ~tx.shielded
      /\ tx.switched = (home # "main") /\ data = OldData /\ BaseIn("main") /\ "tree" \notin wip
    BY DEF Resolve, Inv, ForwardOK, Ahead, Forward, WipOK
<1>2. tx.at # "idle" /\ ShapeOK
    BY <1>1, RunningFacts
<1>3. CASE tx' = [tx EXCEPT !.at = "prepared", !.moved = TRUE] /\ UNCHANGED <<marker, tree>>
  <2>1. /\ tx' \in Txs /\ tx'.at = "prepared" /\ tx'.switched = (home # "main")
        /\ ~tx'.code /\ tx'.moved /\ ~tx'.shielded
    BY <1>1, <1>2, <1>3 DEF ShapeOK, Txs, Places, Forward
  <2>2. Running
    BY <1>2, <1>3, RunningFacts DEF Resolve
  <2>3. ForwardOK'
    BY <1>1, <1>3, <2>1 DEF Resolve, ForwardOK, Ahead, Forward, BaseIn
  <2> QED
    BY <1>1, <1>2, <2>1, <2>2, <2>3, Advances DEF Ahead, Forward, Resolve
<1>4. CASE CannotResolve
  <2>1. TurnsBack
    BY <1>2, <1>4, TxFacts DEF CannotResolve, ShapeOK
  <2>2. Running
    BY <1>2, <1>4, RunningFacts DEF Resolve, CannotResolve
  <2>3. BaseIn("main")' /\ home' = home
    BY <1>1, <1>4 DEF CannotResolve, BaseIn, Resolve
  <2>4. data' = OldData /\ aside' = {} /\ (tx.switched => home = "own")
    BY <1>1, <1>2 DEF Resolve, ShapeOK
  <2>5. Untouched'
    BY <1>1, <2>1, <2>3 DEF Untouched, Returned, TurnsBack
  <2> QED
    BY <1>1, <1>2, <2>1, <2>2, <2>4, <2>5, RollbackBegins
<1> QED
    BY <1>3, <1>4 DEF Resolve

LEMMA ReplaceStep ==
    ASSUME Inv, Replace
    PROVE  Inv'
<1>1. /\ tx.at = "prepared" /\ aside = {} /\ tx.moved /\ ~tx.shielded
      /\ tx.switched = (home # "main") /\ data = OldData /\ BaseIn("main") /\ "tree" \notin wip
    BY DEF Replace, Inv, ForwardOK, Ahead, Forward, WipOK
<1>2. tx.at # "idle" /\ ShapeOK
    BY <1>1, RunningFacts
<1>3. /\ tx' \in Txs /\ tx'.at = "checkout" /\ tx'.switched = (home # "main")
      /\ tx'.code /\ tx'.moved /\ ~tx'.shielded
    BY <1>1, <1>2 DEF Replace, ShapeOK, Txs, Places, Forward
<1>4. Running
    BY <1>2, RunningFacts DEF Replace, Mark, Nothing
<1>5. tree' = [head |-> "main", main |-> "base", whole |-> FALSE, conflict |-> FALSE]
    BY <1>1 DEF Replace, BaseIn
<1>6. ForwardOK'
    BY <1>1, <1>3, <1>5 DEF Replace, ForwardOK, Ahead, Forward
<1> QED
    BY <1>1, <1>2, <1>3, <1>4, <1>6, Advances DEF Ahead, Forward, Replace

\* From the checkout on a rollback undoes the code first.
LEMMA UndoBegins ==
    ASSUME ShapeOK, Running, TurnsBack, tx.code, tx.moved, tx.switched = (home # "main"),
           "tree" \notin wip' \/ "stash" \in wip' \/ torn'
    PROVE  Inv'
    BY RollbackBegins DEF ShapeOK, Txs

\* ... as nothing has touched the changes in the stash.
LEMMA PlainUndo ==
    ASSUME Inv, tx.at \in {"checkout", "migrating", "pip", "smoke"}, NEW r \in BOOLEAN, Rollback(r),
           Running, wip' = wip
    PROVE  Inv'
<1>1. /\ tx.code /\ tx.moved /\ tx.switched = (home # "main") /\ "tree" \notin wip /\ ShapeOK
    BY DEF Inv, ForwardOK, WipOK, Forward
<1>2. TurnsBack
    BY <1>1, TxFacts DEF ShapeOK
<1> QED
    BY <1>1, <1>2, UndoBegins

\* What every phase from the checkout on keeps.
LEMMA Onward ==
    ASSUME Inv, NEW w, GoesOn(w), tx.at \in Forward \ {"attach", "resolve", "prepared"},
           w \in Forward \ {"attach", "resolve", "prepared", "checkout"}, Running, aside' = aside,
           NewIn', w = "migrate" => data' = OldData,
           w = "migrating" => notes /\ data' = [OldData EXCEPT !.steps = "some"],
           w \in {"deps", "pip", "smoke", "pop", "verify", "record"} => Migrated',
           w = "smoke" => venv'.packages = "new",
           w \in {"pop", "verify", "record"} => Packed',
           w \in {"verify", "record"} \/ "tree" \notin wip'
    PROVE  Inv'
<1>1. /\ ShapeOK /\ aside = {} /\ ~tx.shielded /\ tx.code /\ tx.moved /\ tx.switched = (home # "main")
    BY DEF Inv, ForwardOK, Ahead, Forward
<1>2. /\ tx' \in Txs /\ tx'.at = w /\ ~tx'.shielded /\ tx'.code /\ tx'.moved
      /\ tx'.switched = (home' # "main")
    BY <1>1 DEF GoesOn, SameFlags, Running
<1>3. ForwardOK'
    BY <1>1, <1>2 DEF ForwardOK, Ahead, Forward, Running
<1> QED
    BY <1>1, <1>2, <1>3, Advances DEF Ahead

LEMMA CheckoutStep ==
    ASSUME Inv, Checkout
    PROVE  Inv'
<1>1. /\ tx.at = "checkout" /\ data = OldData /\ "tree" \notin wip /\ ShapeOK /\ tx \in Txs
      /\ tree = [head |-> "main", main |-> "base", whole |-> FALSE, conflict |-> FALSE]
    BY DEF Checkout, Inv, ForwardOK, Forward, WipOK, ShapeOK
<1>2. Running
    BY <1>1, RunningFacts DEF Checkout
<1>3. CASE Installed /\ Goto("migrate")
  <2>1. NewIn'
    BY <1>1, <1>3 DEF Installed, NewIn
  <2>2. GoesOn("migrate")
    BY <1>1, <1>3, TxFacts DEF Places, Forward
  <2> QED
    BY <1>1, <1>2, <2>1, <2>2, Onward DEF Checkout, Forward
<1> QED
    BY <1>1, <1>2, <1>3, PlainUndo DEF Checkout

LEMMA MigrateStep ==
    ASSUME Inv, Migrate
    PROVE  Inv'
<1>1. tx.at = "migrate" /\ data = OldData /\ "tree" \notin wip /\ NewIn /\ ShapeOK /\ tx \in Txs
    BY DEF Migrate, Inv, ForwardOK, Forward, WipOK, ShapeOK
<1>2. Running
    BY <1>1, RunningFacts DEF Migrate, Mark, Nothing
<1>3. NewIn' /\ wip' = wip /\ aside' = aside
    BY <1>1 DEF Migrate, NewIn
<1>4. CASE notes /\ Goto("migrating") /\ data' = [data EXCEPT !.steps = "some"]
  <2>1. GoesOn("migrating")
    BY <1>1, <1>4, TxFacts DEF Places, Forward
  <2> QED
    BY <1>1, <1>2, <1>3, <1>4, <2>1, Onward DEF Forward
<1>5. CASE ~notes /\ Goto("deps") /\ data' = data
  <2>1. GoesOn("deps")
    BY <1>1, <1>5, TxFacts DEF Places, Forward
  <2>2. Migrated'
    BY <1>1, <1>2, <1>5 DEF Migrated, OldData, Running
  <2> QED
    BY <1>1, <1>2, <1>3, <2>1, <2>2, Onward DEF Forward
<1> QED
    BY <1>4, <1>5 DEF Migrate

LEMMA MigrateReturnsStep ==
    ASSUME Inv, MigrateReturns
    PROVE  Inv'
<1>1. /\ tx.at = "migrating" /\ notes /\ data = [OldData EXCEPT !.steps = "some"]
      /\ "tree" \notin wip /\ NewIn /\ ShapeOK /\ tx \in Txs
    BY DEF MigrateReturns, Inv, ForwardOK, Forward, WipOK, ShapeOK
<1>2. Running
    BY <1>1, RunningFacts DEF MigrateReturns
<1>3. CASE data' = [data EXCEPT !.steps = "all"] /\ Goto("deps")
  <2>1. GoesOn("deps")
    BY <1>1, <1>3, TxFacts DEF Places, Forward
  <2>2. data' = [steps |-> "all", chain |-> 0, recorded |-> 0]
    BY <1>1, <1>3 DEF OldData
  <2>3. Migrated' /\ NewIn'
    BY <1>1, <1>2, <2>2 DEF Migrated, Running, NewIn, MigrateReturns
  <2> QED
    BY <1>1, <1>2, <2>1, <2>3, Onward DEF Forward, MigrateReturns
<1> QED
    BY <1>1, <1>2, <1>3, PlainUndo DEF MigrateReturns

LEMMA InstallStep ==
    ASSUME Inv, Install
    PROVE  Inv'
<1>1. tx.at = "deps" /\ "tree" \notin wip /\ NewIn /\ Migrated /\ ShapeOK /\ tx \in Txs
    BY DEF Install, Inv, ForwardOK, Forward, WipOK, ShapeOK
<1>2. Running
    BY <1>1, RunningFacts DEF Install, Mark, Nothing, ShapeOK, Venvs
<1>3. NewIn' /\ Migrated' /\ GoesOn("pip")
    BY <1>1, TxFacts DEF Install, NewIn, Migrated, Places, Forward
<1> QED
    BY <1>1, <1>2, <1>3, Onward DEF Install, Forward

LEMMA InstallReturnsStep ==
    ASSUME Inv, InstallReturns
    PROVE  Inv'
<1>1. tx.at = "pip" /\ "tree" \notin wip /\ NewIn /\ Migrated /\ ShapeOK /\ tx \in Txs
    BY DEF InstallReturns, Inv, ForwardOK, Forward, WipOK, ShapeOK
<1>2. /\ venv' \in Venvs /\ marker' # Nothing
      /\ (Goto("smoke") /\ venv'.packages = "new") \/ Rollback(TRUE)
  <2>1. marker # Nothing /\ venv \in Venvs
    BY <1>1, RunningFacts DEF ShapeOK
  <2>2. ASSUME NEW hash \in {"new", venv.hash}, venv' = [packages |-> "new", hash |-> hash],
               Mark("smoke-test"), Goto("smoke")
        PROVE  venv' \in Venvs /\ marker' # Nothing /\ venv'.packages = "new"
    BY <2>1, <2>2 DEF Venvs, Mark, Nothing
  <2>3. CASE Rollback(TRUE) /\ UNCHANGED <<venv, marker>>
    BY <2>1, <2>3
  <2> QED
    BY <2>2, <2>3 DEF InstallReturns
<1>3. Running
    BY <1>1, <1>2, RunningFacts DEF InstallReturns
<1>4. CASE venv'.packages = "new" /\ Goto("smoke")
  <2>1. NewIn' /\ Migrated' /\ GoesOn("smoke")
    BY <1>1, <1>4, TxFacts DEF InstallReturns, NewIn, Migrated, Places, Forward
  <2> QED
    BY <1>1, <1>3, <1>4, <2>1, Onward DEF InstallReturns, Forward
<1> QED
    BY <1>1, <1>2, <1>3, <1>4, PlainUndo DEF InstallReturns

LEMMA SmokeStep ==
    ASSUME Inv, Smoke
    PROVE  Inv'
<1>1. /\ tx.at = "smoke" /\ "tree" \notin wip /\ NewIn /\ Migrated /\ ShapeOK /\ tx \in Txs
      /\ venv.packages = "new"
    BY DEF Smoke, Inv, ForwardOK, Forward, WipOK, ShapeOK
<1>2. tree' = tree /\ wip' = wip /\ data' = data /\ aside' = aside /\ venv' = venv /\ marker' = marker
    BY DEF Smoke, files
<1>3. Running
    BY <1>1, <1>2, RunningFacts DEF Smoke
<1>4. CASE venv.hash = "new" /\ Goto("pop")
  <2>1. NewIn' /\ Migrated' /\ GoesOn("pop")
    BY <1>1, <1>2, <1>4, TxFacts DEF Smoke, NewIn, Migrated, Places, Forward
  <2>2. Packed'
    BY <1>1, <1>2, <1>4 DEF Packed, ShapeOK, Venvs
  <2> QED
    BY <1>1, <1>2, <1>3, <2>1, <2>2, Onward DEF Forward
<1> QED
    BY <1>1, <1>2, <1>3, <1>4, PlainUndo DEF Smoke, SmokeAdmitted

LEMMA PopStep ==
    ASSUME Inv, Pop
    PROVE  Inv'
<1>1. /\ tx.at = "pop" /\ NewIn /\ Migrated /\ Packed /\ ShapeOK /\ tx \in Txs
      /\ tx.code /\ tx.moved /\ tx.switched = (home # "main")
    BY DEF Pop, Inv, ForwardOK, Forward, ShapeOK
<1>2. Running
    BY <1>1, RunningFacts DEF Pop
<1>3. CASE GoesOn("verify") /\ tree' = tree
  <2>1. NewIn' /\ Migrated' /\ Packed'
    BY <1>1, <1>3 DEF Pop, NewIn, Migrated, Packed
  <2> QED
    BY <1>1, <1>2, <1>3, <2>1, Onward DEF Forward, Pop
<1>4. CASE PopConflict /\ Rollback(FALSE)
    BY <1>1, <1>2, <1>4, TxFacts, UndoBegins DEF PopConflict
<1>5. tx' = [tx EXCEPT !.at = "verify", !.pending = FALSE] => GoesOn("verify")
    BY <1>1 DEF GoesOn, SameFlags, Txs, Places, Forward
<1>6. Goto("verify") => GoesOn("verify")
    BY <1>1, TxFacts DEF Places, Forward
<1> QED
    BY <1>3, <1>4, <1>5, <1>6 DEF Pop

LEMMA VerifyStep ==
    ASSUME Inv, Verify
    PROVE  Inv'
<1>1. /\ tx.at = "verify" /\ NewIn /\ Migrated /\ Packed /\ ShapeOK /\ tx \in Txs
      /\ tx.code /\ tx.moved /\ tx.switched = (home # "main")
    BY DEF Verify, Inv, ForwardOK, Forward, ShapeOK
<1>2. Running
    BY <1>1, RunningFacts DEF Verify
<1>3. CASE Goto("record")
  <2>1. NewIn' /\ Migrated' /\ Packed' /\ GoesOn("record")
    BY <1>1, <1>3, TxFacts DEF Verify, NewIn, Migrated, Packed, Places, Forward
  <2> QED
    BY <1>1, <1>2, <2>1, Onward DEF Forward, Verify
<1>4. CASE Restash
  <2>1. TurnsBack /\ "stash" \in wip'
    BY <1>1, <1>4 DEF Restash, TurnsBack, Txs, Places, Undoing
  <2> QED
    BY <1>1, <1>2, <2>1, UndoBegins
<1>5. CASE Leave /\ left' = TRUE
    BY <1>1, <1>2, <1>5, StopsMarked DEF Leave, Running, ShapeOK
<1>6. CASE wip = {} /\ Rollback(FALSE) /\ UNCHANGED wip
  <2>1. TurnsBack
    BY <1>1, <1>6, TxFacts
  <2> QED
    BY <1>1, <1>2, <1>6, <2>1, UndoBegins
<1> QED
    BY <1>3, <1>4, <1>5, <1>6 DEF Verify

LEMMA CommitStep ==
    ASSUME Inv, Commit
    PROVE  Inv'
<1>1. /\ tx.at = "record" /\ NewIn /\ Migrated /\ Packed /\ ShapeOK /\ tx \in Txs /\ aside = {}
      /\ bot = "up" /\ marker # Nothing
    BY DEF Commit, Inv, ForwardOK, Forward, Ahead, ShapeOK, ActiveOK
<1>2. /\ home' = home /\ venv' = venv /\ tree' = tree /\ data' = data /\ aside' = aside /\ notes' = notes
      /\ tx' = NoTx
    BY DEF Commit, Leave
<1>3. CASE Finalize
  <2>1. NewIn' /\ Packed' /\ Migrated'
    BY <1>1, <1>2 DEF NewIn, Packed, Migrated
  <2>2. Fits("new")' /\ data'.chain = 0 /\ data'.recorded = 0 /\ DOMAIN data' = DOMAIN OldData
    BY <2>1 DEF Migrated, Fits, OldData
  <2>3. Settled'
    BY <1>1, <1>2, <2>1, <2>2 DEF Settled
  <2>4. bot' = "restarting" /\ marker' = Nothing
    BY <1>3 DEF Finalize, MarkerCleared
  <2>5. IdleOK'
    BY <1>2, <2>3, <2>4 DEF IdleOK
  <2> QED
    BY <1>1, <1>2, <2>5, Stops DEF ShapeOK
<1>4. CASE left' = TRUE /\ UNCHANGED <<marker, bot>>
    BY <1>1, <1>2, <1>4, StopsMarked DEF ShapeOK
<1> QED
    BY <1>3, <1>4 DEF Commit

\* An exception, wherever it strikes, starts a rollback that nothing interrupts.
LEMMA ThrowsStep ==
    ASSUME Inv, Throws
    PROVE  Inv'
<1>1. /\ tx.at \in Forward \cup Undoing /\ tx.at # "idle" /\ ShapeOK /\ tx \in Txs
    BY DEF Throws, Inv, ShapeOK, Forward, Undoing
<1>2. Running /\ tree' = tree /\ data' = data /\ aside' = aside /\ home' = home
    BY <1>1, RunningFacts DEF Throws
<1>3. TurnsBack
    BY <1>1, TxFacts DEF Throws
<1>4. left => left'
    BY DEF Throws
<1>5. /\ tx.code => tx.moved
      /\ tx.switched => home = "own"
      /\ ~tx.moved => data = OldData /\ aside = {}
      /\ ~tx.code => Untouched
      /\ tx.code /\ ~tx.switched => home = "main" \/ left'
  <2>1. CASE tx.at \in Forward
    <3>1. /\ tx.code => tx.moved
          /\ tx.switched => home = "own"
          /\ ~tx.moved => data = OldData /\ aside = {}
          /\ tx.code /\ ~tx.switched => home = "main"
      BY <2>1 DEF Inv, ForwardOK, Forward, Ahead, ShapeOK, Txs
    <3>2. ~tx.code => BaseIn(home) \/ BaseIn("main")
      BY <2>1 DEF Inv, ForwardOK, Forward
    <3>3. ~tx.code /\ ~tx.switched => BaseIn(home)
      BY <1>1, <2>1 DEF Inv, ForwardOK, Forward, ShapeOK, Txs
    <3> QED
      BY <3>1, <3>2, <3>3 DEF Untouched, Returned
  <2>2. CASE tx.at \in Undoing
    BY <2>2 DEF Inv, BackOK, Undoing, Undone, Throws
  <2> QED
    BY <1>1, <2>1, <2>2
<1>6. Untouched => Untouched'
    BY <1>2, <1>3, <1>4 DEF BaseIn, Returned, Untouched, TurnsBack
<1>7. "tree" \notin wip' \/ torn'
    BY DEF Throws
<1> QED
    BY <1>1, <1>2, <1>3, <1>5, <1>6, <1>7, RollbackBegins

\* An exception nothing catches ends the transaction under its marker.
LEMMA EscapesStep ==
    ASSUME Inv, Escapes
    PROVE  Inv'
<1>1. tx.at # "idle"
    BY DEF Escapes
<1>2. tx' = NoTx /\ left' = TRUE /\ home' = home /\ venv' = venv /\ bot' = bot /\ marker' = marker
    BY DEF Escapes, Leave
<1> QED
    BY <1>1, <1>2, RunningFacts, StopsMarked DEF ShapeOK

-----------------------------------------------------------------------------
(***************************************************************************)
(* Back.                                                                    *)
(***************************************************************************)
\* What the way back carries along.
LEMMA BackFacts ==
    ASSUME Inv, tx.at \in Undone
    PROVE  /\ tx.at # "idle" /\ ShapeOK /\ tx \in Txs
           /\ tx.code => tx.moved
           /\ tx.switched => home = "own"
           /\ ~tx.moved => data = OldData /\ aside = {}
           /\ ~tx.code => Untouched
           /\ tx.at # "undo stash" /\ tx.code /\ ~tx.switched => home = "main" \/ left
           /\ tx.at = "undo code" => tx.code
           /\ tx.at \in {"undo data", "swap", "backups"} => tx.moved /\ Untouched
<1>1. tx.at \in {"undo data", "swap", "backups"} /\ tx.code => Untouched
    BY DEF Inv, BackOK, Undone, Undoing, Untouched, Returned
<1> QED
    BY <1>1 DEF Inv, BackOK, ShapeOK, Undone, Undoing

LEMMA UndoCodeStep ==
    ASSUME Inv, UndoCode
    PROVE  Inv'
<1>1. tx.at = "undo code" /\ tx.at \in Undone
    BY DEF UndoCode, Undone, Undoing
<1>2. CASE ResetMain /\ Goto("undo data") /\ poisoned' = poisoned
  <2>1. GoesOn("undo data")
    BY <1>1, <1>2, BackFacts, TxFacts DEF Places
  <2>2. Running
    BY <1>1, <1>2, BackFacts, RunningFacts DEF UndoCode
  <2>3. BaseIn("main")' /\ home' = home /\ left' = left
    BY <1>2 DEF ResetMain, BaseIn, UndoCode
  <2>4. BackOK'
    BY <1>1, <2>1, <2>3, BackFacts DEF BackOK, GoesOn, SameFlags, Undone, Undoing
  <2> QED
    BY <1>1, <2>1, <2>2, <2>4, BackFacts, BackFurther DEF GoesOn, Undone, Undoing
<1>3. CASE poisoned' = TRUE /\ Leave
    BY <1>1, <1>3, BackFacts, RunningFacts, StopsMarked DEF UndoCode, Leave, ShapeOK
<1> QED
    BY <1>2, <1>3 DEF UndoCode

\* The restore of the data leaves the checkout alone.
LEMMA SameTree ==
    ASSUME Inv, tx.at \in {"undo data", "swap", "backups"}, home' = home, tree' = tree, left' = left,
           tx'.switched = tx.switched, tx'.code = tx.code
    PROVE  Untouched' /\ (tx'.code => BaseIn("main")')
<1>1. Untouched /\ (tx.code => BaseIn("main"))
    BY BackFacts DEF Inv, BackOK, Undone
<1> QED
    BY <1>1 DEF Untouched, Returned, BaseIn

\* A restore, done or failed, goes on to the branch, and says which.
LEMMA RestoreEnds ==
    ASSUME Inv, tx.at \in {"undo data", "swap", "backups"}, Running, tree' = tree, left' = left,
           NEW done \in BOOLEAN, tx' = [tx EXCEPT !.at = "undo branch", !.ok = done],
           done => data' = OldData /\ aside' = {}
    PROVE  Inv'
<1>1. tx.at \in Undone /\ home' = home
    BY DEF Undone, Running
<1>2. /\ tx' \in Txs /\ tx'.at = "undo branch" /\ tx'.ok = done
      /\ tx'.switched = tx.switched /\ tx'.code = tx.code /\ tx'.moved = tx.moved
    BY <1>1, BackFacts DEF Txs, Places, Undoing
<1>3. Untouched'
    BY <1>1, <1>2, SameTree
<1>4. BackOK'
    BY <1>1, <1>2, <1>3, BackFacts DEF BackOK, Undone, Undoing
<1> QED
    BY <1>1, <1>2, <1>4, BackFacts, BackFurther DEF Undone, Undoing

\* It goes from one rename to the next.
LEMMA RestoreGoesOn ==
    ASSUME Inv, tx.at \in {"undo data", "swap", "backups"}, Running, tree' = tree, left' = left,
           NEW w \in {"swap", "backups"}, Goto(w), w = "backups" => data' = OldData
    PROVE  Inv'
<1>1. tx.at \in Undone /\ home' = home
    BY DEF Undone, Running
<1>2. /\ tx' \in Txs /\ tx'.at = w
      /\ tx'.switched = tx.switched /\ tx'.code = tx.code /\ tx'.moved = tx.moved
    BY <1>1, BackFacts, TxFacts DEF Places, GoesOn, SameFlags
<1>3. Untouched' /\ (tx'.code => BaseIn("main")')
    BY <1>1, <1>2, SameTree
<1>4. BackOK'
    BY <1>1, <1>2, <1>3, BackFacts DEF BackOK, Undone, Undoing
<1> QED
    BY <1>1, <1>2, <1>4, BackFacts, BackFurther DEF Undone, Undoing

LEMMA UndoDataStep ==
    ASSUME Inv, UndoData
    PROVE  Inv'
<1>1. tx.at = "undo data" /\ tx.at \in Undone /\ tree' = tree /\ left' = left
    BY DEF UndoData, Undone, Undoing
<1>2. Running
    BY <1>1, BackFacts, RunningFacts DEF UndoData
<1> QED
    BY <1>1, <1>2, RestoreEnds, RestoreGoesOn DEF UndoData

LEMMA SwapStep ==
    ASSUME Inv, Swap
    PROVE  Inv'
<1>1. tx.at = "swap" /\ tx.at \in Undone /\ tree' = tree /\ left' = left
    BY DEF Swap, Undone, Undoing
<1>2. Running
    BY <1>1, BackFacts, RunningFacts DEF Swap
<1>3. CASE data' = Snapshot /\ Goto("backups")
    BY <1>1, <1>2, <1>3, RestoreGoesOn DEF Snapshot
<1>4. CASE tx' = [tx EXCEPT !.at = "undo branch", !.ok = FALSE]
    BY <1>1, <1>2, <1>4, RestoreEnds
<1> QED
    BY <1>3, <1>4 DEF Swap

LEMMA BringBackupsStep ==
    ASSUME Inv, BringBackups
    PROVE  Inv'
<1>1. /\ tx.at = "backups" /\ tx.at \in Undone /\ tree' = tree /\ left' = left /\ data = OldData
    BY DEF BringBackups, Undone, Undoing, Inv, BackOK
<1>2. Running
    BY <1>1, BackFacts, RunningFacts DEF BringBackups
<1>3. \E done \in BOOLEAN : /\ tx' = [tx EXCEPT !.at = "undo branch", !.ok = done]
                            /\ done => data' = OldData /\ aside' = {}
    BY <1>1 DEF BringBackups
<1> QED
    BY <1>1, <1>2, <1>3, RestoreEnds

\* HEAD returns to its branch only when everything else has been put back.
LEMMA UndoBranchStep ==
    ASSUME Inv, UndoBranch
    PROVE  Inv'
<1>1. /\ tx.at = "undo branch" /\ tx.at \in Undone /\ (BaseIn(home) \/ BaseIn("main"))
      /\ ~tx.switched => Returned
      /\ tx.ok => data = OldData /\ aside = {}
    BY DEF UndoBranch, Undone, Undoing, Inv, BackOK, Untouched
<1>2. CASE /\ tree' = IF tx.switched THEN [tree EXCEPT !.head = home] ELSE tree
           /\ AllBack /\ tx' = [tx EXCEPT !.at = "undo stash", !.switched = FALSE]
           /\ poisoned' = poisoned
  <2>1. /\ tx' \in Txs /\ tx'.at = "undo stash" /\ tx'.switched = FALSE
        /\ tx'.code = tx.code /\ tx'.moved = tx.moved
    BY <1>1, <1>2, BackFacts DEF Txs, Places, Undoing
  <2>2. Running
    BY <1>1, <1>2, BackFacts, RunningFacts DEF UndoBranch
  <2>3. Returned'
    <3>1. CASE tx.switched
      <4>1. PICK h : tree = [head |-> h, main |-> "base", whole |-> TRUE, conflict |-> FALSE]
        BY <1>1 DEF BaseIn
      <4>2. tree' = [tree EXCEPT !.head = home]
        BY <1>2, <3>1
      <4>3. tree' = [head |-> home, main |-> "base", whole |-> TRUE, conflict |-> FALSE]
        BY <4>1, <4>2
      <4> QED
        BY <4>3 DEF Returned, BaseIn, UndoBranch
    <3>2. CASE ~tx.switched
      BY <1>1, <1>2, <3>2 DEF Returned, BaseIn, UndoBranch
    <3> QED
      BY <3>1, <3>2
  <2>4. data' = OldData /\ aside' = {}
    BY <1>1, <1>2 DEF AllBack, UndoBranch
  <2>5. Untouched'
    BY <2>3 DEF Untouched, Returned
  <2>6. BackOK'
    BY <1>1, <2>1, <2>3, <2>4, <2>5, BackFacts DEF BackOK, Undone, Undoing
  <2> QED
    BY <1>1, <2>1, <2>2, <2>6, BackFacts, BackFurther DEF Undone, Undoing
<1>3. CASE poisoned' = TRUE /\ Leave
    BY <1>1, <1>3, BackFacts, RunningFacts, StopsMarked DEF UndoBranch, Leave, ShapeOK
<1> QED
    BY <1>2, <1>3 DEF UndoBranch

LEMMA UndoStashStep ==
    ASSUME Inv, UndoStash
    PROVE  Inv'
<1>1. /\ tx.at = "undo stash" /\ tx.at \in Undone /\ Returned /\ data = OldData /\ aside = {}
      /\ bot = "up" /\ image = "old" /\ marker # Nothing
    BY DEF UndoStash, Undone, Undoing, Inv, BackOK, ActiveOK
<1>2. /\ home' = home /\ tree' = tree /\ data' = data /\ aside' = aside /\ venv' = venv
      /\ tx' = NoTx /\ bot' = "up" /\ image' = "old" /\ left' = (left \/ marker' # Nothing)
      /\ home \in {"main", "own"} /\ venv \in Venvs
    BY <1>1, BackFacts DEF UndoStash, Leave, ShapeOK
<1>3. CASE marker' # Nothing
    BY <1>2, <1>3, StopsMarked
<1>4. CASE marker' = Nothing
  <2>1. Settled'
    BY <1>1, <1>2, <1>4 DEF Settled, Returned, BaseIn
  <2>2. Code' = "old" \/ (left' /\ Code' = "other")
    <3>1. (BaseIn(home) => Code = "old") /\ (BaseIn("main") => Code \in {"old", "other"})
      BY <1>2, CodeFacts
    <3>2. Code' = Code
      BY <1>2 DEF Code
    <3> QED
      BY <1>1, <1>2, <3>1, <3>2 DEF Returned
  <2>3. IdleOK'
    BY <1>2, <1>4, <2>1, <2>2 DEF IdleOK
  <2> QED
    BY <1>2, <2>3, Stops
<1> QED
    BY <1>3, <1>4

-----------------------------------------------------------------------------
(***************************************************************************)
(* Death and boot.                                                          *)
(***************************************************************************)
\* Everything a death leaves on disk.
LEMMA DiesStep ==
    ASSUME Inv, Dies
    PROVE  Inv'
<1>1. /\ tx' = NoTx /\ bot' = "down" /\ home' = home /\ notes' = notes /\ left' = left
      /\ tree' = tree /\ data' = data /\ aside' = aside /\ venv' = venv /\ marker' = marker
    BY DEF Dies, Leave, files
<1>2. tx.at # "idle" => marker # Nothing
    BY DEF Inv, ActiveOK
<1>3. marker = Nothing => Settled
    BY <1>2 DEF Inv, IdleOK
<1>4. Settled => Settled'
    BY <1>1 DEF Settled, Returned, BaseIn, NewIn, Packed, Fits
<1>5. IdleOK'
    BY <1>1, <1>3, <1>4 DEF IdleOK
<1> QED
    BY <1>1, <1>5, Stops DEF Inv, ShapeOK

\* Nothing but the transaction changes what a boot starts from.
LEMMA Boots ==
    ASSUME Inv, bot # "up", tx' = tx, IdleOK', home' = home, venv' \in Venvs
    PROVE  Inv'
<1>1. tx = NoTx /\ home \in {"main", "own"}
    BY DEF Inv, ActiveOK, IdleOK, ShapeOK
<1> QED
    BY <1>1, Stops

LEMMA BootFacts ==
    ASSUME Inv, bot # "up"
    PROVE  /\ tx = NoTx /\ ShapeOK /\ tx.at = "idle"
           /\ marker = Nothing => Settled
           /\ marker = Nothing /\ bot \in {"installing", "migrating"} => image = Code
           /\ marker # Nothing /\ aside = {} => bot = "down"
    BY DEF Inv, ActiveOK, IdleOK, ShapeOK

\* pip leaves a new release's packages alone: its fingerprint is there.
LEMMA SettledKept ==
    ASSUME Inv, Settled, tree' = tree, data' = data, aside' = aside, home' = home, notes' = notes,
           left' = left, NewIn => venv' = venv
    PROVE  Settled' /\ Code' = Code
    BY DEF Settled, Returned, BaseIn, NewIn, Packed, Fits, Code

LEMMA BootStep ==
    ASSUME Inv, Boot
    PROVE  Inv'
<1>1. /\ bot # "up" /\ (marker = Nothing \/ aside # {}) /\ image' = Code
      /\ tree' = tree /\ data' = data /\ aside' = aside /\ home' = home /\ notes' = notes
      /\ left' = left /\ marker' = marker /\ tx' = tx /\ bot' \in {"migrating", "installing"}
    BY DEF Boot, Gate, MarkerSeen
<1>2. venv' \in Venvs
    BY <1>1, BootFacts DEF Boot, ShapeOK, Venvs
<1>3. CASE marker = Nothing
  <2>1. Settled /\ home \in {"main", "own"}
    BY <1>1, <1>3, BootFacts DEF ShapeOK
  <2>2. NewIn => venv' = venv
    <3>1. BaseIn(home) \/ BaseIn("main") => ~NewIn
      BY DEF BaseIn, NewIn
    <3>2. NewIn => venv.hash = "new" /\ Code = "new"
      BY <2>1, <3>1, CodeFacts DEF Settled, Returned, Packed
    <3> QED
      BY <3>2 DEF Boot, Lock
  <2>3. Settled' /\ Code' = Code
    BY <1>1, <2>1, <2>2, SettledKept
  <2>4. IdleOK'
    BY <1>1, <1>3, <2>3, BootFacts DEF IdleOK
  <2> QED
    BY <1>1, <1>2, <2>4, Boots
<1>4. CASE marker # Nothing
  <2>1. IdleOK'
    BY <1>1, <1>4, BootFacts DEF IdleOK
  <2> QED
    BY <1>1, <1>2, <2>1, Boots
<1> QED
    BY <1>3, <1>4

LEMMA BootInstallsStep ==
    ASSUME Inv, BootInstalls
    PROVE  Inv'
<1>1. /\ bot = "installing" /\ image' = image
      /\ tree' = tree /\ data' = data /\ aside' = aside /\ home' = home /\ notes' = notes
      /\ left' = left /\ marker' = marker /\ tx' = tx /\ bot' \in {"migrating", "down"}
    BY DEF BootInstalls
<1>2. venv' \in Venvs
    BY <1>1, BootFacts DEF BootInstalls, ShapeOK, Venvs, Lock
<1>3. CASE marker = Nothing
  <2>1. Settled /\ home \in {"main", "own"} /\ image = Code
    BY <1>1, <1>3, BootFacts DEF ShapeOK
  <2>2. NewIn => venv' = venv
    <3>1. BaseIn(home) \/ BaseIn("main") => ~NewIn
      BY DEF BaseIn, NewIn
    <3>2. NewIn => venv = [packages |-> "new", hash |-> "new"] /\ Code = "new"
      BY <2>1, <3>1, CodeFacts DEF Settled, Returned, Packed
    <3> QED
      BY <3>2 DEF BootInstalls, Lock
  <2>3. Settled' /\ Code' = Code
    BY <1>1, <2>1, <2>2, SettledKept
  <2>4. IdleOK'
    BY <1>1, <1>3, <2>1, <2>3, BootFacts DEF IdleOK
  <2> QED
    BY <1>1, <1>2, <2>4, Boots
<1>4. CASE marker # Nothing
  <2>1. IdleOK'
    BY <1>1, <1>4, BootFacts DEF IdleOK
  <2> QED
    BY <1>1, <1>2, <2>1, Boots
<1> QED
    BY <1>3, <1>4

\* The chain of migrations is the new release's: it runs a step, then records it.
LEMMA ChainStep ==
    ASSUME Inv, Upgrade \/ RecordStep
    PROVE  Inv'
<1>1. /\ bot = "migrating" /\ image' = image /\ image = "new" /\ bot' = bot
      /\ tree' = tree /\ aside' = aside /\ home' = home /\ notes' = notes /\ venv' = venv
      /\ left' = left /\ marker' = marker /\ tx' = tx
    BY DEF Upgrade, RecordStep, Pending
<1>2. CASE marker = Nothing
  <2>1. Settled /\ home \in {"main", "own"} /\ Code = "new"
    BY <1>1, <1>2, BootFacts DEF ShapeOK
  <2>2. /\ NewIn /\ Packed /\ Fits("new") /\ DOMAIN data = DOMAIN OldData /\ aside = {}
        /\ data.chain \in Nat /\ data.recorded \in Nat /\ data.recorded <= data.chain
    BY <2>1, CodeFacts DEF Settled, Returned
  <2>3. /\ DOMAIN data' = DOMAIN data /\ data'.steps = data.steps
        /\ data'.chain \in Nat /\ data'.recorded \in Nat /\ data'.recorded <= data'.chain
    BY <2>2 DEF Upgrade, RecordStep, OldData
  <2>4. Settled' /\ Code' = Code
    BY <1>1, <2>2, <2>3 DEF Settled, NewIn, Packed, Fits, Code
  <2>5. IdleOK'
    BY <1>1, <1>2, <2>1, <2>4, BootFacts DEF IdleOK
  <2> QED
    BY <1>1, <2>5, Boots, BootFacts DEF ShapeOK
<1>3. CASE marker # Nothing
  <2>1. IdleOK'
    BY <1>1, <1>3, BootFacts DEF IdleOK
  <2> QED
    BY <1>1, <2>1, Boots, BootFacts DEF ShapeOK
<1> QED
    BY <1>2, <1>3

LEMMA ComesUpStep ==
    ASSUME Inv, ComesUp
    PROVE  Inv'
<1>1. /\ bot = "migrating" /\ image' = image /\ bot' = "up" /\ data' = data
      /\ tree' = tree /\ aside' = aside /\ home' = home /\ notes' = notes /\ venv' = venv
      /\ left' = left /\ marker' = marker /\ tx' = tx
    BY DEF ComesUp, files
<1>2. marker = Nothing => Settled' /\ Code' = Code /\ image = Code
    BY <1>1, BootFacts, SettledKept
<1>3. IdleOK'
    BY <1>1, <1>2, BootFacts DEF IdleOK
<1> QED
    BY <1>1, <1>3, Boots, BootFacts DEF ShapeOK

-----------------------------------------------------------------------------
(***************************************************************************)
(* The theorems.                                                            *)
(***************************************************************************)
LEMMA InvInit == Init => Inv
<1> SUFFICES ASSUME Init
             PROVE  Inv
    OBVIOUS
<1>1. /\ tx = NoTx /\ aside = {} /\ data = OldData /\ BaseIn(home) /\ home \in {"main", "own"}
      /\ venv \in Venvs /\ marker = Nothing /\ bot = "up" /\ image = "old"
    BY DEF Init, BaseIn, Venvs
<1>2. NoTx \in Txs /\ NoTx.at = "idle"
    BY DEF NoTx, Txs, Places
<1>3. Code = "old"
    BY <1>1, CodeFacts
<1>4. IdleOK /\ ShapeOK /\ ActiveOK
    BY <1>1, <1>2, <1>3 DEF IdleOK, ShapeOK, ActiveOK, Settled, Returned
<1>5. ForwardOK /\ BackOK /\ WipOK
    BY <1>1, <1>2 DEF ForwardOK, BackOK, WipOK, Ahead, Undone, Forward, Undoing
<1> QED
    BY <1>4, <1>5 DEF Inv

LEMMA InvNext == Inv /\ [Next]_vars => Inv'
<1> SUFFICES ASSUME Inv, [Next]_vars
             PROVE  Inv'
    OBVIOUS
<1>1. CASE UNCHANGED vars
  <2>1. ShapeOK' /\ IdleOK' /\ ActiveOK'
    BY <1>1 DEF vars, Inv, ShapeOK, IdleOK, ActiveOK, Settled, Returned, BaseIn, NewIn, Packed, Fits, Code
  <2>2. ForwardOK'
    BY <1>1 DEF vars, Inv, ForwardOK, BaseIn, NewIn, Packed, Migrated
  <2>3. BackOK'
    BY <1>1 DEF vars, Inv, BackOK, Untouched, Returned, BaseIn
  <2>4. WipOK'
    BY <1>1 DEF vars, Inv, WipOK
  <2> QED
    BY <2>1, <2>2, <2>3, <2>4 DEF Inv
<1>2. CASE Step
    BY <1>2, StashStep, AttachStep, ResolveStep, ReplaceStep, CheckoutStep, MigrateStep, MigrateReturnsStep,
       InstallStep, InstallReturnsStep, SmokeStep, PopStep, VerifyStep, CommitStep, UndoCodeStep,
       UndoDataStep, SwapStep, BringBackupsStep, UndoBranchStep, UndoStashStep DEF Step
<1> QED
    BY <1>1, <1>2, BeginStep, ThrowsStep, EscapesStep, DiesStep, BootStep, BootInstallsStep, ChainStep,
       ComesUpStep DEF Next

THEOREM InvAlways == Spec => []Inv
    BY InvInit, InvNext, PTL DEF Spec

\* What a boot finds between two transactions.
LEMMA SettledFacts ==
    ASSUME Inv, marker = Nothing, tx.at = "idle"
    PROVE  /\ Settled /\ ~tree.conflict
           /\ Code = "new" => Fits("new") /\ venv.packages = "new" /\ data.recorded <= data.chain
           /\ Code # "new" => data = OldData /\ (Code = "old" \/ (left /\ Code = "other"))
<1>1. Settled /\ home \in {"main", "own"}
    BY DEF Inv, IdleOK, ShapeOK
<1>2. CASE NewIn /\ Packed /\ Fits("new") /\ data.recorded <= data.chain
    BY <1>1, <1>2, CodeFacts DEF NewIn, Packed
<1>3. CASE data = OldData /\ Returned
  <2>1. ~tree.conflict
    BY <1>3 DEF Returned, BaseIn
  <2>2. Code = "old" \/ (left /\ Code = "other")
    BY <1>1, <1>3, CodeFacts DEF Returned
  <2> QED
    BY <1>1, <1>3, <2>1, <2>2
<1> QED
    BY <1>1, <1>2, <1>3 DEF Settled

\* A bot comes up on one release's code, data and packages, wherever an update was cut
\* short (_bootstrap.py:310-358).
THEOREM WholeBoots == Spec => []BootsAreWhole
<1>1. Inv => BootsAreWhole
  <2> SUFFICES ASSUME Inv, bot = "migrating", aside = {}
               PROVE  /\ image \in {"old", "new"} \/ left
                      /\ ~tree.conflict /\ Fits(image)
                      /\ image = "new" => venv.packages = "new"
                      /\ data.recorded <= data.chain
      BY DEF BootsAreWhole
  <2>1. tx.at = "idle" /\ marker = Nothing /\ image = Code
    BY DEF Inv, ActiveOK, IdleOK
  <2>2. CASE Code = "new"
    BY <2>1, <2>2, SettledFacts
  <2>3. CASE Code # "new"
    BY <2>1, <2>3, SettledFacts DEF Fits, OldData
  <2> QED
    BY <2>2, <2>3
<1> QED
    BY <1>1, InvAlways, PTL

\* An update that failed and opened the gate again has put everything back, HEAD aside
\* if an exception met its last step; or else it has left its marker, which keeps the
\* next boot out (updater.py:1616-1731, 1796, 2158-2167).
THEOREM RollbacksRestore == Spec => []FailureRestores
<1>1. Inv => FailureRestores
  <2> SUFFICES ASSUME Inv, bot = "up", image = "old", tx.at = "idle", ~poisoned, aside = {}
               PROVE  \/ /\ marker = Nothing /\ data = OldData /\ ~tree.conflict
                         /\ Code = "old" \/ (left /\ Code = "other")
                      \/ marker # Nothing /\ left
      BY DEF FailureRestores
  <2>1. CASE marker = Nothing
    <3>1. Code = "old" \/ (left /\ Code = "other")
      BY <2>1 DEF Inv, IdleOK
    <3> QED
      BY <2>1, <3>1, SettledFacts
  <2>2. CASE marker # Nothing
    BY <2>2 DEF Inv, IdleOK
  <2> QED
    BY <2>1, <2>2
<1> QED
    BY <1>1, InvAlways, PTL

\* Local changes are never lost, but to an exception that meets them in the tree
\* (updater.py:2006-2060).
THEOREM WorkSurvives == Spec => LocalWorkSurvives
<1> DEFINE Kept == wip # {} => wip' # {} \/ torn'
<1>1. Inv /\ [Next]_vars => [Kept]_vars
  <2> SUFFICES ASSUME Inv, Next, wip # {}, ~torn'
               PROVE  wip' # {}
      BY DEF vars
  <2>1. CASE Stash
    BY <2>1 DEF Stash
  <2>2. CASE Pop
    BY <2>2 DEF Pop, PopConflict
  <2>3. CASE Verify
    BY <2>3 DEF Verify, Restash
  <2>4. CASE Throws
    BY <2>4 DEF Throws
  <2>5. CASE UndoCode \/ (Escapes /\ tx.at = "undo code")
    <3>1. "tree" \in wip => "stash" \in wip
      BY <2>5 DEF UndoCode, Escapes, Inv, WipOK
    <3>2. PICK w : w \in wip
      OBVIOUS
    <3>3. wip' = wip \/ wip' = wip \ {"tree"}
      BY <2>5 DEF UndoCode, Escapes, ResetMain
    <3> QED
      BY <3>1, <3>2, <3>3
  <2>6. CASE UndoStash \/ (Escapes /\ tx.at # "undo code")
    BY <2>6 DEF UndoStash, Escapes, PopBack
  <2>7. CASE UNCHANGED wip
    BY <2>7
  <2> QED
    BY <2>1, <2>2, <2>3, <2>4, <2>5, <2>6, <2>7
       DEF Next, Step, Begin, Attach, Resolve, Replace, Checkout, Migrate, MigrateReturns, Install,
           InstallReturns, Smoke, Commit, UndoData, Swap, BringBackups, UndoBranch, Dies, Boot,
           BootInstalls, Upgrade, RecordStep, ComesUp, files
<1> QED
    BY <1>1, InvAlways, PTL DEF Spec, LocalWorkSurvives

-----------------------------------------------------------------------------
(***************************************************************************)
(* Types.                                                                   *)
(***************************************************************************)
Trees == [head : {"main", "own"}, main : {"base", "new"}, whole : BOOLEAN, conflict : BOOLEAN]
Marks == {Nothing, "stash", "workspace-prepare", "checkout", "migration", "dependencies", "smoke-test"}
OnDisk == /\ home \in {"main", "own"} /\ notes \in BOOLEAN /\ tree \in Trees
          /\ wip \subseteq {"tree", "stash"} /\ marker \in Marks
DataOK == data \in Datas /\ aside \in {{}} \cup {{d} : d \in Datas}
BotOK == /\ bot \in {"down", "restarting", "installing", "migrating", "up"}
         /\ image \in {"old", "new", "other", "unknown", Nothing}

LEMMA OnDiskNext ==
    ASSUME OnDisk, Next
    PROVE  OnDisk'
<1>1. home' = home /\ notes' = notes
    BY DEF Next, Begin, Step, Throws, Escapes, Dies, Boot, BootInstalls, Upgrade, RecordStep, ComesUp, Stash,
           Attach, Resolve, Replace, Checkout, Migrate, MigrateReturns, Install, InstallReturns, Smoke, Pop,
           Verify, Commit, UndoCode, UndoData, Swap, BringBackups, UndoBranch, UndoStash
<1>2. tree' \in Trees
  <2>1. CASE tree' = tree
    BY <2>1 DEF OnDisk
  <2>2. CASE Attach \/ Replace \/ Checkout \/ Pop \/ UndoBranch
    <3>1. \/ tree' = tree \/ tree' = [tree EXCEPT !.head = "main"] \/ tree' = [tree EXCEPT !.head = home]
          \/ tree' = [tree EXCEPT !.whole = FALSE] \/ tree' = [tree EXCEPT !.conflict = TRUE]
          \/ tree' = [tree EXCEPT !.main = "new", !.whole = TRUE]
      BY <2>2 DEF Attach, Replace, Checkout, Installed, Pop, PopConflict, UndoBranch
    <3> QED
      BY <3>1 DEF OnDisk, Trees
  <2>3. CASE UndoCode \/ Escapes
    <3>1. \/ tree' = tree \/ tree' = [tree EXCEPT !.head = home]
          \/ tree' = [head |-> "main", main |-> "base", whole |-> TRUE, conflict |-> FALSE]
      BY <2>3 DEF UndoCode, Escapes, ResetMain
    <3>2. [head |-> "main", main |-> "base", whole |-> TRUE, conflict |-> FALSE] \in Trees
      BY DEF Trees
    <3> QED
      BY <3>1, <3>2 DEF OnDisk, Trees
  <2> QED
    BY <2>1, <2>2, <2>3
       DEF Next, Begin, Step, Throws, Dies, Boot, BootInstalls, Upgrade, RecordStep, ComesUp, Stash,
           Resolve, CannotResolve, Migrate, MigrateReturns, Install, InstallReturns, Smoke, Verify, Commit, UndoData, Swap,
           BringBackups, UndoStash, files
<1>3. wip' \subseteq {"tree", "stash"}
  <2>1. \/ wip' \subseteq wip
        \/ wip' \in {{"tree"}, {"stash"}, {"tree", "stash"}}
    BY DEF Next, Begin, Step, Throws, Escapes, Dies, Boot, BootInstalls, Upgrade, RecordStep, ComesUp, Stash,
           Attach, Resolve, Replace, Checkout, Migrate, MigrateReturns, Install, InstallReturns, Smoke, Pop,
           PopConflict, Verify, Restash, Commit, UndoCode, ResetMain, PopBack, UndoData, Swap, BringBackups, UndoBranch,
           UndoStash, files
  <2> QED
    BY <2>1 DEF OnDisk
<1>4. marker' \in Marks
  <2>1. marker' = marker \/ marker' \in Marks
    BY DEF Next, Begin, Step, Throws, Escapes, Dies, Boot, BootInstalls, Upgrade, RecordStep, ComesUp, Stash,
           Attach, Resolve, CannotResolve, Replace, Checkout, Migrate, MigrateReturns, Install, InstallReturns,
           Smoke, Pop, Verify, Commit, Finalize, MarkerCleared, UndoCode, UndoData, Swap, BringBackups,
           UndoBranch, UndoStash, files, Mark, Marks
  <2> QED
    BY <2>1 DEF OnDisk
<1> QED
    BY <1>1, <1>2, <1>3, <1>4 DEF OnDisk

LEMMA DataNext ==
    ASSUME DataOK, Next
    PROVE  DataOK'
<1> USE ChainAssumption
<1>1. OldData \in Datas /\ NoData \in Datas
    BY DEF OldData, NoData, Datas
<1>2. CASE UNCHANGED <<data, aside>>
    BY <1>2 DEF DataOK
<1>3. CASE aside' = aside /\ (Migrate \/ MigrateReturns)
  <2>1. data' = data \/ \E s \in {"some", "all"} : data' = [data EXCEPT !.steps = s]
    BY <1>3 DEF Migrate, MigrateReturns
  <2> QED
    BY <1>3, <2>1 DEF DataOK, Datas
<1>4. CASE UndoData
  <2>1. \/ UNCHANGED <<data, aside>>
        \/ aside' = {data} /\ data' = NoData
    BY <1>4 DEF UndoData
  <2> QED
    BY <1>1, <2>1 DEF DataOK
<1>5. CASE Swap \/ BringBackups
  <2>1. \A d \in aside : d \in Datas
    BY DEF DataOK
  <2>2. /\ data' = OldData \/ data' = data \/ data' \in aside
        /\ aside' = aside \/ aside' = {}
    BY <1>5 DEF Swap, BringBackups, Snapshot
  <2> QED
    BY <1>1, <2>1, <2>2 DEF DataOK
<1>6. CASE Upgrade \/ RecordStep
  <2>1. data.recorded + 1 \in 0..Chain /\ aside' = aside
    BY <1>6 DEF Upgrade, RecordStep, Pending, DataOK, Datas
  <2>2. \/ data' = [data EXCEPT !.chain = data.recorded + 1]
        \/ data' = [data EXCEPT !.recorded = data.recorded + 1]
    BY <1>6 DEF Upgrade, RecordStep
  <2> QED
    BY <2>1, <2>2 DEF DataOK, Datas
<1> QED
    BY <1>2, <1>3, <1>4, <1>5, <1>6
       DEF Next, Begin, Step, Throws, Escapes, Dies, Boot, BootInstalls, ComesUp, Stash, Attach, Resolve,
           Replace, Checkout, Migrate, MigrateReturns, Install, InstallReturns, Smoke, Pop, Verify,
           Commit, UndoCode, UndoBranch, UndoStash, files

LEMMA BotNext ==
    ASSUME BotOK, Next
    PROVE  BotOK'
<1>1. Code \in {"old", "new", "other", "unknown"}
    BY DEF Code
<1>2. bot' = bot \/ bot' \in {"down", "restarting", "installing", "migrating", "up"}
    BY DEF Next, Begin, Step, Throws, Escapes, Dies, Boot, BootInstalls, Upgrade, RecordStep, ComesUp, Stash,
           Attach, Resolve, Replace, Checkout, Migrate, MigrateReturns, Install, InstallReturns, Smoke, Pop,
           Verify, Commit, Finalize, UndoCode, UndoData, Swap, BringBackups, UndoBranch, UndoStash
<1>3. image' = image \/ image' = Nothing \/ image' = Code
    BY DEF Next, Begin, Step, Throws, Escapes, Dies, Boot, BootInstalls, Upgrade, RecordStep, ComesUp, Stash,
           Attach, Resolve, Replace, Checkout, Migrate, MigrateReturns, Install, InstallReturns, Smoke, Pop,
           Verify, Commit, UndoCode, UndoData, Swap, BringBackups, UndoBranch, UndoStash
<1> QED
    BY <1>1, <1>2, <1>3 DEF BotOK

\* Tree, marker, data, packages, transaction and process keep their types: the chain is
\* recorded up to its length and no further.
THEOREM TypeCorrect == Spec => []TypeOK
<1> DEFINE Types == OnDisk /\ DataOK /\ BotOK
<1>1. Init => Types
  <2> SUFFICES ASSUME Init
               PROVE  Types
      OBVIOUS
  <2>1. OnDisk
    BY DEF Init, OnDisk, Trees, Marks
  <2>2. DataOK
    BY ChainAssumption DEF Init, DataOK, OldData, Datas
  <2> QED
    BY <2>1, <2>2 DEF Init, BotOK
<1>2. Types /\ [Next]_vars => Types'
  <2> SUFFICES ASSUME Types, [Next]_vars
               PROVE  Types'
      OBVIOUS
  <2>1. CASE UNCHANGED vars
    BY <2>1 DEF vars, OnDisk, DataOK, BotOK
  <2> QED
    BY <2>1, OnDiskNext, DataNext, BotNext
<1>3. Types /\ Inv => TypeOK
    BY DEF OnDisk, DataOK, BotOK, Inv, ShapeOK, TypeOK, Trees, Marks, Txs, Venvs, Places
<1> QED
    BY <1>1, <1>2, <1>3, InvAlways, PTL DEF Spec
=============================================================================
