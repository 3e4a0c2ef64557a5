------------------------------- MODULE Project -------------------------------
(***************************************************************************)
(* A project, the tree that shows it and the windows that edit it:         *)
(* core/project.cpp, coreui/project.cpp, uikit/basic.cpp and the views of  *)
(* pakit that compute a model from another one.                            *)
(*                                                                         *)
(* A project keeps its models twice, by parent and by child; a model knows *)
(* the project it is in; the tree keeps a node for each model it has seen  *)
(* and a row of gtk for each it shows. One thread runs all of it, but each *)
(* window that waits for an answer was opened on a project that has        *)
(* changed since. A failed assertion ends the program (the builds do not   *)
(* define NDEBUG).                                                         *)
(***************************************************************************)
EXTENDS Naturals, Sequences, FiniteSets, SequencesExt, Functions, TLC

CONSTANTS
  Model,      \* the models; one that nothing refers to any more is made anew
  Root,       \* the project itself, shown by the first row of the tree
  NoModel,    \* a null model_i *; as a parent, the top level of the project
  MaxRemove,  \* bound: remove windows open
  MaxCalc,    \* bound: windows open that will add what they compute
  MaxRename   \* bound: models with a rename window

ASSUME ConstantsAssumption ==
  /\ IsFiniteSet(Model) /\ Root \notin Model /\ NoModel \notin Model /\ Root # NoModel
  /\ {MaxRemove, MaxCalc, MaxRename} \subseteq Nat

VARIABLES
  prj,       \* the project: dm_models, dm_child; of the models, those whose dm_owner it is
             \* and their dm_title
  tree,      \* its project_tree: dm_mapper, dm_data_store, dm_current
  renaming,  \* the models with a rename_v window open
  removing,  \* the remove_v windows open on each model
  calcs,     \* the windows open on .model that will add .out below it
  aborted    \* the assertion that ended the program, or "no"

vars == <<prj, tree, renaming, removing, calcs, aborted>>

Init ==
  /\ prj = [dm_models |-> [m \in Model \cup {NoModel} |-> <<>>], dm_child |-> <<>>, owned |-> {},
             title |-> [m \in Model |-> "old"]]
  /\ tree = [dm_mapper |-> <<>>, dm_data_store |-> <<>>, dm_current |-> Root]
  /\ renaming = {} /\ removing = [m \in Model |-> 0] /\ calcs = {} /\ aborted = "no"

\* The models at or below those of ms, given the parent of each: the least set that has them
\* and what is below any of its members.
HasAllBelow(parentOf, s) == \A c \in DOMAIN parentOf : parentOf[c] \in s => c \in s
Below(parentOf, ms) ==
  {m \in ms \cup DOMAIN parentOf :
     \A s \in SUBSET (ms \cup DOMAIN parentOf) : ms \subseteq s /\ HasAllBelow(parentOf, s) => m \in s}

\* A map without some keys, and one with an entry more.
Without(f, ms) == Restrict(f, DOMAIN f \ ms)
With(f, m, v) == [x \in DOMAIN f \cup {m} |-> IF x = m THEN v ELSE f[x]]

-----------------------------------------------------------------------------
(* project_base.                                                           *)

\* add_model. Nobody adds a model that is in a project.
AddModel(p, parent, rec) ==
  [p EXCEPT !.owned = @ \cup {rec},
            !.dm_models[parent] = Append(@, rec),
            !.dm_child = With(@, rec, parent)]

\* A model given its first title, then added.
AddTitled(p, parent, rec) == AddModel([p EXCEPT !.title[rec] = "old"], parent, rec)

\* At each turn of its loop remove_by_range removes what is below the first of its range
\* (_begin, not cur), so what is below the others stays. These lose all below them when
\* the range begins with rec: rec, its first child, the first child of that, and so on.
Emptied(p, rec) ==
  {m \in Model : \A s \in SUBSET Model :
     /\ rec \in s
     /\ \A x \in s : p.dm_models[x] # <<>> => Head(p.dm_models[x]) \in s
     => m \in s}

\* Mutant: the second pass erases the first of the range only.
EraseFirst(p, parent, rec) ==
  LET emptied == Emptied(p, rec)
      gone == {rec} \cup UNION {ToSet(p.dm_models[m]) : m \in emptied}
  IN  [p EXCEPT !.dm_child = Without(@, gone),
                !.dm_models = [m \in DOMAIN @ |-> IF m \in emptied /\ @[m] # <<>> THEN Tail(@[m])
                                                 ELSE IF m = parent THEN RemoveFirst(@[m], rec) ELSE @[m]]]

\* remove_by_range for the range of rec alone, which is below parent.
RemoveByRange(p, parent, rec) ==
  LET emptied == Emptied(p, rec)
      gone == {rec} \cup UNION {ToSet(p.dm_models[m]) : m \in emptied}
  IN  [p EXCEPT !.dm_child = Without(@, gone),
                !.dm_models = [m \in DOMAIN @ |-> IF m \in emptied THEN <<>>
                                                 ELSE IF m = parent THEN RemoveFirst(@[m], rec) ELSE @[m]]]

\* Mutant: the range is that of all the models below parent.
RemoveSiblings(p, parent, rec) ==
  [RemoveByRange([p EXCEPT !.owned = @ \ {rec}], parent, rec)
     EXCEPT !.dm_child = Without(@, ToSet(p.dm_models[parent])), !.dm_models[parent] = <<>>]

\* remove_model. Of all that goes, only rec forgets its project.
RemoveModel(p, parent, rec) ==
  RemoveByRange([p EXCEPT !.owned = @ \ {rec}], parent, rec)

\* is_project_empty.
IsProjectEmpty(p) == \A m \in DOMAIN p.dm_models : p.dm_models[m] = <<>>

-----------------------------------------------------------------------------
(* project_tree.                                                           *)

\* A node and a row for a model not seen before.
AddNode(p, t, m, rec) ==
  IF m \in DOMAIN t.dm_mapper THEN t
  ELSE [t EXCEPT !.dm_mapper = With(@, m, rec),
                 !.dm_data_store = With(@, m, [parent |-> rec, title |-> p.title[m]])]

RowParent(t) == [m \in DOMAIN t.dm_data_store |-> t.dm_data_store[m].parent]

\* The nodes of models that have left rec. Their rows go with all the rows below; the nodes of
\* those stay: the loop that looks for them has a condition that is never true.
PruneLevel(p, t, rec) ==
  LET gone == {m \in DOMAIN t.dm_mapper : t.dm_mapper[m] = rec /\ m \notin ToSet(p.dm_models[rec])}
  IN  [dm_mapper     |-> Without(t.dm_mapper, gone),
       dm_data_store |-> Without(t.dm_data_store, Below(RowParent(t), gone)),
       dm_current    |-> IF t.dm_current \in gone THEN NoModel ELSE t.dm_current]

\* A call of sync_level at r, in its order: each child gets a node, if it is new, and all the levels
\* below it are synced; then the level is pruned.
CallAt(p, r, below) ==
  FlattenSeq([i \in DOMAIN p.dm_models[r] |->
                LET c == p.dm_models[r][i]
                IN  <<[op |-> "add", at |-> r, rec |-> c]>> \o below[c]])
    \o <<[op |-> "prune", at |-> r, rec |-> r]>>

\* Mutant: only new nodes are synced.
WalkNew(p, t) ==
  LET walk[d \in 0..(Cardinality(Model) + 1)] ==
        [r \in Model \cup {NoModel} |->
           IF d = 0 \/ r \in DOMAIN t.dm_mapper THEN <<>> ELSE CallAt(p, r, walk[d - 1])]
  IN  walk[Cardinality(Model) + 1][NoModel]

\* What it does from the top of the project. (A chain of models is no longer than Model.)
Walk(p, t) ==
  LET walk[d \in 0..(Cardinality(Model) + 1)] ==
        [r \in Model \cup {NoModel} |-> IF d = 0 THEN <<>> ELSE CallAt(p, r, walk[d - 1])]
  IN  walk[Cardinality(Model) + 1][NoModel]

\* What this makes of the tree.
SyncLevel(p, t) ==
  LET w == Walk(p, t)
      synced[k \in 0..Len(w)] ==
        IF k = 0 THEN t
        ELSE IF w[k].op = "add" THEN AddNode(p, synced[k - 1], w[k].rec, w[k].at)
        ELSE PruneLevel(p, synced[k - 1], w[k].at)
  IN  synced[Len(w)]

\* notify_views of the project: react_model_update of the tree.
NotifyViews == tree' = SyncLevel(prj', tree)

\* h_on_tree_selection_change: the user selects a row.
Select(m) ==
  /\ aborted = "no" /\ m \in DOMAIN tree.dm_data_store \cup {Root}
  /\ IF m \in DOMAIN tree.dm_mapper \cup {Root}
       THEN tree' = [tree EXCEPT !.dm_current = m] /\ UNCHANGED aborted
       ELSE aborted' = "mapper" /\ UNCHANGED tree
  /\ UNCHANGED <<prj, renaming, removing, calcs>>

-----------------------------------------------------------------------------
(* The windows. The menu of the tree opens them on the model selected.     *)

\* No object refers to m: it is destroyed, or not yet constructed.
Fresh(m) ==
  /\ m \notin DOMAIN prj.dm_child /\ prj.dm_models[m] = <<>>
  /\ m \notin DOMAIN tree.dm_mapper \cup Range(tree.dm_mapper) /\ tree.dm_current # m
  /\ m \notin renaming /\ removing[m] = 0 /\ \A w \in calcs : m \notin {w.model, w.out}

\* A model read from a file or made by hand is put at the top level.
Insert(m) ==
  /\ aborted = "no" /\ Fresh(m)
  /\ prj' = AddTitled(prj, NoModel, m) /\ NotifyViews
  /\ UNCHANGED <<renaming, removing, calcs, aborted>>

\* Open, in the window of an empty project: move_project from the project in the file, here b
\* below a. If this project has models, they get a window of their own.
OpenFile(a, b) ==
  /\ aborted = "no" /\ Fresh(a) /\ Fresh(b) /\ a # b
  /\ IsProjectEmpty(prj)
  /\ prj' = AddTitled(AddTitled(prj, NoModel, a), a, b)
  /\ NotifyViews
  /\ UNCHANGED <<renaming, removing, calcs, aborted>>

\* A calculation without a window: its output goes below its input.
CalcNow(m, out) ==
  /\ aborted = "no" /\ tree.dm_current = m /\ Fresh(out) /\ m # out
  /\ m \in prj.owned
  /\ prj' = AddTitled(prj, m, out) /\ NotifyViews
  /\ UNCHANGED <<renaming, removing, calcs, aborted>>

\* A calculation with a window, which makes its output when it is bound to its input.
OpenCalc(m, out) ==
  /\ aborted = "no" /\ tree.dm_current = m /\ Fresh(out) /\ m # out
  /\ Cardinality(calcs) < MaxCalc
  /\ calcs' = calcs \cup {[model |-> m, out |-> out]}
  /\ prj' = [prj EXCEPT !.owned = @ \ {out}]
  /\ UNCHANGED <<tree, renaming, removing, aborted>>

\* OK: the output is added if the input is in a project by then.
CalcOk(w) ==
  /\ aborted = "no" /\ w \in calcs
  /\ IF w.model \in prj.owned
       THEN prj' = AddTitled(prj, w.model, w.out) /\ NotifyViews
       ELSE UNCHANGED <<prj, tree>>
  /\ calcs' = calcs \ {w}
  /\ UNCHANGED <<renaming, removing, aborted>>

CloseCalc(w) ==
  /\ aborted = "no" /\ w \in calcs
  /\ calcs' = calcs \ {w}
  /\ UNCHANGED <<prj, tree, renaming, removing, aborted>>

\* copy_v has no window: a copy of the model selected goes beside it.
Copy(m) ==
  /\ aborted = "no" /\ tree.dm_current = m
  /\ \/ /\ m \notin prj.owned
        /\ aborted' = "get_project" /\ UNCHANGED <<prj, tree>>
     \/ /\ m \in prj.owned /\ m \notin DOMAIN prj.dm_child
        /\ aborted' = "get_parent" /\ UNCHANGED <<prj, tree>>
     \/ /\ m \in prj.owned /\ m \in DOMAIN prj.dm_child
        /\ \E new \in Model : Fresh(new) /\ prj' = AddTitled(prj, prj.dm_child[m], new)
        /\ NotifyViews /\ UNCHANGED aborted
  /\ UNCHANGED <<renaming, removing, calcs>>

OpenRename(m) ==
  /\ aborted = "no" /\ tree.dm_current = m
  /\ m \notin renaming /\ Cardinality(renaming) < MaxRename
  /\ renaming' = renaming \cup {m}
  /\ UNCHANGED <<prj, tree, removing, calcs, aborted>>

\* OK of rename_v: set_title, and react_rename of the tree if a node listens to the model. A node
\* without a row writes to memory that gtk has freed: what comes of it is not defined.
RenameOk(m, newtitle) ==
  /\ aborted = "no" /\ m \in renaming
  /\ renaming' = renaming \ {m}
  /\ prj' = [prj EXCEPT !.title[m] = newtitle]
  /\ \/ /\ m \in DOMAIN tree.dm_data_store /\ m \in DOMAIN tree.dm_mapper
        /\ tree' = [tree EXCEPT !.dm_data_store[m].title = newtitle] /\ UNCHANGED aborted
     \/ /\ m \notin DOMAIN tree.dm_data_store /\ m \in DOMAIN tree.dm_mapper
        /\ UNCHANGED tree /\ aborted' \in {"no", "row"}
     \/ /\ m \notin DOMAIN tree.dm_mapper
        /\ UNCHANGED tree /\ aborted' = IF tree.dm_current = m THEN "mapper" ELSE "no"
  /\ UNCHANGED <<removing, calcs>>

CloseRename(m) ==
  /\ aborted = "no" /\ m \in renaming
  /\ renaming' = renaming \ {m}
  /\ UNCHANGED <<prj, tree, removing, calcs, aborted>>

OpenRemove(m) ==
  /\ aborted = "no" /\ tree.dm_current = m
  /\ SumFunction(removing) < MaxRemove
  /\ removing' = [removing EXCEPT ![m] = @ + 1]
  /\ UNCHANGED <<prj, tree, renaming, calcs, aborted>>

\* OK of remove_v, for a model that may have been removed since: without a project nothing happens
\* and the window stays.
RemoveOk(m) ==
  /\ aborted = "no" /\ removing[m] > 0
  /\ \/ /\ m \notin prj.owned
        /\ UNCHANGED <<prj, tree, removing, aborted>>
     \/ /\ m \in prj.owned /\ m \notin DOMAIN prj.dm_child
        /\ aborted' = "get_parent" /\ UNCHANGED <<prj, tree, removing>>
     \/ /\ m \in prj.owned /\ m \in DOMAIN prj.dm_child
        /\ prj' = RemoveModel(prj, prj.dm_child[m], m) /\ NotifyViews
        /\ removing' = [removing EXCEPT ![m] = @ - 1] /\ UNCHANGED aborted
  /\ UNCHANGED <<renaming, calcs>>

CloseRemove(m) ==
  /\ aborted = "no" /\ removing[m] > 0
  /\ removing' = [removing EXCEPT ![m] = @ - 1]
  /\ UNCHANGED <<prj, tree, renaming, calcs, aborted>>

-----------------------------------------------------------------------------
Next ==
  \/ \E m \in Model \cup {Root} : Select(m)
  \/ \E m \in Model, newtitle \in {"old", "new"} : RenameOk(m, newtitle)
  \/ \E m \in Model : OpenRename(m) \/ CloseRename(m)
  \/ \E m \in Model : Insert(m) \/ Copy(m) \/ OpenRemove(m) \/ RemoveOk(m) \/ CloseRemove(m)
  \/ \E m, n \in Model : OpenFile(m, n) \/ CalcNow(m, n) \/ OpenCalc(m, n)
  \/ \E w \in calcs : CalcOk(w) \/ CloseCalc(w)

Spec == Init /\ [][Next]_vars

-----------------------------------------------------------------------------
(* Properties.                                                             *)

\* The two maps of a project are each the reverse of the other (core/project.h), with no model
\* twice, and a model that is in them knows its project (clear_project asserts it of each).
MapsAgree ==
  \A m \in Model, p \in Model \cup {NoModel} :
    /\ m \in ToSet(prj.dm_models[p]) <=> m \in DOMAIN prj.dm_child /\ prj.dm_child[m] = p
    /\ m \in ToSet(prj.dm_models[p]) => m \in prj.owned
    /\ IsInjective(prj.dm_models[p])

\* The tree shows the models one can reach from the top of the project, each below its parent and
\* by its title, whatever windows opened before added, removed and renamed: sync_level changes
\* only what differs. Every row has its node, and so has the model selected, which stays in
\* dm_current when its row goes: the tree asserts it when it hears of a new title.
TreeShowsProject ==
  LET top == {m \in DOMAIN prj.dm_child : prj.dm_child[m] = NoModel}
  IN  /\ tree.dm_data_store =
           [m \in Below(prj.dm_child, top) |-> [parent |-> prj.dm_child[m], title |-> prj.title[m]]]
      /\ aborted # "mapper"

\* A model leaves the project only when a window removes it or one above it, whatever the windows
\* confirmed late, the copies and the syncs in between: a removal takes nothing from beside or above
\* (core/project.cpp, remove_by_range). Not all that is below goes: of a range only what is below
\* its first, so models are left behind.
RemovesOnlyBelow ==
  [][\A m \in DOMAIN prj.dm_child \ DOMAIN prj'.dm_child :
       \E r \in Model : removing'[r] < removing[r] /\ m \in Below(prj.dm_child, {r})]_vars
=============================================================================
