-------------------------------- MODULE Catalog -------------------------------
(****************************************************************************)
(* The category tree (features/category) and the products in it             *)
(* (features/product).  An administrator's update reads the row, walks the  *)
(* ancestors of the parent and writes the whole row, in three statements    *)
(* with no transaction around them; what keeps the references whole is the  *)
(* foreign keys.                                                            *)
(****************************************************************************)
EXTENDS Naturals, FiniteSets

CONSTANTS
  Categories,
  CatalogProducts,
  Editors,     \* administrators' requests under way at once
  MaxDrafts,   \* bound on the updates of products among them
  MaxDepth     \* domain.MaxDepth

ASSUME CatalogAssumption ==
  Categories # {} /\ IsFiniteSet(Categories) /\ MaxDepth \in Nat \ {0} /\ MaxDrafts \in Nat

VARIABLES
  listed,    \* the categories that exist
  parent,    \* parent_id: a set of at most one category
  product,   \* each product's state, category_id and status
  level,     \* products that have their row in inventory_levels
  editor,    \* what each request has read, and is about to write
  drafts     \* rows of products that were read, changed and not written yet

catalogVars == <<listed, parent, product, level, editor, drafts>>

AtMostOne == {{}} \cup {{c} : c \in Categories}

\* The row read or about to be written; fresh while no category has been written
\* since the ancestors were walked.
Desk == [step |-> "idle", category |-> CHOOSE c \in Categories : TRUE, parent |-> {}, fresh |-> FALSE]

Unlisted == [state |-> "absent", category |-> {}, published |-> FALSE]

EditorAt(e, step) == editor[e].step = step
PutDown(e) == editor' = [editor EXCEPT ![e] = Desk]

\* After a write of the tree, what the others walked is no longer how it is.
PutDownAfterWrite(e) == editor' = [f \in Editors |-> IF f = e THEN Desk ELSE [editor[f] EXCEPT !.fresh = FALSE]]

(****************************************************************************)
(* AncestorDepthAndCycle: a recursive query that starts at the parent and   *)
(* is cut off one row beyond MaxDepth.                                      *)
(****************************************************************************)
Up(tree, start) ==
  LET up[n \in Nat] == IF n <= 1 THEN start ELSE UNION {tree[c] : c \in up[n - 1]}
  IN up

AncestorDepth(start) ==
  LET up == Up(parent, start) IN Cardinality({n \in 1..(MaxDepth + 1) : up[n] # {}})

FormsCycle_ParentOnly(start, self) == self \in start

FormsCycle(start, self) ==
  LET up == Up(parent, start) IN \E n \in 1..(MaxDepth + 1) : self \in up[n]

\* ValidateParentSelf and ValidateParentDepth.
ValidParent(start, self) ==
  /\ self \notin start
  /\ AncestorDepth(start) > 0
  /\ ~FormsCycle(start, self)
  /\ AncestorDepth(start) + 1 <= MaxDepth

(****************************************************************************)
(* Categories.                                                              *)
(****************************************************************************)
\* A new category starts at the walk.
StartCreate(e, c, p) ==
  /\ EditorAt(e, "idle") /\ c \notin listed
  /\ \A f \in Editors : ~EditorAt(f, "idle") => editor[f].category # c
  /\ editor' = [editor EXCEPT ![e] = [step |-> "create", category |-> c, parent |-> p, fresh |-> FALSE]]
  /\ UNCHANGED <<listed, parent, product, level, drafts>>

\* Update: GetByID, then the fields the request carries; no request takes a parent away.
StartUpdate(e, c, p) ==
  /\ EditorAt(e, "idle") /\ c \in listed
  /\ editor' = [editor EXCEPT ![e] =
       [step |-> "update", category |-> c, parent |-> IF p = {} THEN parent[c] ELSE p, fresh |-> FALSE]]
  /\ UNCHANGED <<listed, parent, product, level, drafts>>

CheckedStep(step) == IF step = "create" THEN "create_checked" ELSE "update_checked"

CheckParent(e) ==
  LET d == editor[e] IN
  /\ d.step \in {"create", "update"}
  /\ d.parent # {} => ValidParent(d.parent \cap listed, d.category)
  /\ editor' = [editor EXCEPT ![e].step = CheckedStep(@), ![e].fresh = TRUE]
  /\ UNCHANGED <<listed, parent, product, level, drafts>>

\* The foreign key wants the parent to exist.
ReferencesParent(p) == p \subseteq listed

InsertCategory(e) ==
  LET d == editor[e] IN
  /\ EditorAt(e, "create_checked") /\ ReferencesParent(d.parent)
  /\ listed' = listed \cup {d.category}
  /\ parent' = [parent EXCEPT ![d.category] = d.parent]
  /\ PutDownAfterWrite(e)
  /\ UNCHANGED <<product, level, drafts>>

UpdateCategory(e) ==
  LET d == editor[e] IN
  /\ EditorAt(e, "update_checked") /\ ReferencesParent(d.parent)
  /\ d.category \in listed
  /\ parent' = [parent EXCEPT ![d.category] = d.parent]
  /\ PutDownAfterWrite(e)
  /\ UNCHANGED <<listed, product, level, drafts>>

\* Delete counts the published products first, in a statement of its own.
CountPublished(c) == Cardinality({p \in CatalogProducts : product[p].state = "live" /\ product[p].published /\ c \in product[p].category})

StartDelete(e, c) ==
  /\ EditorAt(e, "idle") /\ c \in listed
  /\ CountPublished(c) = 0
  /\ editor' = [editor EXCEPT ![e] = [Desk EXCEPT !.step = "delete", !.category = c]]
  /\ UNCHANGED <<listed, parent, product, level, drafts>>

\* The foreign keys of subcategories, and of every product, deleted ones included.
Referenced(c) == (\E d \in listed : c \in parent[d]) \/ (\E p \in CatalogProducts : c \in product[p].category)

DeleteCategory(e) ==
  LET c == editor[e].category IN
  /\ EditorAt(e, "delete") /\ c \in listed
  /\ ~Referenced(c)
  /\ listed' = listed \ {c}
  /\ parent' = [parent EXCEPT ![c] = {}]
  /\ PutDownAfterWrite(e)
  /\ UNCHANGED <<product, level, drafts>>

\* Refused, a conflict, not found, or a failure.
EditFails(e) ==
  /\ ~EditorAt(e, "idle")
  /\ PutDown(e)
  /\ UNCHANGED <<listed, parent, product, level, drafts>>

(****************************************************************************)
(* Products: the row, then its level in a statement of its own.             *)
(****************************************************************************)
CreateProduct(p, c, published) ==
  /\ product[p].state = "absent" /\ ReferencesParent(c)
  /\ product' = [product EXCEPT ![p] = [state |-> "live", category |-> c, published |-> published]]
  /\ UNCHANGED <<listed, parent, level, editor, drafts>>

EnsureProductLevel(p) ==
  /\ product[p].state # "absent" /\ p \notin level
  /\ level' = level \cup {p}
  /\ UNCHANGED <<listed, parent, product, editor, drafts>>

\* Update: GetByID, then the fields the request carries; it may leave the category
\* as it is, never take it away.
ReadForUpdate(p, c, published) ==
  /\ product[p].state = "live"
  /\ Cardinality(drafts) < MaxDrafts
  /\ drafts' = drafts \cup {[product |-> p, category |-> IF c = {} THEN product[p].category ELSE c,
                            published |-> published]}
  /\ UNCHANGED <<listed, parent, product, level, editor>>

\* The whole row, as it was read: what others wrote since is lost.
UpdateProduct(d) ==
  /\ product[d.product].state = "live" /\ ReferencesParent(d.category)
  /\ product' = [product EXCEPT ![d.product].category = d.category, ![d.product].published = d.published]
  /\ drafts' = drafts \ {d}
  /\ UNCHANGED <<listed, parent, level, editor>>

UpdateProductFails(d) ==
  /\ drafts' = drafts \ {d}
  /\ UNCHANGED <<listed, parent, product, level, editor>>

DeleteProduct(p) ==
  /\ product[p].state = "live"
  /\ product' = [product EXCEPT ![p].state = "deleted"]
  /\ UNCHANGED <<listed, parent, level, editor, drafts>>

CatalogInit ==
  /\ listed = {} /\ parent = [c \in Categories |-> {}]
  /\ product = [p \in CatalogProducts |-> Unlisted]
  /\ level = {}
  /\ editor = [e \in Editors |-> Desk]
  /\ drafts = {}

EditCategory(e) ==
  \/ \E c \in Categories : StartDelete(e, c) \/ \E p \in AtMostOne : StartCreate(e, c, p) \/ StartUpdate(e, c, p)
  \/ CheckParent(e) \/ InsertCategory(e) \/ UpdateCategory(e) \/ DeleteCategory(e) \/ EditFails(e)

EditProduct(p) ==
  \/ \E c \in AtMostOne, published \in BOOLEAN : CreateProduct(p, c, published) \/ ReadForUpdate(p, c, published)
  \/ EnsureProductLevel(p) \/ DeleteProduct(p)
  \/ \E d \in drafts : d.product = p /\ (UpdateProduct(d) \/ UpdateProductFails(d))

EditTree == \E e \in Editors : EditCategory(e)
EditProducts == \E p \in CatalogProducts : EditProduct(p)

CatalogNext == EditTree \/ EditProducts

CatalogSpec == CatalogInit /\ [][CatalogNext]_catalogVars

-----------------------------------------------------------------------------
CatalogTypeOK ==
  /\ listed \subseteq Categories
  /\ parent \in [Categories -> AtMostOne]
  /\ product \in [CatalogProducts -> [state : {"absent", "live", "deleted"}, category : AtMostOne, published : BOOLEAN]]
  /\ level \subseteq CatalogProducts
  /\ editor \in [Editors -> [step : {"idle", "create", "update", "create_checked", "update_checked", "delete"},
                             category : Categories, parent : AtMostOne, fresh : BOOLEAN]]
  /\ drafts \subseteq [product : CatalogProducts, category : AtMostOne, published : BOOLEAN]

\* Nothing refers to a category that is gone, though its products were counted, and
\* a new parent was looked up, before the statement that deletes it
\* (category.Delete, Update, product.Create).
NoOrphans ==
  /\ \A c \in listed : parent[c] \subseteq listed
  /\ \A p \in CatalogProducts : product[p].category \subseteq listed

InCircle(tree, c) == LET up == Up(tree, tree[c]) IN \E n \in 1..Cardinality(Categories) : c \in up[n]
IsTree(tree) == \A c \in Categories : ~InCircle(tree, c)

\* A move whose parent was checked against the tree it is written to closes no
\* circle and puts the category at most MaxDepth deep, although the walk is cut off
\* (AncestorDepthAndCycle).  Two moves that overlap can: each checks the tree the
\* other has not written yet.
CheckedMovesKeepTree ==
  \A e \in Editors :
    LET d == editor[e]  moved == [parent EXCEPT ![d.category] = d.parent] IN
    d.fresh /\ IsTree(parent) =>
      /\ IsTree(moved)
      /\ Up(moved, {d.category})[MaxDepth + 1] = {} \/ d.parent = {}

\* The category tree stays one, as far as edits that do not overlap go, and whole.
TreeKept == NoOrphans /\ CheckedMovesKeepTree
===============================================================================
