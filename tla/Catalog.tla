------------------------------ MODULE Catalog ------------------------------
(***************************************************************************)
(* The catalog and the scripts of one tenant (src/catalog, src/scripts).   *)
(* Every update and removal first finds its row and then writes it, in two *)
(* statements, and the constraints of the database are all that stands     *)
(* between two editors.                                                    *)
(***************************************************************************)
EXTENDS Integers, FiniteSets

CONSTANTS
  Editors,               \* PATCH, DELETE, POST and PUT requests in flight
  Products, Warehouses, Categories, Options, Scripts,   \* ids of rows
  Quantities,
  Missing

ASSUME CatalogAssumption ==
  /\ Quantities \subseteq Nat /\ Missing \notin Categories
  /\ Products \cap (Warehouses \cup Categories \cup Options \cup Scripts) = {}
  /\ Warehouses \cap (Categories \cup Options \cup Scripts) = {}
  /\ Categories \cap (Options \cup Scripts) = {} /\ Options \cap Scripts = {}

VARIABLES
  row,         \* Product, Warehouse, Category, DeliveryOption, ScriptTemplate rows
  stock,       \* Stock rows by warehouse and product
  epc, edit,   \* where each request stands, and what it is to write
  answer       \* its last HTTP status, 0 until there is one

catalogVars == <<row, stock, epc, edit, answer>>

Ids == Products \cup Warehouses \cup Categories \cup Options \cup Scripts
Gone == [state |-> "gone"]
NoEdit == [field |-> "none"]
NewRow(category) == [state |-> "row", active |-> TRUE, category |-> category, priced |-> 0]

Exists(x) == row[x] # Gone

-----------------------------------------------------------------------------
(* What an edit may set                                                    *)

ProductEdits == ({"active"} \X BOOLEAN) \cup ({"category"} \X Categories)

(* Only soft deletes: "Stock rows cascade-delete when their Warehouse is   *)
(* removed, which would silently wipe inventory history".                  *)
WarehouseEdits == ({"active"} \X BOOLEAN) \cup {<<"name", 0>>}

CategoryEdits == {<<"name", 0>>, <<"remove", TRUE>>}

OptionEdits == ({"priced"} \X {0, 1}) \cup {<<"remove", TRUE>>}

ScriptEdits == ({"active"} \X BOOLEAN) \cup {<<"name", 0>>}

Edits(x) ==
  CASE x \in Products -> ProductEdits
    [] x \in Warehouses -> WarehouseEdits
    [] x \in Categories -> CategoryEdits
    [] x \in Options -> OptionEdits
    [] x \in Scripts -> ScriptEdits

-----------------------------------------------------------------------------
(* Answers                                                                 *)

Mut_StatusOf(error) == CASE error = "P2002" -> 409 [] error = "P2003" -> 409 [] OTHER -> 500

(* prisma-exception.filter.ts: a unique key, a foreign key, a missing row. *)
StatusOf(error) ==
  CASE error = "P2002" -> 409 [] error = "P2003" -> 409 [] error = "P2025" -> 404 [] OTHER -> 500

Say(e, status) ==
  /\ epc' = [epc EXCEPT ![e] = "idle"]
  /\ edit' = [edit EXCEPT ![e] = NoEdit]
  /\ answer' = [answer EXCEPT ![e] = status]

Goes(e, to, what) ==
  /\ epc' = [epc EXCEPT ![e] = to]
  /\ edit' = [edit EXCEPT ![e] = what]
  /\ answer' = [answer EXCEPT ![e] = 0]

-----------------------------------------------------------------------------
(* Operations                                                              *)

(* create: one INSERT.  A category that is no longer there is refused by   *)
(* the foreign key.                                                        *)
CreateRow(e, x, category) ==
  /\ epc[e] = "idle" /\ row[x] = Gone
  /\ category = Missing \/ x \in Products
  /\ IF category # Missing /\ ~Exists(category)
     THEN Say(e, StatusOf("P2003")) /\ UNCHANGED row
     ELSE Say(e, 201) /\ row' = [row EXCEPT ![x] = NewRow(category)]
  /\ UNCHANGED stock

(* findOrThrow of each service.                                            *)
FindOrThrow(e, x, field, value) ==
  /\ epc[e] = "idle"
  /\ IF Exists(x) THEN Goes(e, "write", [field |-> field, value |-> value, id |-> x]) ELSE Say(e, 404)
  /\ UNCHANGED <<row, stock>>

(* Products of a removed category keep no category (ON DELETE SET NULL).   *)
RowsWithout(x) ==
  [y \in Ids |->
    IF y = x THEN Gone
    ELSE IF Exists(y) /\ row[y].category = x THEN [row[y] EXCEPT !.category = Missing]
    ELSE row[y]]

(* The row may have gone since it was found.                               *)
WriteRow(e) ==
  /\ epc[e] = "write"
  /\ LET x == edit[e].id
         set == edit[e].field
         v == edit[e].value
     IN  \/ ~Exists(x) /\ Say(e, StatusOf("P2025")) /\ UNCHANGED <<row, stock>>
         \/ /\ Exists(x) /\ set = "category" /\ ~Exists(v)
            /\ Say(e, StatusOf("P2003")) /\ UNCHANGED <<row, stock>>
         \/ /\ Exists(x) /\ set = "remove"
            /\ Say(e, 204)
            /\ row' = RowsWithout(x)
            /\ stock' = [s \in DOMAIN stock |-> IF x \in {s[1], s[2]} THEN Missing ELSE stock[s]]
         \/ /\ Exists(x) /\ set # "remove" /\ (set = "category" => Exists(v))
            /\ Say(e, 200)
            /\ row' = CASE set = "active" -> [row EXCEPT ![x].active = v]
                        [] set = "category" -> [row EXCEPT ![x].category = v]
                        [] set = "priced" -> [row EXCEPT ![x].priced = v]
                        [] OTHER -> row
            /\ UNCHANGED stock

(* setQuantity: both parents, then the upsert, which looks for the row and *)
(* inserts it when there was none.                                         *)
FindParents(e, w, p, n) ==
  /\ epc[e] = "idle"
  /\ IF Exists(w) /\ Exists(p)
     THEN Goes(e, "upsert", [field |-> "stock", value |-> n, id |-> <<w, p>>])
     ELSE Say(e, 404)
  /\ UNCHANGED <<row, stock>>

LookForStock(e) ==
  /\ epc[e] = "upsert"
  /\ Goes(e, IF stock[edit[e].id] = Missing THEN "insert" ELSE "update", edit[e])
  /\ UNCHANGED <<row, stock>>

PutStock(e) ==
  /\ epc[e] \in {"insert", "update"}
  /\ IF epc[e] = "insert" /\ stock[edit[e].id] # Missing
     THEN Say(e, StatusOf("P2002")) /\ UNCHANGED stock
     ELSE Say(e, 200) /\ stock' = [stock EXCEPT ![edit[e].id] = edit[e].value]
  /\ UNCHANGED row

CatalogInit ==
  /\ stock \in [Warehouses \X Products -> Quantities \cup {Missing}]
  /\ \E X \in SUBSET (Products \cup Warehouses) :
       /\ row = [x \in Ids |-> IF x \in X THEN NewRow(Missing) ELSE Gone]
       /\ \A s \in DOMAIN stock : stock[s] # Missing => s[1] \in X /\ s[2] \in X
  /\ epc = [e \in Editors |-> "idle"]
  /\ edit = [e \in Editors |-> NoEdit]
  /\ answer = [e \in Editors |-> 0]

Starts(e) ==
  \/ \E x \in Ids, k \in Categories \cup {Missing} : CreateRow(e, x, k)
  \/ \E x \in Ids : \E c \in Edits(x) : FindOrThrow(e, x, c[1], c[2])
  \/ \E w \in Warehouses, p \in Products, n \in Quantities : FindParents(e, w, p, n)

CatalogNext == \E e \in Editors : Starts(e) \/ WriteRow(e) \/ LookForStock(e) \/ PutStock(e)

CatalogSpec == CatalogInit /\ [][CatalogNext]_catalogVars

-----------------------------------------------------------------------------
(* Properties                                                              *)

(* Whatever two editors do to each other between a find and a write, each  *)
(* is told so: "instead of letting them bubble up as an opaque 500".       *)
RacesAnswered == \A e \in Editors : answer[e] # 500

(* No product refers to a category that is not there.                      *)
CategoriesResolve ==
  \A p \in Products : Exists(p) /\ row[p].category # Missing => Exists(row[p].category)

(* Whatever two editors do to each other, the database stays sound and     *)
(* they are told: RacesAnswered and CategoriesResolve.                     *)
CatalogHolds == RacesAnswered /\ CategoriesResolve

=============================================================================
