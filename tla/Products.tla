------------------------------ MODULE Products ------------------------------
(***************************************************************************)
(* A product is created in the panel (frontend/src/pages/admin/ProductsPage  *)
(* .tsx, features/catalog/CreateProductForm.tsx): a form with defaults that  *)
(* depend on other queries, an estimated price asked for while one types,    *)
(* and a creation of two requests, one for the product (catalog/service.py   *)
(* create_product) and one for its taxes (pricing/service.py).              *)
(*                                                                         *)
(* One panel is modelled; other administrators edit the categories.         *)
(***************************************************************************)
EXTENDS Naturals, Sequences

CONSTANTS
    Fields,     \* bound: the fields that are edited
    InOrder,    \* the answers to the previews come in the order asked
    LastField,  \* bound: edits of the form
    LastChange, \* bound: edits of a category elsewhere
    LastOpen,   \* bound: times the form is opened
    LastProduct,\* bound: products made
    Nothing

VARIABLES
    \* the server
    categories,     \* [Cats -> [unit, tax]]
    products,       \* the products made, in order
    changes,        \* Nat: edits of a category
    \* the panel
    seenCategories, \* the categories as last read
    read,           \* what has been read of the warehouses: 0 their list, w its locations
    newProduct,     \* the form that is open, or Nothing
    fields,         \* Nat
    opened,         \* Nat: forms opened
    timer,          \* the preview waits 300 ms
    previews,       \* the previews asked for and not answered
    estimate,       \* the price shown as estimated, or Nothing
    request,        \* the creation under way, or Nothing
    error           \* the last creation failed

productServer == <<categories, products, changes>>
preview == <<timer, previews, estimate>>
productVars == <<productServer, seenCategories, read, newProduct, fields, opened, preview, request, error>>

Cats == {1, 2}
Units == {1, 2}
Taxes == {1, 2}
Warehouses == {1, 2}
LocationsOf(w) == {10 * w}
ProductCosts == {0, 10}     \* Nothing is what is not a number
Margins == {3}
Prices == {50}
Barcodes == {7}
Option(S) == S \cup {Nothing}

Categories == [Cats -> [unit: Option(Units), tax: Option(Taxes)]]

Locations == UNION {LocationsOf(w) : w \in Warehouses}

ProductForms ==
    [nr: 1..LastOpen, dirty: BOOLEAN,
     cat: Option(Cats), unit: Option(Units), cost: Option(ProductCosts), margin: Option(Margins), price: Nat,
     barcode: Option(Barcodes), own: BOOLEAN, tax: Option(Taxes),
     stocked: BOOLEAN, wh: Option(Warehouses), loc: Option(Locations),
     tracked: BOOLEAN, lot: BOOLEAN]

\* A creation: the form as it was sent and, apart, the taxes
ProductRequests == [of: ProductForms, tax: Option(Taxes), call: {"create", "pricing"},
                    stage: {"sent", "answered", "refused"}, id: Nat]

Products == [cat: Option(Cats), unit: Units, tax: Option(Taxes), price: Nat,
             barcode: Option(Barcodes), stocked: BOOLEAN, wh: Option(Warehouses),
             loc: Option(Locations), tracked: BOOLEAN, lot: BOOLEAN]

\* What a preview is asked with
Inputs == [cost: ProductCosts, margin: Option(Margins), tax: Option(Taxes)]

ProductsAssumption ==
    /\ InOrder \in BOOLEAN
    /\ {LastField, LastChange, LastOpen, LastProduct} \subseteq Nat
    /\ Nothing \notin Nat /\ Nothing \notin ProductForms /\ Nothing \notin ProductRequests

(* The server, the form and its requests have their types.                 *)
ProductsTypeOK ==
    /\ categories \in Categories
    /\ products \in Seq(Products)
    /\ changes \in 0..LastChange
    /\ seenCategories \in Categories
    /\ read \subseteq 0..2
    /\ newProduct \in Option(ProductForms)
    /\ fields \in 0..LastField
    /\ opened \in 0..LastOpen
    /\ timer \in BOOLEAN
    /\ previews \in Seq(Inputs)
    /\ estimate \in Option(Nat)
    /\ request \in Option(ProductRequests)
    /\ error \in BOOLEAN

ProductsInit ==
    /\ categories = [c \in Cats |-> [unit |-> IF c = 1 THEN 1 ELSE Nothing, tax |-> c]]
    /\ products = <<>>
    /\ changes = 0
    /\ seenCategories = categories
    /\ read = {}
    /\ newProduct = Nothing
    /\ fields = 0
    /\ opened = 0
    /\ timer = FALSE
    /\ previews = <<>>
    /\ estimate = Nothing
    /\ request = Nothing
    /\ error = FALSE

-----------------------------------------------------------------------------
(* What the form derives *)

\* The product's own tax, or else that of its category; the margin likewise is
\* the category's, none here, when it is left empty.
TaxOf(cs, cat, tax) ==
    IF tax # Nothing THEN tax ELSE IF cat # Nothing THEN cs[cat].tax ELSE Nothing

InputsOf(cs, f) == [cost |-> f.cost, margin |-> f.margin, tax |-> TaxOf(cs, f.cat, f.tax)]

\* _calculate_automatic_price: every set of inputs has its own price.
PriceOf(in) ==
    in.cost + (IF in.margin = Nothing THEN 0 ELSE in.margin) + (IF in.tax = Nothing THEN 0 ELSE in.tax)

\* useDefaultToFirstOption: a choice that is not offered becomes the first one
\* offered; while the options are being read it stays.
Default(known, current, options) ==
    IF known /\ current \notin options THEN CHOOSE o \in options : \A p \in options : o <= p
    ELSE current

Located(f, rd) ==
    LET g == [f EXCEPT !.wh = Default(0 \in rd, @, Warehouses)]
    IN  IF g.wh = Nothing THEN g
        ELSE [g EXCEPT !.loc = Default(g.wh \in rd, @, LocationsOf(g.wh))]

\* The unit of the category, whenever the category or the categories change
WithUnit(f, cs) ==
    IF f.cat # Nothing /\ cs[f.cat].unit # Nothing THEN [f EXCEPT !.unit = cs[f.cat].unit] ELSE f

Blank == [nr |-> opened + 1, dirty |-> FALSE,
          cat |-> Nothing, unit |-> Nothing, cost |-> 0, margin |-> Nothing, price |-> 0, barcode |-> Nothing,
          own |-> FALSE, tax |-> Nothing, stocked |-> FALSE, wh |-> Nothing, loc |-> Nothing,
          tracked |-> FALSE, lot |-> FALSE]

\* superRefine: what a form needs to be sent
Valid(f) ==
    /\ f.unit # Nothing
    /\ f.cost # Nothing
    /\ f.stocked =>
          /\ f.wh # Nothing
          /\ f.loc # Nothing
          /\ f.tracked => f.lot

\* The preview is asked for 300 ms after the last change of what it depends on.
Watch(f) ==
    IF f.cost = Nothing THEN timer' = FALSE /\ estimate' = Nothing
    ELSE timer' = TRUE /\ UNCHANGED estimate

-----------------------------------------------------------------------------
(* The categories and the warehouses *)

\* Another administrator edits a category.
ChangeCategory ==
    /\ changes < LastChange
    /\ changes' = changes + 1
    /\ \E c \in Cats, u \in Units, t \in Taxes :
          /\ categories[c] # [unit |-> u, tax |-> t]
          /\ categories' = [categories EXCEPT ![c] = [unit |-> u, tax |-> t]]
    /\ UNCHANGED <<products, seenCategories, read, newProduct, fields, opened, preview, request, error>>

\* The categories are read again, and the effects that depend on them run.
Refetch ==
    /\ seenCategories # categories
    /\ seenCategories' = categories
    /\ IF newProduct = Nothing THEN UNCHANGED <<newProduct, timer, estimate>>
       ELSE newProduct' = WithUnit(newProduct, categories) /\ Watch(newProduct')
    /\ UNCHANGED <<productServer, read, fields, opened, previews, request, error>>

\* The list of warehouses, or the locations of the one that is chosen, arrive.
ReadWarehouses ==
    /\ newProduct # Nothing
    /\ \E w \in 0..2 \ read :
          /\ w # 0 => newProduct.wh = w
          /\ read' = read \cup {w}
    /\ newProduct' = Located(newProduct, read')
    /\ UNCHANGED <<productServer, seenCategories, fields, opened, preview, request, error>>

-----------------------------------------------------------------------------
(* The form *)

OpenProduct ==
    /\ newProduct = Nothing
    /\ opened < LastOpen
    /\ opened' = opened + 1
    /\ newProduct' = Located(Blank, read)
    /\ timer' = TRUE
    /\ previews' = <<>>
    /\ estimate' = Nothing
    /\ UNCHANGED <<productServer, seenCategories, read, fields, request, error>>

EditField(field, g) ==
    /\ newProduct # Nothing
    /\ field \in Fields
    /\ fields < LastField
    /\ g # newProduct
    /\ fields' = fields + 1
    /\ newProduct' = [g EXCEPT !.dirty = TRUE]
    /\ UNCHANGED <<productServer, seenCategories, read, opened, previews, request, error>>

Quiet == UNCHANGED <<timer, estimate>>

EditUnit == \E u \in Units : EditField("unit", [newProduct EXCEPT !.unit = u]) /\ Quiet

EditCategory == \E c \in Option(Cats) :
    /\ EditField("cat", WithUnit([newProduct EXCEPT !.cat = c], seenCategories))
    /\ Watch(newProduct')

\* Mutant: a new cost does not restart the timer.
EditCost_Quiet == \E n \in Option(ProductCosts) : EditField("cost", [newProduct EXCEPT !.cost = n]) /\ Quiet

EditCost == \E n \in Option(ProductCosts) :
    /\ EditField("cost", [newProduct EXCEPT !.cost = n])
    /\ Watch(newProduct')

EditMargin == \E n \in Option(Margins) :
    /\ EditField("margin", [newProduct EXCEPT !.margin = n])
    /\ Watch(newProduct')

EditPrice == \E n \in Prices : EditField("price", [newProduct EXCEPT !.price = n]) /\ Quiet

\* "Usar este precio"
UsePrice == estimate # Nothing /\ EditField("price", [newProduct EXCEPT !.price = estimate]) /\ Quiet

\* The chip that is shown as chosen is taken away by pressing it again.
Shown == IF newProduct.own THEN newProduct.tax ELSE IF newProduct.cat = Nothing THEN Nothing ELSE seenCategories[newProduct.cat].tax

PressTax == \E t \in Taxes :
    /\ newProduct # Nothing
    /\ EditField("tax", [newProduct EXCEPT !.own = TRUE, !.tax = IF Shown = t THEN Nothing ELSE t])
    /\ Watch(newProduct')

EditBarcode == \E b \in Option(Barcodes) : EditField("barcode", [newProduct EXCEPT !.barcode = b]) /\ Quiet

EditStock ==
    /\ \/ EditField("stock", [newProduct EXCEPT !.stocked = TRUE])
       \/ \E w \in Warehouses :
             EditField("stock", IF newProduct.stocked THEN Located([newProduct EXCEPT !.wh = w], read) ELSE newProduct)
    /\ Quiet

\* The lot and its date are offered for a stock that is tracked.
EditLot ==
    /\ EditField("lot", IF newProduct.tracked /\ newProduct.stocked THEN [newProduct EXCEPT !.lot = TRUE] ELSE newProduct)
    /\ Quiet

Track == EditField("lot", [newProduct EXCEPT !.tracked = ~@]) /\ Quiet

\* "Cancelar", confirmed when the form is dirty
CancelProduct ==
    /\ newProduct # Nothing
    /\ newProduct' = Nothing
    /\ error' = FALSE
    /\ timer' = FALSE
    /\ UNCHANGED <<productServer, seenCategories, read, fields, opened, previews, estimate, request>>

-----------------------------------------------------------------------------
(* The preview *)

AskPreview ==
    /\ newProduct # Nothing
    /\ timer
    /\ timer' = FALSE
    /\ previews' = Append(previews, InputsOf(seenCategories, newProduct))
    /\ UNCHANGED <<productServer, seenCategories, read, newProduct, fields, opened, estimate, request, error>>

\* An answer is shown whichever question it answers; an error shows nothing.
AnswerPreview ==
    /\ newProduct # Nothing
    /\ \E k \in DOMAIN previews :
          /\ InOrder => k = 1
          /\ previews' = SubSeq(previews, 1, k - 1) \o SubSeq(previews, k + 1, Len(previews))
          /\ estimate' \in {PriceOf(previews[k]), Nothing}
    /\ UNCHANGED <<productServer, seenCategories, read, newProduct, fields, opened, timer, request, error>>

-----------------------------------------------------------------------------
(* The creation *)

SubmitProduct ==
    /\ newProduct # Nothing
    /\ request = Nothing
    /\ Len(products) < LastProduct
    /\ Valid(newProduct)
    /\ request' = [of |-> newProduct, tax |-> newProduct.tax, call |-> "create", stage |-> "sent", id |-> 0]
    /\ UNCHANGED <<productServer, seenCategories, read, newProduct, fields, opened, preview, error>>

Refused == request' = [request EXCEPT !.stage = "refused"] /\ UNCHANGED products

\* validate_stock_location, and the lot of a product that is tracked
StockFits(f) == f.stocked => (f.loc \in LocationsOf(f.wh) /\ (f.tracked => f.lot))

\* _assert_barcode_free
BarcodeFree(b) == b = Nothing \/ \A i \in DOMAIN products : products[i].barcode # b

\* create_product: the product, its package and its stock in one transaction
CreateProduct ==
    /\ request # Nothing
    /\ request.call = "create" /\ request.stage = "sent"
    /\ LET f == request.of IN
       IF BarcodeFree(f.barcode) /\ StockFits(f)
       THEN /\ products' = Append(products,
                  [cat |-> f.cat, unit |-> f.unit, tax |-> Nothing,
                   price |-> f.price, barcode |-> f.barcode, stocked |-> f.stocked,
                   wh |-> f.wh, loc |-> f.loc, tracked |-> f.tracked, lot |-> f.lot])
            /\ request' = [request EXCEPT !.stage = "answered", !.id = Len(products) + 1]
       ELSE Refused
    /\ UNCHANGED <<categories, changes, seenCategories, read, newProduct, fields, opened, preview, error>>

\* set_pricing_inputs: the taxes change, and with them the price.
SetTaxes ==
    /\ request # Nothing
    /\ request.call = "pricing" /\ request.stage = "sent"
    /\ LET f == request.of
           taxed == [products EXCEPT
               ![request.id].tax = request.tax,
               ![request.id].price = PriceOf([cost |-> f.cost, margin |-> f.margin, tax |-> request.tax])]
       IN  products' = taxed
    /\ request' = [request EXCEPT !.stage = "answered"]
    /\ UNCHANGED <<categories, changes, seenCategories, read, newProduct, fields, opened, preview, error>>

\* The product is answered: its taxes follow, or it is done and the form goes.
ProductCreated ==
    /\ request # Nothing
    /\ request.stage = "answered"
    /\ IF request.call = "create" /\ request.tax # Nothing
       THEN /\ request' = [request EXCEPT !.call = "pricing", !.stage = "sent"]
            /\ UNCHANGED <<newProduct, error, timer>>
       ELSE /\ request' = Nothing
            /\ newProduct' = Nothing
            /\ error' = FALSE
            /\ timer' = FALSE
    /\ UNCHANGED <<productServer, seenCategories, read, fields, opened, previews, estimate>>

Failed ==
    /\ request' = Nothing
    /\ error' = TRUE
    /\ UNCHANGED <<productServer, seenCategories, read, newProduct, fields, opened, preview>>

ProductNotCreated == request # Nothing /\ request.stage = "refused" /\ Failed

\* A request or its answer is lost.
Lost == request # Nothing /\ request.stage \in {"sent", "answered"} /\ Failed

-----------------------------------------------------------------------------
ProductsNext ==
    \/ ChangeCategory \/ Refetch \/ ReadWarehouses
    \/ OpenProduct \/ CancelProduct
    \/ EditUnit \/ EditCategory \/ EditCost \/ EditMargin \/ EditPrice \/ UsePrice \/ PressTax
    \/ EditBarcode \/ EditStock \/ EditLot \/ Track
    \/ AskPreview \/ AnswerPreview
    \/ SubmitProduct \/ CreateProduct \/ SetTaxes \/ ProductCreated \/ ProductNotCreated \/ Lost

ProductsSpec == ProductsInit /\ [][ProductsNext]_productVars

-----------------------------------------------------------------------------
(* "PVP estimado": when nothing is being asked, the price on the screen is  *)
(* the one the server would calculate for what the form says.               *)
EstimateIsCurrent ==
    (newProduct # Nothing /\ ~timer /\ previews = <<>> /\ estimate # Nothing)
        => (newProduct.cost # Nothing => estimate = PriceOf(InputsOf(seenCategories, newProduct)))

(* Opening stock is recorded at a location of its warehouse and, when the   *)
(* product is tracked, in a lot, whatever the form still held of another    *)
(* warehouse when it was sent.                                              *)
StockIsWhole ==
    \A i \in DOMAIN products : products[i].stocked =>
        /\ products[i].loc \in LocationsOf(products[i].wh)
        /\ products[i].tracked => products[i].lot

(* Creating again after an error that was none (a lost answer, taxes that   *)
(* failed) never makes two products of one barcode.                         *)
BarcodesDiffer ==
    \A i, j \in DOMAIN products :
        (i # j /\ products[i].barcode # Nothing) => products[i].barcode # products[j].barcode

(* A product has a tax of its own only if the chips were pressed: one whose *)
(* chips were left alone goes on inheriting those of its category.          *)
UntouchedInherits ==
    [][\A i \in DOMAIN products' :
          (products'[i].tax # Nothing /\ (i \notin DOMAIN products \/ products[i].tax = Nothing))
              => request.of.own]_productVars

(* A product is created as its form showed it: the price on the screen is    *)
(* that of what the screen says, as soon as nothing is awaited; a product    *)
(* left alone inherits its taxes, and it is made once, with its opening      *)
(* stock whole.                                                             *)
CreatedAsShown ==
    /\ [](ProductsTypeOK /\ EstimateIsCurrent /\ StockIsWhole /\ BarcodesDiffer)
    /\ UntouchedInherits
=============================================================================
