-------------------------- MODULE CommercialRecords --------------------------
(***************************************************************************)
(* The records that documents are priced and addressed with, customers,    *)
(* suppliers, price lists with their items, discount rules and tax rules,  *)
(* and purchase requisitions.  All six are edited the same way: a client   *)
(* reads a record in one request and sends changes, or a new status, in a  *)
(* later one; the version that it read may guard the change.  They differ  *)
(* in what is guarded, in when a record may be edited, and in what a read  *)
(* is made of.  A behaviour follows one record of one kind, which the      *)
(* initial state chooses.                                                  *)
(*                                                                         *)
(* The scalar fields of a record are one value, its terms; the contacts,   *)
(* office, tax and other sections of a customer are one more, its details, *)
(* and the lines of a requisition, which are never edited, are left out.   *)
(* A price list has the periods of one item and unit of measure.  A        *)
(* handler of one statement, or whose first statement locks the row, is    *)
(* one step; a read of a customer is one step for the row and one for the  *)
(* details, a requisition's change of status one for the check and one for *)
(* the UPDATE, and a new price one for each statement and one for COMMIT.  *)
(***************************************************************************)
EXTENDS Integers, FiniteSets

CONSTANTS
    Editors,    \* clients that edit the record
    Careful,    \* those that send the version they read where it is optional
    Terms,      \* contents of the scalar fields
    Details,    \* contents of the sections of a customer
    LastDay,    \* the days are 1 .. LastDay
    MaxVersion, \* bound: the versions of the record
    Blank,      \* cleared
    None        \* nothing

ASSUME RecordsAssumption ==
    /\ Careful \subseteq Editors
    /\ LastDay \in Nat /\ MaxVersion \in Nat \ {0}
    /\ Blank # None
    /\ {"missing", "null"} \cap (Terms \cup Details) = {}
    /\ {Blank, None} \cap (Terms \cup Details \cup {"missing", "null"}) = {}

VARIABLES
    kind,       \* which of the six records this is
    record,     \* its row, with the sections of a customer
    items,      \* the periods of the price list that are committed
    editor,     \* what each client has read, or the transaction it is in
    quoted      \* history: what a quotation was given for a day, or None

recordsVars == <<kind, record, items, editor, quoted>>

Kinds == {"customer", "supplier", "priceList", "discountRule", "taxRule", "requisition"}
Days == 1 .. LastDay
Forever == LastDay + 1              \* effective_to IS NULL
Periods == {p \in [from : Days, to : Days \cup {Forever}] : p.from <= p.to}

Statuses == {"none", "live", "deleted", "DRAFT", "PUBLISHED", "ARCHIVED",
             "INACTIVE", "ACTIVE", "SUBMITTED", "CANCELLED"}
Record ==
    [status : Statuses, version : 0 .. MaxVersion,
     terms : Terms \cup {Blank, None}, details : Details \cup {Blank, None}]
NoRecord == [status |-> "none", version |-> 0, terms |-> None, details |-> None]

\* What a client read, how far its request is and what the request will write.
Idle == [at |-> "idle", read |-> NoRecord, to |-> None, period |-> None]
Editor ==
    [at : {"idle", "row", "open", "moving", "checked", "inserted"}, read : Record,
     to : Statuses \cup {None}, period : Periods \cup {None}]
Quote == [day : Days, answer : Periods \cup Terms \cup {Blank}]

RecordsTypeOK ==
    /\ kind \in Kinds
    /\ record \in Record
    /\ record.status # "none" =>
          record.terms # None /\ (record.details = None <=> kind # "customer")
    /\ items \subseteq Periods
    /\ kind # "priceList" => items = {}
    /\ editor \in [Editors -> Editor]
    /\ \A e \in Editors : editor[e].at = "idle" => editor[e] = Idle
    /\ quoted \in Quote \cup {None}

RecordsInit ==
    /\ kind \in Kinds
    /\ record = NoRecord
    /\ items = {}
    /\ editor = [e \in Editors |-> Idle]
    /\ quoted = None

Close(e) == editor' = [editor EXCEPT ![e] = Idle]
Room == record.version < MaxVersion
Bump(r) == [r EXCEPT !.version = @ + 1]

------------------------------------------------------------------------------
(* Creation.                                                               *)

\* insertCustomer: the row and the sections of the request.
InsertCustomer(t, d) ==
    record' = [status |-> "live", version |-> 1, terms |-> t, details |-> d]

\* A field of a customer that is missing or null is not a change; the empty
\* string is.
NormalizeField(x) == IF x \in {"missing", "null"} THEN None ELSE x

\* A section that is missing is not a change; null, or one without contents,
\* clears the section.
NormalizeSection(x) ==
    IF x = "missing" THEN None ELSE IF x = "null" THEN Blank ELSE x

NormalizeCustomerInput(t, d) ==
    [terms |-> NormalizeField(t), details |-> NormalizeSection(d)]

FieldInputs == Terms \cup {"missing", "null", Blank}
SectionInputs == Details \cup {"missing", "null"}

CreateCustomer ==
    /\ kind = "customer" /\ record.status = "none"
    /\ \E t \in Terms, d \in SectionInputs :
          LET input == NormalizeCustomerInput(t, d)
          IN  InsertCustomer(input.terms,
                             IF input.details = None THEN Blank ELSE input.details)
    /\ UNCHANGED <<kind, items, editor, quoted>>

\* The INSERTs of price lists, discount rules and tax rules; the status is the
\* default of the column.
InsertPriceList(t) ==
    record' = [status |-> "DRAFT", version |-> 1, terms |-> t, details |-> None]
InsertDiscountRule(t) ==
    record' = [status |-> "DRAFT", version |-> 1, terms |-> t, details |-> None]
InsertTaxRule(t) ==
    record' = [status |-> "INACTIVE", version |-> 1, terms |-> t, details |-> None]

CreatePriceList ==
    /\ kind = "priceList" /\ record.status = "none"
    /\ \E t \in Terms : InsertPriceList(t)
    /\ UNCHANGED <<kind, items, editor, quoted>>

CreateDiscountRule ==
    /\ kind = "discountRule" /\ record.status = "none"
    /\ \E t \in Terms : InsertDiscountRule(t)
    /\ UNCHANGED <<kind, items, editor, quoted>>

\* INSERT INTO procurement_suppliers and procurement_requisitions: the first is
\* not deleted, the second has the default of its column.
InsertSupplier(t) ==
    record' = [status |-> "live", version |-> 1, terms |-> t, details |-> None]
InsertRequisition(t) ==
    record' = [status |-> "DRAFT", version |-> 1, terms |-> t, details |-> None]

CreateSupplier ==
    /\ kind = "supplier" /\ record.status = "none"
    /\ \E t \in Terms : InsertSupplier(t)
    /\ UNCHANGED <<kind, items, editor, quoted>>

CreateRequisition ==
    /\ kind = "requisition" /\ record.status = "none"
    /\ \E t \in Terms : InsertRequisition(t)
    /\ UNCHANGED <<kind, items, editor, quoted>>

CreateTaxRule ==
    /\ kind = "taxRule" /\ record.status = "none"
    /\ \E t \in Terms : InsertTaxRule(t)
    /\ UNCHANGED <<kind, items, editor, quoted>>

------------------------------------------------------------------------------
(* Reading.                                                                *)

\* The copy of the row that a query returns.
Copy(place) ==
    [at |-> place, read |-> [record EXCEPT !.details = None],
     to |-> None, period |-> None]

\* loadFullCustomer: the row first, and nothing of a deleted customer.
LoadFullCustomer(e) ==
    /\ record.status = "live"
    /\ editor' = [editor EXCEPT ![e] = Copy("row")]

\* loadDetailRecords: the sections, in statements of their own.
LoadDetailRecords(e) ==
    editor' = [editor EXCEPT ![e].at = "open", ![e].read.details = record.details]

GetCustomer(e) ==
    /\ kind = "customer" /\ editor[e].at = "idle"
    /\ LoadFullCustomer(e)
    /\ UNCHANGED <<kind, record, items, quoted>>

GetDetails(e) ==
    /\ kind = "customer" /\ editor[e].at = "row"
    /\ LoadDetailRecords(e)
    /\ UNCHANGED <<kind, record, items, quoted>>

\* A price list is read by its id or in the list of all; its items do not
\* matter to what can be changed of it.
GetPriceList(e) ==
    /\ kind = "priceList" /\ editor[e].at = "idle" /\ record.status # "none"
    /\ editor' = [editor EXCEPT ![e] = Copy("open")]
    /\ UNCHANGED <<kind, record, items, quoted>>

\* Discount rules and tax rules are read in the list of all.
ListDiscountRules(e) ==
    /\ kind = "discountRule" /\ editor[e].at = "idle" /\ record.status # "none"
    /\ editor' = [editor EXCEPT ![e] = Copy("open")]
    /\ UNCHANGED <<kind, record, items, quoted>>

ListTaxRules(e) ==
    /\ kind = "taxRule" /\ editor[e].at = "idle" /\ record.status # "none"
    /\ editor' = [editor EXCEPT ![e] = Copy("open")]
    /\ UNCHANGED <<kind, record, items, quoted>>

\* Nothing of a deleted supplier is read.
GetSupplier(e) ==
    /\ kind = "supplier" /\ editor[e].at = "idle" /\ record.status = "live"
    /\ editor' = [editor EXCEPT ![e] = Copy("open")]
    /\ UNCHANGED <<kind, record, items, quoted>>

GetRequisition(e) ==
    /\ kind = "requisition" /\ editor[e].at = "idle" /\ record.status # "none"
    /\ editor' = [editor EXCEPT ![e] = Copy("open")]
    /\ UNCHANGED <<kind, record, items, quoted>>

------------------------------------------------------------------------------
(* Customers.                                                              *)

\* expectedVersion is optional.
VersionMatches(e) == e \in Careful => editor[e].read.version = record.version

\* mutant: a change of the sections alone leaves the row, and its version, alone
FieldsTouch(change) == change.terms # None

\* The row is updated, and its version with it, when a field or a section
\* changes.
Touches(change) == change.terms # None \/ change.details # None

\* buildCustomerUpdateSql
FieldUpdate(change) == IF change.terms = None THEN record.terms ELSE change.terms

\* upsertChildData: a section of the request replaces the stored one.
UpsertChildData(change) ==
    IF change.details = None THEN record.details ELSE change.details

\* mutateReturning, of an update
SaveCustomer(change) ==
    record' = [status |-> record.status,
               version |-> record.version + (IF Touches(change) THEN 1 ELSE 0),
               terms |-> FieldUpdate(change),
               details |-> UpsertChildData(change)]

UpdateCustomer(e) ==
    /\ kind = "customer" /\ editor[e].at = "open" /\ Room
    /\ \E t \in FieldInputs, d \in SectionInputs :
          IF record.status = "live" /\ VersionMatches(e)
          THEN SaveCustomer(NormalizeCustomerInput(t, d))
          ELSE UNCHANGED record
    /\ Close(e)
    /\ UNCHANGED <<kind, items, quoted>>

\* mutateReturning, of a deletion
MarkDeleted == record' = Bump([record EXCEPT !.status = "deleted"])

SoftDeleteCustomer(e) ==
    /\ kind = "customer" /\ editor[e].at = "open" /\ Room
    /\ IF record.status = "live" /\ VersionMatches(e)
       THEN MarkDeleted
       ELSE UNCHANGED record
    /\ Close(e)
    /\ UNCHANGED <<kind, items, quoted>>

------------------------------------------------------------------------------
(* Price lists, discount rules and tax rules: the version is mandatory.    *)

SameVersion(e) == record.version = editor[e].read.version

UpdatePriceListRow(e, t) ==
    IF record.status = "DRAFT" /\ SameVersion(e)
    THEN record' = Bump([record EXCEPT !.terms = t])
    ELSE UNCHANGED record

UpdatePriceList(e) ==
    /\ kind = "priceList" /\ editor[e].at = "open" /\ Room
    /\ \E t \in Terms : UpdatePriceListRow(e, t)
    /\ Close(e)
    /\ UNCHANGED <<kind, items, quoted>>

UpdateDiscountRow(e, t) ==
    IF record.status = "DRAFT" /\ SameVersion(e)
    THEN record' = Bump([record EXCEPT !.terms = t])
    ELSE UNCHANGED record

UpdateDiscountRule(e) ==
    /\ kind = "discountRule" /\ editor[e].at = "open" /\ Room
    /\ \E t \in Terms : UpdateDiscountRow(e, t)
    /\ Close(e)
    /\ UNCHANGED <<kind, items, quoted>>

\* A tax rule is edited whatever its status is.
UpdateTaxRow(e, t) ==
    IF SameVersion(e)
    THEN record' = Bump([record EXCEPT !.terms = t])
    ELSE UNCHANGED record

UpdateTaxRule(e) ==
    /\ kind = "taxRule" /\ editor[e].at = "open" /\ Room
    /\ \E t \in Terms : UpdateTaxRow(e, t)
    /\ Close(e)
    /\ UNCHANGED <<kind, items, quoted>>

Moves == {<<"DRAFT", "PUBLISHED">>, <<"PUBLISHED", "ARCHIVED">>}

TransitionPriceListRow(e, s) ==
    IF <<record.status, s>> \in Moves /\ SameVersion(e)
    THEN record' = Bump([record EXCEPT !.status = s])
    ELSE UNCHANGED record

TransitionPriceList(e) ==
    /\ kind = "priceList" /\ editor[e].at = "open" /\ Room
    /\ \E s \in {"PUBLISHED", "ARCHIVED"} : TransitionPriceListRow(e, s)
    /\ Close(e)
    /\ UNCHANGED <<kind, items, quoted>>

TransitionDiscountRow(e, s) ==
    IF <<record.status, s>> \in Moves /\ SameVersion(e)
    THEN record' = Bump([record EXCEPT !.status = s])
    ELSE UNCHANGED record

TransitionDiscountRule(e) ==
    /\ kind = "discountRule" /\ editor[e].at = "open" /\ Room
    /\ \E s \in {"PUBLISHED", "ARCHIVED"} : TransitionDiscountRow(e, s)
    /\ Close(e)
    /\ UNCHANGED <<kind, items, quoted>>

SetTaxStatus(e, s) ==
    IF SameVersion(e)
    THEN record' = Bump([record EXCEPT !.status = s])
    ELSE UNCHANGED record

TransitionTaxRule(e) ==
    /\ kind = "taxRule" /\ editor[e].at = "open" /\ Room
    /\ \E s \in {"ACTIVE", "INACTIVE"} : SetTaxStatus(e, s)
    /\ Close(e)
    /\ UNCHANGED <<kind, items, quoted>>

------------------------------------------------------------------------------
(* Suppliers and requisitions: the version is mandatory here too.          *)

\* update: a row that is not deleted and, where one is asked for, has a status.
UpdateProcurementRow(e, t, statuses) ==
    IF record.status \in statuses /\ SameVersion(e)
    THEN record' = Bump([record EXCEPT !.terms = t])
    ELSE UNCHANGED record

UpdateSupplier(e) ==
    /\ kind = "supplier" /\ editor[e].at = "open" /\ Room
    /\ \E t \in Terms : UpdateProcurementRow(e, t, {"live"})
    /\ Close(e)
    /\ UNCHANGED <<kind, items, quoted>>

DeleteSupplierRow(e) ==
    IF record.status = "live" /\ SameVersion(e) THEN MarkDeleted ELSE UNCHANGED record

DeleteSupplier(e) ==
    /\ kind = "supplier" /\ editor[e].at = "open" /\ Room
    /\ DeleteSupplierRow(e)
    /\ Close(e)
    /\ UNCHANGED <<kind, items, quoted>>

UpdateRequisition(e) ==
    /\ kind = "requisition" /\ editor[e].at = "open" /\ Room
    /\ \E t \in Terms : UpdateProcurementRow(e, t, {"DRAFT"})
    /\ Close(e)
    /\ UNCHANGED <<kind, items, quoted>>

\* The routes submit and cancel; the service's approval and rejection have none.
RequisitionMoves ==
    {<<"DRAFT", "SUBMITTED">>, <<"DRAFT", "CANCELLED">>, <<"SUBMITTED", "CANCELLED">>}

\* transition: the status of the row at this moment must allow the move ...
CheckTransition(e) ==
    /\ kind = "requisition" /\ editor[e].at = "open"
    /\ \E s \in {"SUBMITTED", "CANCELLED"} :
          IF <<record.status, s>> \in RequisitionMoves
          THEN editor' = [editor EXCEPT ![e].at = "moving", ![e].to = s]
          ELSE Close(e)
    /\ UNCHANGED <<kind, record, items, quoted>>

\* ... and the UPDATE asks only for the version that the client read.
MoveRequisition(e) ==
    /\ editor[e].at = "moving" /\ Room
    /\ IF SameVersion(e)
       THEN record' = Bump([record EXCEPT !.status = editor[e].to])
       ELSE UNCHANGED record
    /\ Close(e)
    /\ UNCHANGED <<kind, items, quoted>>

------------------------------------------------------------------------------
(* The prices of a list.                                                   *)

\* mutant: addItem does not take the advisory lock
KeyIgnored(e) == TRUE

\* pg_advisory_xact_lock on the list, item and unit: held until COMMIT.
KeyFree(e) == \A f \in Editors \ {e} : editor[f].at \notin {"checked", "inserted"}

\* The ranges that are compared are closed and end a day after the period.
Overlap(p, q) == p.from <= q.to + 1 /\ q.from <= p.to + 1

\* The lock and the search for an overlapping period.
CheckPeriod(e) ==
    /\ kind = "priceList" /\ editor[e].at = "idle" /\ record.status # "none"
    /\ KeyFree(e)
    /\ \E p \in Periods :
          /\ \A q \in items : ~Overlap(p, q)
          /\ editor' = [editor EXCEPT ![e] = [Idle EXCEPT !.at = "checked", !.period = p]]
    /\ UNCHANGED <<kind, record, items, quoted>>

\* INSERT ... WHERE EXISTS a list that is a draft; without it the request fails.
InsertItem(e) ==
    /\ editor[e].at = "checked"
    /\ IF record.status = "DRAFT"
       THEN editor' = [editor EXCEPT ![e].at = "inserted"]
       ELSE Close(e)
    /\ UNCHANGED <<kind, record, items, quoted>>

CommitItem(e) ==
    /\ editor[e].at = "inserted"
    /\ items' = items \cup {editor[e].period}
    /\ Close(e)
    /\ UNCHANGED <<kind, record, quoted>>

------------------------------------------------------------------------------
(* What a quotation is given.                                              *)

\* resolvePrice: of the items that are in force on the day, the one that
\* begins last.
ResolvePrice(day) ==
    LET inForce == {p \in items : p.from <= day /\ day <= p.to}
    IN  IF record.status # "PUBLISHED" THEN {}
        ELSE {p \in inForce : \A q \in inForce : q.from <= p.from}

\* resolve: the published discount rule.
ResolveDiscount == IF record.status = "PUBLISHED" THEN {record.terms} ELSE {}

Answers(day) ==
    CASE kind = "priceList" -> ResolvePrice(day)
      [] kind = "discountRule" -> ResolveDiscount
      [] OTHER -> {}

\* resolveCommercialLines, of the first quotation.
Resolve ==
    /\ quoted = None
    /\ \E day \in Days : \E a \in Answers(day) : quoted' = [day |-> day, answer |-> a]
    /\ UNCHANGED <<kind, record, items, editor>>

RecordsNext ==
    \/ CreateCustomer \/ CreatePriceList \/ CreateDiscountRule \/ CreateTaxRule
    \/ CreateSupplier \/ CreateRequisition
    \/ \E e \in Editors :
          \/ GetCustomer(e) \/ GetDetails(e) \/ UpdateCustomer(e) \/ SoftDeleteCustomer(e)
          \/ GetPriceList(e) \/ UpdatePriceList(e) \/ TransitionPriceList(e)
          \/ ListDiscountRules(e) \/ UpdateDiscountRule(e) \/ TransitionDiscountRule(e)
          \/ ListTaxRules(e) \/ UpdateTaxRule(e) \/ TransitionTaxRule(e)
          \/ GetSupplier(e) \/ UpdateSupplier(e) \/ DeleteSupplier(e)
          \/ GetRequisition(e) \/ UpdateRequisition(e)
          \/ CheckTransition(e) \/ MoveRequisition(e)
          \/ CheckPeriod(e) \/ InsertItem(e) \/ CommitItem(e)
    \/ Resolve

RecordsSpec == RecordsInit /\ [][RecordsNext]_recordsVars

------------------------------------------------------------------------------
(* Properties.                                                             *)

\* The editor's request changes the record in this step.
Saves(e) ==
    /\ editor[e].at \in {"open", "moving"} /\ editor'[e].at = "idle"
    /\ record' # record

\* Nobody's change is lost: a request that states a version changes a record
\* that is as its author read it, its status, its fields and the sections of a
\* customer, although the sections are read after the row and the status of a
\* requisition is checked before the UPDATE, both in other statements.
SavesOverWhatWasRead ==
    [][\A e \in Editors :
          Saves(e) /\ (kind = "customer" => e \in Careful) => editor[e].read = record]_recordsVars

\* What a quotation was given for a day is what every later quotation of that
\* day is given for as long as the list or the rule is published: no second
\* price of the day and no edit of published terms comes in between, however
\* late a price is committed.
QuotedAnswerStands ==
    quoted # None /\ record.status = "PUBLISHED" => Answers(quoted.day) = {quoted.answer}
==============================================================================
