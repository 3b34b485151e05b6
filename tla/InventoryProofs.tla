-------------------------- MODULE InventoryProofs ---------------------------
(***************************************************************************)
(* Theorems about Inventory, for any warehouses, items, sources, branches, *)
(* operation keys and quantities, and about CommercialRecords, for any     *)
(* editors, contents of a record, days and versions.  The two components   *)
(* share no variable.                                                      *)
(***************************************************************************)
EXTENDS Inventory, CommercialRecords, InventoryOpsProofs

\* What every operation preserves.  No part is inductive by itself: a release keeps
\* reserved from going negative only because the counter covers the reservation.
IInv == Sound(Database) /\ reg \in Registry

\* The named properties are the parts of the invariant.
LEMMA InvariantParts ==
    IInv => TypeOK /\ CountersMatchLedger /\ NeverOversold /\ OneIssuePerReservation
<1> SUFFICES ASSUME IInv
             PROVE  TypeOK /\ CountersMatchLedger /\ NeverOversold /\ OneIssuePerReservation
  OBVIOUS
<1>1. Typed(Database) /\ Counted(Database) /\ Covered(Database)
      /\ IssuedOnce(Database.res, Database.mov) /\ reg \in Registry
  BY DEF IInv, Sound
<1>2. Database.stock = stock /\ Database.res = res /\ Database.mov = mov
  BY DEF Database
<1>3. TypeOK
  BY <1>1, <1>2 DEF Typed, TypeOK
<1>4. CountersMatchLedger
  BY <1>1, <1>2 DEF Counted, CountersMatchLedger
<1>5. NeverOversold
  BY <1>1, <1>2, <1>3 DEF Covered, NeverOversold, TypeOK, StockRow
<1>6. OneIssuePerReservation
  BY <1>1, <1>2 DEF OneIssuePerReservation
<1>7. QED
  BY <1>3, <1>4, <1>5, <1>6

\* Before anything is received all tables are empty.
LEMMA InitSound == Init => IInv
<1>1. Init => Sound(Database)
  BY EmptySound DEF Init, Database
<1>2. Init => reg \in Registry
  BY DEF Init, Registry
<1>3. QED
  BY <1>1, <1>2 DEF IInv

\* Committing a sound continuation of the database.
LEMMA CommitSound ==
    ASSUME reg \in Registry, NEW d, Sound(d), Extends(Database, d), Commit(d)
    PROVE  IInv' /\ Extends(Database, Database')
<1>1. /\ Database'.stock = d.stock /\ Database'.res = d.res /\ Database'.mov = d.mov
      /\ reg' = reg
  BY DEF Commit, Database
<1>2. Sound(Database')
  BY <1>1, SoundTables
<1>3. Extends(Database, Database')
  BY <1>1 DEF Extends
<1>4. QED
  BY <1>1, <1>2, <1>3 DEF IInv

\* Master data changes leave the stock tables alone.
LEMMA MasterDataSteps ==
    ASSUME IInv, MasterData
    PROVE  IInv' /\ Database' = Database
<1>1. UNCHANGED <<stock, res, mov>>
  BY DEF MasterData, CreateWarehouse, UpdateWarehouse, CreateItem, UpdateItem, DeleteItem
<1>2. Database' = Database
  BY <1>1 DEF Database
<1>3. reg \in Registry
  BY DEF IInv
<1>4. reg' \in Registry
  BY <1>3 DEF MasterData, CreateWarehouse, UpdateWarehouse, CreateItem, UpdateItem,
     DeleteItem, Registry
<1>5. QED
  BY <1>2, <1>4 DEF IInv

\* Every step preserves the invariant and continues the history.
LEMMA NextSound ==
    ASSUME IInv, [Next]_vars
    PROVE  IInv' /\ Extends(Database, Database')
<1>1. Sound(Database) /\ reg \in Registry
  BY DEF IInv
<1>2. ASSUME NEW in \in AddRequest, Receive(in) PROVE IInv' /\ Extends(Database, Database')
  BY <1>1, <1>2, AddSteps, CommitSound DEF Receive
<1>3. ASSUME NEW in \in AddRequest, Return(in) PROVE IInv' /\ Extends(Database, Database')
  BY <1>1, <1>3, AddSteps, CommitSound DEF Return
<1>4. ASSUME NEW in \in ReserveRequest, Reserve(in)
      PROVE  IInv' /\ Extends(Database, Database')
  BY <1>1, <1>4, ReserveSteps, CommitSound DEF Reserve
<1>5. ASSUME NEW r \in ResKey, NEW b \in Branches, Release(r, b)
      PROVE  IInv' /\ Extends(Database, Database')
  BY <1>1, <1>5, ReleaseSteps, CommitSound DEF Release
<1>6. ASSUME NEW r \in ResKey, NEW b \in Branches, NEW k \in OpKeys, Fulfill(r, b, k)
      PROVE  IInv' /\ Extends(Database, Database')
  BY <1>1, <1>6, FulfillSteps, CommitSound DEF Fulfill
<1>7. CASE MasterData
  BY <1>7, MasterDataSteps, ExtendsItself
<1>8. CASE UNCHANGED vars
  <2>1. Database' = Database /\ reg' = reg
    BY <1>8 DEF vars, Database
  <2>2. QED
    BY <1>1, <2>1, ExtendsItself DEF IInv
<1>9. QED
  BY <1>2, <1>3, <1>4, <1>5, <1>6, <1>7, <1>8 DEF Next

\* The inventory tables are always sound.
THEOREM Invariance == Spec => []IInv
<1>1. IInv /\ [Next]_vars => IInv'
  BY NextSound
<1>2. QED
  BY <1>1, InitSound, PTL DEF Spec

\* Every row holds values of its columns; in particular no stock counter ever goes
\* negative, so the CHECK constraints of inventory_stock never fire.
THEOREM TypeCorrect == Spec => []TypeOK
  BY Invariance, InvariantParts, PTL

\* However many operations are called, in whatever order and however often repeated,
\* the counters of a stock row equal what its reservations and movements add up to.
THEOREM CountersExact == Spec => []CountersMatchLedger
  BY Invariance, InvariantParts, PTL

\* Reserved stock never exceeds physical stock (ADR-0034), so nothing is promised twice.
THEOREM NoOverselling == Spec => []NeverOversold
  BY Invariance, InvariantParts, PTL

\* A reservation is issued by at most one movement and is FULFILLED exactly then,
\* however often fulfilment is retried and under whatever keys.
THEOREM IssuedAtMostOnce == Spec => []OneIssuePerReservation
  BY Invariance, InvariantParts, PTL

\* The ledger's rows and totals, under the names they have here.
LEMMA SameRows ==
    /\ Ledger!ResKey = ResKey /\ Ledger!ReservationRow = ReservationRow
    /\ Ledger!MovementRow = MovementRow
    /\ \A a, b : Ledger!ReservationStep(a, b) <=> ReservationStep(a, b)
    /\ \A a, b : Ledger!MovementStep(a, b) <=> MovementStep(a, b)
    /\ Ledger!Solvent(res', mov') <=> Solvent(res', mov')
    /\ Ledger!IssuedOnce(res', mov') <=> IssuedOnce(res', mov')
<1>1. Ledger!ResKey = ResKey /\ Ledger!StockKey = StockKey /\ Ledger!Qty = Qty
  BY DEF ResKey, Ledger!ResKey, StockKey, Ledger!StockKey, Qty, Ledger!Qty
<1>2. Ledger!ReservationRow = ReservationRow
  BY <1>1 DEF ReservationRow, Ledger!ReservationRow, Reservation, Ledger!Reservation
<1>3. Ledger!MovementRow = MovementRow
  BY <1>1 DEF MovementRow, Ledger!MovementRow, Movement, Ledger!Movement
<1>4. \A a, b : Ledger!ReservationStep(a, b) <=> ReservationStep(a, b)
  BY DEF ReservationStep, Ledger!ReservationStep
<1>5. \A a, b : Ledger!MovementStep(a, b) <=> MovementStep(a, b)
  BY DEF MovementStep, Ledger!MovementStep
<1>0. \A S : Ledger!Cardinality(S) = Cardinality(S)
  BY DEF Ledger!Cardinality, Cardinality, Ledger!IsFiniteSet, IsFiniteSet
<1>6. \A s : Ledger!Held(res', s) = Held(res', s)
  <2>1. \A s : Ledger!HeldUnits(res', s) = HeldUnits(res', s)
    BY <1>1 DEF HeldUnits, Ledger!HeldUnits
  <2>2. QED
    BY <1>0, <2>1 DEF Held, Ledger!Held
<1>7. \A s : Ledger!Issued(mov', s) = Issued(mov', s) /\ Ledger!Incoming(mov', s) = Incoming(mov', s)
  <2>1. \A s, types : Ledger!MovedUnits(mov', s, types) = MovedUnits(mov', s, types)
    BY <1>1 DEF MovedUnits, Ledger!MovedUnits
  <2>2. QED
    BY <1>0, <2>1 DEF Issued, Ledger!Issued, Incoming, Ledger!Incoming
<1>8. Ledger!Solvent(res', mov') <=> Solvent(res', mov')
  BY <1>1, <1>6, <1>7 DEF Solvent, Ledger!Solvent
<1>9. Ledger!IssuedOnce(res', mov') <=> IssuedOnce(res', mov')
  BY <1>1 DEF IssuedOnce, Ledger!IssuedOnce, IsIssueOf, Ledger!IsIssueOf
<1>10. QED
  BY <1>1, <1>2, <1>3, <1>4, <1>5, <1>8, <1>9

\* Inventory implements the ledger: the counters and the master data are a correct
\* implementation of an append-only history that never promises stock twice.
THEOREM LedgerRefinement == Spec => ImplementsLedger
<1>1. Init => Ledger!LedgerInit
  BY SameRows DEF Init, Ledger!LedgerInit
<1>2. IInv /\ IInv' /\ [Next]_vars => [Ledger!Post]_(Ledger!ledgerVars)
  <2> SUFFICES ASSUME IInv, IInv', [Next]_vars PROVE Ledger!Post
    OBVIOUS
  <2>1. Extends(Database, Database')
    BY NextSound
  <2>2. \A r \in ResKey : ReservationStep(res[r], res'[r])
    BY <2>1 DEF Extends, Database
  <2>3. \A k \in OpKeys : MovementStep(mov[k], mov'[k])
    BY <2>1 DEF Extends, Database
  <2>4. res' \in [ResKey -> ReservationRow] /\ mov' \in [OpKeys -> MovementRow]
        /\ IssuedOnce(res', mov')
    BY DEF IInv, Sound, Typed, Database
  <2>5. Solvent(res', mov')
    <3>1. Sound(Database') /\ Database'.res = res' /\ Database'.mov = mov'
      BY DEF IInv, Database
    <3>2. QED
      BY <3>1, SoundIsSolvent
  <2>6. QED
    BY <2>2, <2>3, <2>4, <2>5, SameRows DEF Ledger!Post
<1>3. QED
  BY <1>1, <1>2, Invariance, PTL DEF Spec, ImplementsLedger, Ledger!LedgerSpec

------------------------------------------------------------------------------
(* CommercialRecords.                                                      *)

\* Who has a copy of the record has it of a record there is.
Located ==
    \A e \in Editors :
        /\ editor[e].at \in {"row", "open", "moving"} => record.status # "none"
        /\ editor[e].at = "row" => kind = "customer"
        /\ editor[e].at = "moving" =>
              kind = "requisition" /\ editor[e].to \in {"SUBMITTED", "CANCELLED"}
        /\ editor[e].at \in {"checked", "inserted"} =>
              kind = "priceList" /\ editor[e].period \in Periods

\* A copy is never newer than the record, and one of the record's version is
\* the record, but for the sections that are not read yet.
CopySound(e) ==
    LET copy == editor[e].read
    IN  /\ copy.version <= record.version
        /\ copy.version = record.version =>
              copy = IF editor[e].at = "row" THEN [record EXCEPT !.details = None] ELSE record
CopiesSound == \A e \in Editors : editor[e].at \in {"row", "open", "moving"} => CopySound(e)

\* No two periods of the list overlap, nor does the one that is being added,
\* of which there is one at most.
PeriodsApart ==
    /\ \A p, q \in items : p # q => ~Overlap(p, q)
    /\ \A e \in Editors : editor[e].at \in {"checked", "inserted"} =>
          \A q \in items : ~Overlap(editor[e].period, q)
    /\ \A e, f \in Editors :
          /\ editor[e].at \in {"checked", "inserted"} /\ editor[f].at \in {"checked", "inserted"}
          => e = f

\* What was quoted is still there, and what it was quoted from never a draft again.
QuotedSound ==
    quoted # None =>
        /\ kind \in {"priceList", "discountRule"}
        /\ record.status \in {"PUBLISHED", "ARCHIVED"}
        /\ kind = "priceList" =>
              /\ quoted.answer \in items
              /\ quoted.answer.from <= quoted.day /\ quoted.day <= quoted.answer.to
        /\ kind = "discountRule" => quoted.answer = record.terms

RecordsInv == RecordsTypeOK /\ Located /\ CopiesSound /\ PeriodsApart /\ QuotedSound

\* What a step promises to those who state a version.
Watched ==
    \A e \in Editors :
        Saves(e) /\ (kind = "customer" => e \in Careful) => editor[e].read = record

------------------------------------------------------------------------------
\* An editor moves and the others stay.
LEMMA EditorMoves ==
    ASSUME RecordsTypeOK, NEW e \in Editors, NEW x \in Editor, x.at = "idle" => x = Idle,
           editor' = [editor EXCEPT ![e] = x]
    PROVE  /\ editor' \in [Editors -> Editor] /\ editor'[e] = x
           /\ \A f \in Editors : f # e => editor'[f] = editor[f]
           /\ \A f \in Editors : editor'[f].at = "idle" => editor'[f] = Idle
  BY DEF RecordsTypeOK

\* What nobody has read, and the record there is not yet, are of their types.
LEMMA IdleEditor ==
    ASSUME RecordsAssumption
    PROVE  Idle \in Editor /\ Idle.at = "idle" /\ NoRecord \in Record
  BY DEF RecordsAssumption, Idle, Editor, NoRecord, Record, Statuses

\* A version more, and the other fields as they are given.
LEMMA BumpFields ==
    ASSUME RecordsAssumption, NEW x \in Record, x.version < MaxVersion
    PROVE  /\ Bump(x) \in Record /\ Bump(x).version = x.version + 1
           /\ Bump(x).status = x.status /\ Bump(x).terms = x.terms /\ Bump(x).details = x.details
  BY DEF RecordsAssumption, Bump, Record

\* Where neither the record nor the items nor what was quoted changes, and
\* nobody closes an editor that was open, only what concerns the editor that
\* moved is left to show.
LEMMA EditorOnly ==
    ASSUME RecordsInv, NEW e \in Editors, NEW x \in Editor, x.at = "idle" => x = Idle,
           editor' = [editor EXCEPT ![e] = x], UNCHANGED <<kind, record, items, quoted>>,
           /\ x.at \in {"row", "open", "moving"} => record.status # "none"
           /\ x.at = "row" => kind = "customer"
           /\ x.at = "moving" => kind = "requisition" /\ x.to \in {"SUBMITTED", "CANCELLED"}
           /\ x.at \in {"checked", "inserted"} =>
                 /\ kind = "priceList" /\ x.period \in Periods
                 /\ \A q \in items : ~Overlap(x.period, q)
                 /\ \A f \in Editors \ {e} : editor[f].at \notin {"checked", "inserted"},
           x.at \in {"row", "open", "moving"} =>
              /\ x.read.version <= record.version
              /\ x.read.version = record.version =>
                    x.read = IF x.at = "row" THEN [record EXCEPT !.details = None] ELSE record
    PROVE  RecordsInv' /\ Watched
<1>1. RecordsTypeOK /\ Located /\ CopiesSound /\ PeriodsApart /\ QuotedSound
  BY DEF RecordsInv
<1>2. /\ editor' \in [Editors -> Editor] /\ editor'[e] = x
      /\ \A f \in Editors : f # e => editor'[f] = editor[f]
      /\ \A f \in Editors : editor'[f].at = "idle" => editor'[f] = Idle
  BY <1>1, EditorMoves
<1>3. RecordsTypeOK'
  BY <1>1, <1>2 DEF RecordsTypeOK
<1>4. Located'
  BY <1>1, <1>2 DEF Located
<1>5. CopiesSound'
  BY <1>1, <1>2 DEF CopiesSound, CopySound
<1>6. PeriodsApart'
  <2>1. \A p, q \in items' : p # q => ~Overlap(p, q)
    BY <1>1 DEF PeriodsApart
  <2>2. \A f \in Editors : editor'[f].at \in {"checked", "inserted"} =>
           \A q \in items : ~Overlap(editor'[f].period, q)
    BY <1>1, <1>2 DEF PeriodsApart
  <2>3. \A f, g \in Editors :
           /\ editor'[f].at \in {"checked", "inserted"}
           /\ editor'[g].at \in {"checked", "inserted"}
           => f = g
    BY <1>1, <1>2 DEF PeriodsApart
  <2>4. QED
    BY <2>1, <2>2, <2>3 DEF PeriodsApart
<1>7. QuotedSound'
  BY <1>1 DEF QuotedSound
<1>8. Watched
  BY DEF Watched, Saves
<1>9. QED
  BY <1>3, <1>4, <1>5, <1>6, <1>7, <1>8 DEF RecordsInv

\* A record that changes gets a new version, so that every copy of it is old.
LEMMA SaveSteps ==
    ASSUME RecordsAssumption, RecordsInv, NEW e \in Editors,
           editor[e].at \in {"open", "moving"}, editor' = [editor EXCEPT ![e] = Idle],
           UNCHANGED <<kind, items, quoted>>, record' \in Record,
           /\ record'.status # "none" /\ record'.terms # None
           /\ record'.details = None <=> kind # "customer",
           \/ record' = record
           \/ /\ record'.version = record.version + 1
              /\ (kind = "customer" => e \in Careful) => editor[e].read.version = record.version,
           kind \in {"priceList", "discountRule"} =>
              /\ record.status \in {"PUBLISHED", "ARCHIVED"}
                    => record'.status \in {"PUBLISHED", "ARCHIVED"}
              /\ kind = "discountRule" /\ record.status \in {"PUBLISHED", "ARCHIVED"}
                    => record'.terms = record.terms
    PROVE  RecordsInv' /\ Watched
<1>1. RecordsTypeOK /\ Located /\ CopiesSound /\ PeriodsApart /\ QuotedSound
  BY DEF RecordsInv
<1>2. Idle \in Editor /\ Idle.at = "idle"
  BY IdleEditor
<1>3. /\ editor' \in [Editors -> Editor] /\ editor'[e] = Idle
      /\ \A f \in Editors : f # e => editor'[f] = editor[f]
      /\ \A f \in Editors : editor'[f].at = "idle" => editor'[f] = Idle
  BY <1>1, <1>2, EditorMoves
<1>4. RecordsTypeOK'
  BY <1>1, <1>3 DEF RecordsTypeOK
<1>5. Located'
  BY <1>1, <1>2, <1>3 DEF Located
<1>6. CopiesSound'
  <2>1. record.version \in Nat /\ record'.version \in Nat
    BY <1>1 DEF RecordsTypeOK, Record, RecordsAssumption
  <2>2. SUFFICES ASSUME NEW f \in Editors, editor'[f].at \in {"row", "open", "moving"}
                 PROVE  CopySound(f)'
    BY DEF CopiesSound
  <2>3. f # e /\ editor'[f] = editor[f] /\ CopySound(f)
    BY <1>1, <1>2, <1>3, <2>2 DEF CopiesSound
  <2>4. editor[f].read.version \in Nat
    BY <1>1 DEF RecordsTypeOK, Editor, Record, RecordsAssumption
  <2>5. QED
    BY <2>1, <2>3, <2>4 DEF CopySound
<1>7. PeriodsApart'
  <2>1. \A p, q \in items' : p # q => ~Overlap(p, q)
    BY <1>1 DEF PeriodsApart
  <2>2. \A f \in Editors : editor'[f].at \in {"checked", "inserted"} =>
           \A q \in items : ~Overlap(editor'[f].period, q)
    BY <1>1, <1>2, <1>3 DEF PeriodsApart
  <2>3. \A f, g \in Editors :
           /\ editor'[f].at \in {"checked", "inserted"}
           /\ editor'[g].at \in {"checked", "inserted"}
           => f = g
    BY <1>1, <1>2, <1>3 DEF PeriodsApart
  <2>4. QED
    BY <2>1, <2>2, <2>3 DEF PeriodsApart
<1>8. QuotedSound'
  BY <1>1 DEF QuotedSound
<1>9. Watched
  <2>1. SUFFICES ASSUME NEW f \in Editors, Saves(f), kind = "customer" => f \in Careful
                 PROVE  editor[f].read = record
    BY DEF Watched
  <2>2. f = e /\ record' # record
    BY <1>3, <2>1 DEF Saves
  <2>3. editor[e].read.version = record.version /\ CopySound(e)
    BY <1>1, <2>1, <2>2 DEF CopiesSound
  <2>4. QED
    BY <2>2, <2>3 DEF CopySound
<1>10. QED
  BY <1>4, <1>5, <1>6, <1>7, <1>8, <1>9 DEF RecordsInv

------------------------------------------------------------------------------
\* A record is created.
LEMMA CreationKeeps ==
    ASSUME RecordsAssumption, RecordsInv,
           \/ CreateCustomer \/ CreatePriceList \/ CreateDiscountRule \/ CreateTaxRule
           \/ CreateSupplier \/ CreateRequisition
    PROVE  RecordsInv' /\ Watched
<1>1. RecordsTypeOK /\ Located /\ CopiesSound /\ PeriodsApart /\ QuotedSound
  BY DEF RecordsInv
<1>2. /\ record.status = "none" /\ UNCHANGED <<kind, items, editor, quoted>>
      /\ record' \in Record /\ record'.status # "none" /\ record'.terms # None
      /\ record'.details = None <=> kind # "customer"
  <2>1. MaxVersion \in Nat /\ 1 \in 0 .. MaxVersion
    BY DEF RecordsAssumption
  <2>2. ASSUME NEW t \in Terms, NEW status \in {"live", "DRAFT", "INACTIVE"},
               kind # "customer", record.status = "none",
               UNCHANGED <<kind, items, editor, quoted>>,
               record' = [status |-> status, version |-> 1, terms |-> t, details |-> None]
        PROVE  /\ record' \in Record /\ record'.status # "none" /\ record'.terms # None
               /\ record'.details = None <=> kind # "customer"
    <3>1. t # None
      BY DEF RecordsAssumption
    <3>2. QED
      BY <2>1, <2>2, <3>1 DEF Record, Statuses
  <2>3. CASE CreateCustomer
    <3>1. PICK t \in Terms, d \in SectionInputs :
            LET input == NormalizeCustomerInput(t, d)
            IN  InsertCustomer(input.terms, IF input.details = None THEN Blank ELSE input.details)
      BY <2>3 DEF CreateCustomer
    <3> DEFINE x == NormalizeSection(d)
               details == IF x = None THEN Blank ELSE x
    <3>2. record' = [status |-> "live", version |-> 1, terms |-> t, details |-> details]
      BY <3>1 DEF NormalizeCustomerInput, NormalizeField, InsertCustomer, RecordsAssumption
    <3>3. details \in Details \cup {Blank} /\ details # None /\ t # None
      BY DEF NormalizeSection, SectionInputs, RecordsAssumption
    <3>4. record' \in Record /\ record'.status # "none" /\ record'.terms # None /\ record'.details # None
      <4> HIDE DEF details
      <4>1. QED
        BY <2>1, <3>2, <3>3 DEF Record, Statuses
    <3>5. QED
      BY <2>3, <3>4 DEF CreateCustomer
  <2>4. CASE CreatePriceList
    BY <2>2, <2>4 DEF CreatePriceList, InsertPriceList
  <2>5. CASE CreateDiscountRule
    BY <2>2, <2>5 DEF CreateDiscountRule, InsertDiscountRule
  <2>6. CASE CreateTaxRule
    BY <2>2, <2>6 DEF CreateTaxRule, InsertTaxRule
  <2>7. CASE CreateSupplier
    BY <2>2, <2>7 DEF CreateSupplier, InsertSupplier
  <2>8. CASE CreateRequisition
    BY <2>2, <2>8 DEF CreateRequisition, InsertRequisition
  <2>9. QED
    BY <2>3, <2>4, <2>5, <2>6, <2>7, <2>8
<1>3. quoted = None /\ \A e \in Editors : editor[e].at \notin {"row", "open", "moving"}
  BY <1>1, <1>2 DEF QuotedSound, Located
<1>4. RecordsTypeOK'
  BY <1>1, <1>2 DEF RecordsTypeOK
<1>5. Located' /\ CopiesSound' /\ PeriodsApart' /\ QuotedSound'
  BY <1>1, <1>2, <1>3 DEF Located, CopiesSound, PeriodsApart, QuotedSound
<1>6. Watched
  BY <1>2 DEF Watched, Saves
<1>7. QED
  BY <1>4, <1>5, <1>6 DEF RecordsInv

------------------------------------------------------------------------------
\* A read of the row makes a copy without the sections, which of every other
\* kind of record are none.
LEMMA CopyFields ==
    ASSUME RecordsAssumption, RecordsTypeOK, record.status # "none",
           NEW place \in {"row", "open"}, kind # "customer" \/ place = "row"
    PROVE  /\ Copy(place) \in Editor /\ Copy(place).at = place
           /\ Copy(place).read.version <= record.version
           /\ Copy(place).read = IF place = "row" THEN [record EXCEPT !.details = None] ELSE record
<1> DEFINE copy == [record EXCEPT !.details = None]
<1>1. record \in Record /\ (kind # "customer" => record.details = None)
  BY DEF RecordsTypeOK
<1>2. copy \in Record /\ copy.version = record.version
  BY <1>1 DEF Record
<1>3. kind # "customer" => copy = record
  BY <1>1 DEF Record
<1>4. record.version <= record.version
  BY <1>1 DEF Record, RecordsAssumption
<1> HIDE DEF copy
<1>5. Copy(place) = [at |-> place, read |-> copy, to |-> None, period |-> None]
  BY DEF Copy, copy
<1>6. Copy(place) \in Editor /\ Copy(place).at = place /\ Copy(place).read = copy
  BY <1>2, <1>5 DEF Editor
<1>7. QED
  BY <1>2, <1>3, <1>4, <1>6 DEF copy

\* A client reads the record.
LEMMA ReadKeeps ==
    ASSUME RecordsAssumption, RecordsInv, NEW e \in Editors,
           \/ GetCustomer(e) \/ GetDetails(e) \/ GetPriceList(e) \/ ListDiscountRules(e)
           \/ ListTaxRules(e) \/ GetSupplier(e) \/ GetRequisition(e)
    PROVE  RecordsInv' /\ Watched
<1>1. RecordsTypeOK /\ Located /\ CopiesSound /\ editor[e] \in Editor /\ record \in Record
  BY DEF RecordsInv, RecordsTypeOK
<1>2. CASE GetDetails(e)
  <2> DEFINE x == [editor[e] EXCEPT !.at = "open", !.read.details = record.details]
             old == editor[e].read
  <2>1. /\ kind = "customer" /\ editor[e].at = "row" /\ editor' = [editor EXCEPT ![e] = x]
        /\ UNCHANGED <<kind, record, items, quoted>>
    <3>1. editor' = [editor EXCEPT ![e].at = "open", ![e].read.details = record.details]
      BY <1>2 DEF GetDetails, LoadDetailRecords
    <3>2. editor \in [Editors -> Editor]
      BY <1>1 DEF RecordsTypeOK
    <3>3. QED
      BY <1>2, <3>1, <3>2 DEF GetDetails
  <2>2. old \in Record
    BY <1>1 DEF Editor
  <2>3. /\ x \in Editor /\ x.at = "open" /\ x.read = [old EXCEPT !.details = record.details]
        /\ x.read.version = old.version
    <3>1. [old EXCEPT !.details = record.details] \in Record
      BY <1>1, <2>2 DEF Record
    <3>2. QED
      BY <1>1, <2>2, <3>1 DEF Editor, Record
  <2>4. record.status # "none" /\ CopySound(e)
    BY <1>1, <2>1 DEF Located, CopiesSound
  <2>5. /\ x.read.version <= record.version
        /\ x.read.version = record.version => x.read = record
    <3>1. old.version <= record.version
          /\ (old.version = record.version => old = [record EXCEPT !.details = None])
      BY <2>1, <2>4 DEF CopySound
    <3>2. [[record EXCEPT !.details = None] EXCEPT !.details = record.details] = record
      BY <1>1 DEF Record
    <3> HIDE DEF x, old
    <3>3. QED
      BY <2>3, <3>1, <3>2
  <2> HIDE DEF x
  <2>6. QED
    BY <2>1, <2>3, <2>4, <2>5, EditorOnly
<1>3. ASSUME NEW place \in {"row", "open"}, kind = "customer" <=> place = "row",
             record.status # "none", editor' = [editor EXCEPT ![e] = Copy(place)],
             UNCHANGED <<kind, record, items, quoted>>
      PROVE  RecordsInv' /\ Watched
  <2>1. /\ Copy(place) \in Editor /\ Copy(place).at = place
        /\ Copy(place).read.version <= record.version
        /\ Copy(place).read = IF place = "row" THEN [record EXCEPT !.details = None] ELSE record
    BY <1>1, <1>3, CopyFields
  <2>2. QED
    BY <1>3, <2>1, EditorOnly
<1>4. CASE GetCustomer(e)
  BY <1>3, <1>4 DEF GetCustomer, LoadFullCustomer
<1>5. CASE GetPriceList(e)
  BY <1>3, <1>5 DEF GetPriceList
<1>6. CASE ListDiscountRules(e)
  BY <1>3, <1>6 DEF ListDiscountRules
<1>7. CASE ListTaxRules(e)
  BY <1>3, <1>7 DEF ListTaxRules
<1>8. CASE GetSupplier(e)
  BY <1>3, <1>8 DEF GetSupplier
<1>9. CASE GetRequisition(e)
  BY <1>3, <1>9 DEF GetRequisition
<1>10. QED
  BY <1>2, <1>4, <1>5, <1>6, <1>7, <1>8, <1>9

------------------------------------------------------------------------------
\* A customer is edited or deleted.
LEMMA CustomerKeeps ==
    ASSUME RecordsAssumption, RecordsInv, NEW e \in Editors,
           UpdateCustomer(e) \/ SoftDeleteCustomer(e)
    PROVE  RecordsInv' /\ Watched
<1>1. /\ RecordsTypeOK /\ record \in Record /\ kind = "customer" /\ editor[e].at = "open"
      /\ record.version < MaxVersion /\ editor' = [editor EXCEPT ![e] = Idle]
      /\ UNCHANGED <<kind, items, quoted>>
  BY DEF RecordsInv, RecordsTypeOK, UpdateCustomer, SoftDeleteCustomer, Room, Close
<1>2. record.status # "none" /\ record.terms # None /\ record.details # None
  BY <1>1 DEF RecordsInv, Located, RecordsTypeOK
<1>3. VersionMatches(e) => (e \in Careful => editor[e].read.version = record.version)
  BY DEF VersionMatches
<1>4. CASE UNCHANGED record
  BY <1>1, <1>2, <1>4, SaveSteps
<1>5. CASE VersionMatches(e) /\ record' = Bump([record EXCEPT !.status = "deleted"])
  <2> DEFINE x == [record EXCEPT !.status = "deleted"]
  <2>1. /\ x \in Record /\ x.version = record.version /\ x.status = "deleted"
        /\ x.terms = record.terms /\ x.details = record.details
    BY <1>1 DEF Record, Statuses
  <2>2. record' = Bump(x)
    BY <1>5
  <2> HIDE DEF x
  <2>3. /\ record' \in Record /\ record'.version = record.version + 1
        /\ record'.status = "deleted" /\ record'.terms = record.terms
        /\ record'.details = record.details
    BY <1>1, <2>1, <2>2, BumpFields
  <2>4. QED
    BY <1>1, <1>2, <1>3, <1>5, <2>3, SaveSteps
<1>6. ASSUME NEW t \in FieldInputs, NEW d \in SectionInputs, record.status = "live",
             VersionMatches(e), SaveCustomer(NormalizeCustomerInput(t, d))
      PROVE  RecordsInv' /\ Watched
  <2> DEFINE terms == NormalizeField(t)
             details == NormalizeSection(d)
             change == NormalizeCustomerInput(t, d)
  <2>1. terms \in Terms \cup {Blank, None} /\ details \in Details \cup {Blank, None}
    BY DEF NormalizeField, NormalizeSection, FieldInputs, SectionInputs
  <2>2. change.terms = terms /\ change.details = details
    BY DEF NormalizeCustomerInput
  <2> HIDE DEF terms, details, change
  <2>3. record' = [status |-> record.status,
                   version |-> record.version + (IF Touches(change) THEN 1 ELSE 0),
                   terms |-> FieldUpdate(change), details |-> UpsertChildData(change)]
    BY <1>6 DEF SaveCustomer, change
  <2>4. FieldUpdate(change) \in Terms \cup {Blank, None} /\ FieldUpdate(change) # None
    BY <1>1, <1>2, <2>1, <2>2 DEF FieldUpdate, Record
  <2>5. UpsertChildData(change) \in Details \cup {Blank, None} /\ UpsertChildData(change) # None
    BY <1>1, <1>2, <2>1, <2>2 DEF UpsertChildData, Record
  <2>6. CASE Touches(change)
    <3>1. record.version + 1 \in 0 .. MaxVersion
      BY <1>1 DEF Record, RecordsAssumption
    <3>2. /\ record' \in Record /\ record'.version = record.version + 1
          /\ record'.status = record.status /\ record'.terms # None /\ record'.details # None
      BY <1>1, <2>3, <2>4, <2>5, <2>6, <3>1 DEF Record
    <3>3. QED
      BY <1>1, <1>2, <1>3, <1>6, <3>2, SaveSteps
  <2>7. CASE ~Touches(change)
    <3>1. FieldUpdate(change) = record.terms /\ UpsertChildData(change) = record.details
      BY <2>7 DEF Touches, FieldUpdate, UpsertChildData
    <3>2. record.version + 0 = record.version
      BY <1>1 DEF Record, RecordsAssumption
    <3>3. record' = record
      BY <1>1, <2>3, <2>7, <3>1, <3>2 DEF Record
    <3>4. QED
      BY <1>4, <3>3
  <2>8. QED
    BY <2>6, <2>7
<1>7. CASE UpdateCustomer(e)
  BY <1>4, <1>6, <1>7 DEF UpdateCustomer
<1>8. CASE SoftDeleteCustomer(e)
  BY <1>4, <1>5, <1>8 DEF SoftDeleteCustomer, MarkDeleted
<1>9. QED
  BY <1>7, <1>8

------------------------------------------------------------------------------
\* The version is mandatory: the row is changed as its author read it.
LEMMA RowKeeps ==
    ASSUME RecordsAssumption, RecordsInv, NEW e \in Editors,
           editor[e].at \in {"open", "moving"}, Room, Close(e), kind # "customer",
           UNCHANGED <<kind, items, quoted>>,
           \/ UNCHANGED record
           \/ /\ SameVersion(e)
              /\ \E t \in Terms : record' = Bump([record EXCEPT !.terms = t])
              /\ kind = "discountRule" => record.status = "DRAFT"
           \/ /\ SameVersion(e)
              /\ \E s \in Statuses \ {"none"} :
                    /\ record' = Bump([record EXCEPT !.status = s])
                    /\ kind \in {"priceList", "discountRule"} => <<record.status, s>> \in Moves
    PROVE  RecordsInv' /\ Watched
<1>1. /\ RecordsTypeOK /\ record \in Record /\ record.version < MaxVersion
      /\ editor' = [editor EXCEPT ![e] = Idle]
  BY DEF RecordsInv, RecordsTypeOK, Room, Close
<1>2. record.status # "none" /\ record.terms # None /\ record.details = None
  BY <1>1 DEF RecordsInv, Located, RecordsTypeOK
<1>3. CASE UNCHANGED record
  BY <1>1, <1>2, <1>3, SaveSteps
<1>4. CASE /\ SameVersion(e)
           /\ \E t \in Terms : record' = Bump([record EXCEPT !.terms = t])
           /\ kind = "discountRule" => record.status = "DRAFT"
  <2>1. PICK t \in Terms : record' = Bump([record EXCEPT !.terms = t])
    BY <1>4
  <2> DEFINE x == [record EXCEPT !.terms = t]
  <2>2. /\ x \in Record /\ x.version = record.version /\ x.status = record.status
        /\ x.terms = t /\ x.details = record.details /\ t # None
    BY <1>1 DEF Record, RecordsAssumption
  <2>3. record' = Bump(x)
    BY <2>1
  <2> HIDE DEF x
  <2>4. /\ record' \in Record /\ record'.version = record.version + 1
        /\ record'.status = record.status /\ record'.terms = t
        /\ record'.details = record.details
    BY <1>1, <2>2, <2>3, BumpFields
  <2>5. QED
    BY <1>1, <1>2, <1>4, <2>2, <2>4, SaveSteps DEF SameVersion
<1>5. CASE /\ SameVersion(e)
           /\ \E s \in Statuses \ {"none"} :
                 /\ record' = Bump([record EXCEPT !.status = s])
                 /\ kind \in {"priceList", "discountRule"} => <<record.status, s>> \in Moves
  <2>1. PICK s \in Statuses \ {"none"} :
               /\ record' = Bump([record EXCEPT !.status = s])
               /\ kind \in {"priceList", "discountRule"} => <<record.status, s>> \in Moves
    BY <1>5
  <2> DEFINE x == [record EXCEPT !.status = s]
  <2>2. /\ x \in Record /\ x.version = record.version /\ x.status = s
        /\ x.terms = record.terms /\ x.details = record.details
    BY <1>1 DEF Record
  <2>3. record' = Bump(x)
    BY <2>1
  <2> HIDE DEF x
  <2>4. /\ record' \in Record /\ record'.version = record.version + 1
        /\ record'.status = s /\ record'.terms = record.terms
        /\ record'.details = record.details
    BY <1>1, <2>2, <2>3, BumpFields
  <2>5. kind \in {"priceList", "discountRule"} /\ record.status \in {"PUBLISHED", "ARCHIVED"}
           => s \in {"PUBLISHED", "ARCHIVED"}
    BY <2>1 DEF Moves
  <2>6. QED
    BY <1>1, <1>2, <1>5, <2>4, <2>5, SaveSteps DEF SameVersion
<1>6. QED
  BY <1>3, <1>4, <1>5

\* Price lists, discount rules, tax rules, suppliers and requisitions.
LEMMA EditKeeps ==
    ASSUME RecordsAssumption, RecordsInv, NEW e \in Editors,
           \/ UpdatePriceList(e) \/ TransitionPriceList(e)
           \/ UpdateDiscountRule(e) \/ TransitionDiscountRule(e)
           \/ UpdateTaxRule(e) \/ TransitionTaxRule(e)
           \/ UpdateSupplier(e) \/ DeleteSupplier(e) \/ UpdateRequisition(e)
           \/ MoveRequisition(e)
    PROVE  RecordsInv' /\ Watched
<1>1. CASE UpdatePriceList(e)
  BY <1>1, RowKeeps DEF UpdatePriceList, UpdatePriceListRow
<1>2. CASE TransitionPriceList(e)
  <2>1. {"PUBLISHED", "ARCHIVED"} \subseteq Statuses \ {"none"}
    BY DEF Statuses
  <2>2. QED
    BY <1>2, <2>1, RowKeeps DEF TransitionPriceList, TransitionPriceListRow
<1>3. CASE UpdateDiscountRule(e)
  BY <1>3, RowKeeps DEF UpdateDiscountRule, UpdateDiscountRow
<1>4. CASE TransitionDiscountRule(e)
  <2>1. {"PUBLISHED", "ARCHIVED"} \subseteq Statuses \ {"none"}
    BY DEF Statuses
  <2>2. QED
    BY <1>4, <2>1, RowKeeps DEF TransitionDiscountRule, TransitionDiscountRow
<1>5. CASE UpdateTaxRule(e)
  BY <1>5, RowKeeps DEF UpdateTaxRule, UpdateTaxRow
<1>6. CASE TransitionTaxRule(e)
  <2>1. {"ACTIVE", "INACTIVE"} \subseteq Statuses \ {"none"}
    BY DEF Statuses
  <2>2. QED
    BY <1>6, <2>1, RowKeeps DEF TransitionTaxRule, SetTaxStatus
<1>7. CASE UpdateSupplier(e)
  BY <1>7, RowKeeps DEF UpdateSupplier, UpdateProcurementRow
<1>8. CASE DeleteSupplier(e)
  <2>1. "deleted" \in Statuses \ {"none"}
    BY DEF Statuses
  <2>2. QED
    BY <1>8, <2>1, RowKeeps DEF DeleteSupplier, DeleteSupplierRow, MarkDeleted
<1>9. CASE UpdateRequisition(e)
  BY <1>9, RowKeeps DEF UpdateRequisition, UpdateProcurementRow
<1>10. CASE MoveRequisition(e)
  <2>1. kind = "requisition" /\ editor[e].to \in Statuses \ {"none"}
    BY <1>10 DEF MoveRequisition, RecordsInv, Located, Statuses
  <2>2. QED
    BY <1>10, <2>1, RowKeeps DEF MoveRequisition
<1>11. QED
  BY <1>1, <1>2, <1>3, <1>4, <1>5, <1>6, <1>7, <1>8, <1>9, <1>10

\* The status of a requisition allows the move.
LEMMA CheckTransitionKeeps ==
    ASSUME RecordsAssumption, RecordsInv, NEW e \in Editors, CheckTransition(e)
    PROVE  RecordsInv' /\ Watched
<1>1. /\ RecordsTypeOK /\ Located /\ CopiesSound /\ editor[e] \in Editor
      /\ kind = "requisition" /\ editor[e].at = "open"
      /\ UNCHANGED <<kind, record, items, quoted>>
  BY DEF RecordsInv, RecordsTypeOK, CheckTransition
<1>2. PICK s \in {"SUBMITTED", "CANCELLED"} :
        \/ editor' = [editor EXCEPT ![e].at = "moving", ![e].to = s]
        \/ editor' = [editor EXCEPT ![e] = Idle]
  BY DEF CheckTransition, Close
<1>3. CASE editor' = [editor EXCEPT ![e] = Idle]
  BY <1>1, <1>3, IdleEditor, EditorOnly
<1>4. CASE editor' = [editor EXCEPT ![e].at = "moving", ![e].to = s]
  <2> DEFINE x == [editor[e] EXCEPT !.at = "moving", !.to = s]
  <2>1. x \in Editor /\ x.at = "moving" /\ x.to = s /\ x.read = editor[e].read
    BY <1>1 DEF Editor, Statuses
  <2>2. editor' = [editor EXCEPT ![e] = x]
    BY <1>1, <1>4 DEF RecordsTypeOK
  <2>3. record.status # "none" /\ CopySound(e)
    BY <1>1 DEF Located, CopiesSound
  <2> HIDE DEF x
  <2>4. QED
    BY <1>1, <2>1, <2>2, <2>3, EditorOnly DEF CopySound
<1>5. QED
  BY <1>2, <1>3, <1>4

------------------------------------------------------------------------------
\* The prices of a list.
LEMMA PeriodKeeps ==
    ASSUME RecordsAssumption, RecordsInv, NEW e \in Editors,
           CheckPeriod(e) \/ InsertItem(e) \/ CommitItem(e)
    PROVE  RecordsInv' /\ Watched
<1>1. RecordsTypeOK /\ Located /\ CopiesSound /\ PeriodsApart /\ QuotedSound /\ editor[e] \in Editor
  BY DEF RecordsInv, RecordsTypeOK
<1>2. CASE CheckPeriod(e)
  <2>1. PICK p \in Periods :
          /\ \A q \in items : ~Overlap(p, q)
          /\ editor' = [editor EXCEPT ![e] = [Idle EXCEPT !.at = "checked", !.period = p]]
    BY <1>2 DEF CheckPeriod
  <2> DEFINE x == [Idle EXCEPT !.at = "checked", !.period = p]
  <2>2. x \in Editor /\ x.at = "checked" /\ x.period = p
    <3>1. Idle \in Editor
      BY IdleEditor
    <3>2. QED
      BY <3>1 DEF Editor
  <2>3. kind = "priceList" /\ UNCHANGED <<kind, record, items, quoted>>
        /\ \A f \in Editors \ {e} : editor[f].at \notin {"checked", "inserted"}
    BY <1>2 DEF CheckPeriod, KeyFree
  <2>4. editor' = [editor EXCEPT ![e] = x]
    BY <2>1
  <2> HIDE DEF x
  <2>5. QED
    BY <2>1, <2>2, <2>3, <2>4, EditorOnly
<1>3. CASE InsertItem(e)
  <2>1. editor[e].at = "checked" /\ UNCHANGED <<kind, record, items, quoted>>
    BY <1>3 DEF InsertItem
  <2>2. CASE editor' = [editor EXCEPT ![e] = Idle]
    BY <2>1, <2>2, IdleEditor, EditorOnly
  <2>3. CASE editor' = [editor EXCEPT ![e].at = "inserted"]
    <3> DEFINE x == [editor[e] EXCEPT !.at = "inserted"]
    <3>1. x \in Editor /\ x.at = "inserted" /\ x.period = editor[e].period
      BY <1>1 DEF Editor
    <3>2. editor' = [editor EXCEPT ![e] = x]
      BY <1>1, <2>3 DEF RecordsTypeOK
    <3>3. /\ kind = "priceList" /\ editor[e].period \in Periods
          /\ \A q \in items : ~Overlap(editor[e].period, q)
          /\ \A f \in Editors \ {e} : editor[f].at \notin {"checked", "inserted"}
      BY <1>1, <2>1 DEF Located, PeriodsApart
    <3> HIDE DEF x
    <3>4. QED
      BY <2>1, <3>1, <3>2, <3>3, EditorOnly
  <2>4. QED
    BY <1>3, <2>2, <2>3 DEF InsertItem, Close
<1>4. CASE CommitItem(e)
  <2> DEFINE p == editor[e].period
  <2>1. /\ editor[e].at = "inserted" /\ items' = items \cup {p}
        /\ editor' = [editor EXCEPT ![e] = Idle] /\ UNCHANGED <<kind, record, quoted>>
    BY <1>4 DEF CommitItem, Close
  <2>2. /\ editor' \in [Editors -> Editor] /\ editor'[e] = Idle /\ Idle.at = "idle"
        /\ \A f \in Editors : f # e => editor'[f] = editor[f]
        /\ \A f \in Editors : editor'[f].at = "idle" => editor'[f] = Idle
    BY <1>1, <2>1, IdleEditor, EditorMoves
  <2>3. kind = "priceList" /\ p \in Periods /\ \A q \in items : ~Overlap(p, q)
    BY <1>1, <2>1 DEF Located, PeriodsApart
  <2> HIDE DEF p
  <2>4. RecordsTypeOK'
    BY <1>1, <2>1, <2>2, <2>3 DEF RecordsTypeOK
  <2>5. Located' /\ CopiesSound'
    BY <1>1, <2>1, <2>2 DEF Located, CopiesSound, CopySound
  <2>6. PeriodsApart'
    <3>1. \A f \in Editors : editor'[f].at \notin {"checked", "inserted"}
      BY <1>1, <2>1, <2>2 DEF PeriodsApart
    <3>2. \A q, r \in items' : q # r => ~Overlap(q, r)
      <4>1. \A q \in items : ~Overlap(q, p)
        BY <2>3 DEF Overlap
      <4>2. QED
        BY <1>1, <2>1, <2>3, <4>1 DEF PeriodsApart
    <3>3. QED
      BY <3>1, <3>2 DEF PeriodsApart
  <2>7. QuotedSound'
    BY <1>1, <2>1 DEF QuotedSound
  <2>8. Watched
    BY <2>1 DEF Watched, Saves
  <2>9. QED
    BY <2>4, <2>5, <2>6, <2>7, <2>8 DEF RecordsInv
<1>5. QED
  BY <1>2, <1>3, <1>4

------------------------------------------------------------------------------
\* What a quotation is given is a period in force, or the terms of the rule.
LEMMA ResolveKeeps ==
    ASSUME RecordsAssumption, RecordsInv, Resolve PROVE RecordsInv' /\ Watched
<1>1. /\ RecordsTypeOK /\ record \in Record /\ items \subseteq Periods
      /\ UNCHANGED <<kind, record, items, editor>>
  BY DEF RecordsInv, RecordsTypeOK, Resolve
<1>2. PICK day \in Days : \E a \in Answers(day) : quoted' = [day |-> day, answer |-> a]
  BY DEF Resolve
<1>3. PICK a \in Answers(day) : quoted' = [day |-> day, answer |-> a]
  BY <1>2
<1>4. /\ kind \in {"priceList", "discountRule"} /\ record.status = "PUBLISHED"
      /\ kind = "priceList" => a \in items /\ a.from <= day /\ day <= a.to
      /\ kind = "discountRule" => a = record.terms
  <2>1. CASE kind = "priceList"
    BY <1>3, <2>1 DEF Answers, ResolvePrice
  <2>2. CASE kind = "discountRule"
    BY <1>3, <2>2 DEF Answers, ResolveDiscount
  <2>3. CASE kind \notin {"priceList", "discountRule"}
    BY <1>3, <2>3 DEF Answers
  <2>4. QED
    BY <2>1, <2>2, <2>3
<1>5. quoted' \in Quote
  <2>1. record.terms \in Terms \cup {Blank}
    BY <1>1, <1>4 DEF RecordsTypeOK, Record
  <2>2. a \in Periods \cup Terms \cup {Blank}
    BY <1>1, <1>4, <2>1
  <2>3. QED
    BY <1>3, <2>2 DEF Quote
<1>6. RecordsTypeOK'
  BY <1>1, <1>5 DEF RecordsTypeOK
<1>7. Located' /\ CopiesSound' /\ PeriodsApart'
  BY <1>1 DEF RecordsInv, Located, CopiesSound, CopySound, PeriodsApart
<1>8. QuotedSound'
  BY <1>1, <1>3, <1>4 DEF QuotedSound
<1>9. Watched
  BY <1>1 DEF Watched, Saves
<1>10. QED
  BY <1>6, <1>7, <1>8, <1>9 DEF RecordsInv

\* At first there is no record and nobody has read one.
LEMMA RecordsInitSound == ASSUME RecordsAssumption, RecordsInit PROVE RecordsInv
<1>1. Idle \in Editor /\ Idle.at = "idle" /\ NoRecord \in Record
  BY IdleEditor
<1>2. editor \in [Editors -> Editor] /\ \A e \in Editors : editor[e] = Idle
  BY <1>1 DEF RecordsInit
<1>3. RecordsTypeOK
  BY <1>1, <1>2 DEF RecordsInit, RecordsTypeOK, NoRecord
<1>4. Located /\ CopiesSound /\ PeriodsApart /\ QuotedSound
  BY <1>1, <1>2 DEF RecordsInit, Located, CopiesSound, PeriodsApart, QuotedSound
<1>5. QED
  BY <1>3, <1>4 DEF RecordsInv

\* Every step keeps the invariant and its promise.
LEMMA RecordsNextKeeps ==
    ASSUME RecordsAssumption, RecordsInv, [RecordsNext]_recordsVars PROVE RecordsInv' /\ Watched
<1>1. CASE UNCHANGED recordsVars
  BY <1>1 DEF recordsVars, RecordsInv, RecordsTypeOK, Located, CopiesSound, CopySound,
              PeriodsApart, QuotedSound, Watched, Saves
<1>2. CASE RecordsNext
  BY <1>2, CreationKeeps, ReadKeeps, CustomerKeeps, EditKeeps, CheckTransitionKeeps, PeriodKeeps,
     ResolveKeeps DEF RecordsNext
<1>3. QED
  BY <1>1, <1>2

\* The invariant holds in every state.
THEOREM RecordsInvariance == RecordsSpec => []RecordsInv
  BY RecordsAssumption, RecordsInitSound, RecordsNextKeeps, PTL DEF RecordsSpec

\* The variables of the module have their types.
THEOREM RecordsTypeCorrect == RecordsSpec => []RecordsTypeOK
  BY RecordsInvariance, PTL DEF RecordsInv

\* Nobody's change is lost.
THEOREM NoChangeLost == RecordsSpec => SavesOverWhatWasRead
<1>1. RecordsInv /\ [RecordsNext]_recordsVars =>
        [\A e \in Editors :
           Saves(e) /\ (kind = "customer" => e \in Careful) => editor[e].read = record]_recordsVars
  BY RecordsAssumption, RecordsNextKeeps DEF Watched
<1>2. QED
  BY <1>1, RecordsInvariance, PTL DEF RecordsSpec, SavesOverWhatWasRead

\* What was quoted for a day is quoted again.
THEOREM QuotedStays == RecordsSpec => []QuotedAnswerStands
<1>1. RecordsInv => QuotedAnswerStands
  <2>1. SUFFICES ASSUME RecordsInv, quoted # None, record.status = "PUBLISHED"
                 PROVE  Answers(quoted.day) = {quoted.answer}
    BY DEF QuotedAnswerStands
  <2>2. kind = "discountRule" => Answers(quoted.day) = {quoted.answer}
    BY <2>1 DEF RecordsInv, QuotedSound, Answers, ResolveDiscount
  <2>3. CASE kind = "priceList"
    <3> DEFINE day == quoted.day
               inForce == {p \in items : p.from <= day /\ day <= p.to}
    <3>1. quoted.answer \in inForce
      BY <2>1, <2>3 DEF RecordsInv, QuotedSound
    <3>2. day \in Int /\ \A p \in items : p.from \in Int /\ p.to \in Int
      <4>1. quoted \in Quote /\ items \subseteq Periods
        BY <2>1 DEF RecordsInv, RecordsTypeOK
      <4>2. QED
        BY <4>1, RecordsAssumption DEF RecordsAssumption, Quote, Periods, Days, Forever
    <3>3. \A p, q \in inForce : p = q
      <4>1. \A p, q \in inForce : Overlap(p, q)
        BY <3>2 DEF Overlap
      <4>2. QED
        BY <2>1, <4>1 DEF RecordsInv, PeriodsApart
    <3>4. inForce = {quoted.answer}
      BY <3>1, <3>3
    <3>5. ResolvePrice(day) = {p \in inForce : \A q \in inForce : q.from <= p.from}
      BY <2>1 DEF ResolvePrice
    <3>6. quoted.answer.from <= quoted.answer.from
      BY <3>1, <3>2
    <3> HIDE DEF inForce
    <3>7. ResolvePrice(day) = {quoted.answer}
      BY <3>4, <3>5, <3>6
    <3>8. QED
      BY <2>3, <3>7 DEF Answers
  <2>4. QED
    BY <2>1, <2>2, <2>3 DEF RecordsInv, QuotedSound
<1>2. QED
  BY <1>1, RecordsInvariance, PTL

=============================================================================
