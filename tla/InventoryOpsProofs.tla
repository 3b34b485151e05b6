-------------------------- MODULE InventoryOpsProofs -------------------------
(***************************************************************************)
(* What each stock operation preserves, proved once for any caller: from a *)
(* Sound database every database an operation may leave is Sound, and      *)
(* extends the ledger of reservations and movements as StockLedger allows. *)
(***************************************************************************)
EXTENDS InventoryOps, FiniteSetTheorems, TLAPS

\* The quantity that reservation r contributes to Held(rs, s), and movement k to
\* the movements of some types of stock row s.
HeldBy(rs, r, s) ==
    IF rs[r] # NoRow /\ rs[r].status = "RESERVED" /\ <<rs[r].wh, r[2]>> = s
    THEN rs[r].qty ELSE 0

MovedBy(m, k, s, types) ==
    IF m[k] # NoRow /\ m[k].stock = s /\ m[k].type \in types THEN m[k].qty ELSE 0

Moved(m, s, types) == Cardinality(MovedUnits(m, s, types))

-----------------------------------------------------------------------------
(* Totals over a table, when one row changes                               *)

\* The units of one key, and the others, add up to all units.
LEMMA UnitSplit ==
    ASSUME NEW K, IsFiniteSet(K), NEW U \in SUBSET (K \X Qty), NEW k \in K,
           NEW n \in 0 .. MaxQty, \A q \in Qty : <<k, q>> \in U <=> q <= n
    PROVE  /\ Cardinality({u \in U : u[1] # k}) \in Nat
           /\ Cardinality(U) = Cardinality({u \in U : u[1] # k}) + n
<1> DEFINE Rest == {u \in U : u[1] # k}
           Own  == {k} \X (1 .. n)
<1>1. IsFiniteSet(Qty)
  BY MaxQtyAssumption, FS_Interval DEF Qty
<1>2. IsFiniteSet(U)
  <2>1. IsFiniteSet(K \X Qty)
    BY <1>1, FS_Product
  <2>2. QED
    BY <2>1, FS_Subset
<1>3. IsFiniteSet(Rest) /\ Cardinality(Rest) \in Nat
  BY <1>2, FS_Subset, FS_CardinalityType
<1>4. IsFiniteSet(Own) /\ Cardinality(Own) = n
  <2>1. IsFiniteSet({k}) /\ Cardinality({k}) = 1
    BY FS_Singleton
  <2>2. IsFiniteSet(1 .. n) /\ Cardinality(1 .. n) = n
    BY FS_Interval, MaxQtyAssumption
  <2>3. IsFiniteSet(Own) /\ Cardinality(Own) = Cardinality({k}) * Cardinality(1 .. n)
    BY <2>1, <2>2, FS_Product, Zenon
  <2>4. QED
    BY <2>1, <2>2, <2>3, MaxQtyAssumption
<1>5. U = Rest \cup Own
  <2>1. ASSUME NEW u \in U PROVE u \in Rest \cup Own
    BY <2>1, MaxQtyAssumption DEF Qty
  <2>2. ASSUME NEW u \in Own PROVE u \in U
    <3>1. PICK q \in 1 .. n : u = <<k, q>>
      BY <2>2
    <3>2. QED
      BY <3>1, MaxQtyAssumption DEF Qty
  <2>3. QED
    BY <2>1, <2>2
<1>6. Rest \cap Own = {}
  OBVIOUS
<1> HIDE DEF Rest, Own
<1>7. Cardinality(Rest \cup Own)
        = Cardinality(Rest) + Cardinality(Own) - Cardinality(Rest \cap Own)
  BY <1>3, <1>4, FS_Union, Zenon
<1>8. Cardinality(U) = Cardinality(Rest) + n
  BY <1>3, <1>4, <1>5, <1>6, <1>7, FS_EmptySet
<1>9. QED
  BY <1>3, <1>8 DEF Rest

\* When one reservation row changes, Held changes by what that row contributes.
LEMMA HeldChange ==
    ASSUME NEW rs \in [ResKey -> ReservationRow], NEW rt \in [ResKey -> ReservationRow],
           NEW r \in ResKey, NEW s \in StockKey,
           \A x \in ResKey : x # r => rt[x] = rs[x]
    PROVE  /\ Held(rs, s) \in Nat /\ Held(rt, s) \in Nat
           /\ HeldBy(rs, r, s) \in Nat /\ HeldBy(rt, r, s) \in Nat
           /\ HeldBy(rs, r, s) <= Held(rs, s)
           /\ Held(rt, s) = Held(rs, s) - HeldBy(rs, r, s) + HeldBy(rt, r, s)
<1> DEFINE Rest(t) == {u \in HeldUnits(t, s) : u[1] # r}
<1>1. IsFiniteSet(ResKey)
  BY FiniteAssumption, FS_Product DEF ResKey
<1>2. ASSUME NEW t \in [ResKey -> ReservationRow]
      PROVE  /\ HeldBy(t, r, s) \in 0 .. MaxQty
             /\ Cardinality(Rest(t)) \in Nat
             /\ Held(t, s) = Cardinality(Rest(t)) + HeldBy(t, r, s)
  <2>1. t[r] # NoRow => t[r] \in Reservation
    BY DEF ReservationRow
  <2>2. HeldBy(t, r, s) \in 0 .. MaxQty
    BY <2>1, MaxQtyAssumption DEF HeldBy, Reservation, Qty
  <2>3. HeldUnits(t, s) \in SUBSET (ResKey \X Qty)
    BY DEF HeldUnits
  <2>4. \A q \in Qty : <<r, q>> \in HeldUnits(t, s) <=> q <= HeldBy(t, r, s)
    BY <2>1, MaxQtyAssumption DEF HeldUnits, HeldBy, Qty, Reservation
  <2>5. QED
    BY <1>1, <2>2, <2>3, <2>4, UnitSplit DEF Held
<1>3. Rest(rs) = Rest(rt)
  BY DEF HeldUnits
<1> HIDE DEF Rest
<1>4. QED
  BY <1>2, <1>3, MaxQtyAssumption

\* When one movement row changes, a total of movements changes by what that row
\* contributes.
LEMMA MovedChange ==
    ASSUME NEW m \in [OpKeys -> MovementRow], NEW n \in [OpKeys -> MovementRow],
           NEW k \in OpKeys, NEW s \in StockKey, NEW types,
           \A x \in OpKeys : x # k => n[x] = m[x]
    PROVE  /\ Moved(m, s, types) \in Nat /\ Moved(n, s, types) \in Nat
           /\ MovedBy(m, k, s, types) \in Nat /\ MovedBy(n, k, s, types) \in Nat
           /\ Moved(n, s, types)
                = Moved(m, s, types) - MovedBy(m, k, s, types) + MovedBy(n, k, s, types)
<1> DEFINE Rest(t) == {u \in MovedUnits(t, s, types) : u[1] # k}
<1>1. IsFiniteSet(OpKeys)
  BY FiniteAssumption
<1>2. ASSUME NEW t \in [OpKeys -> MovementRow]
      PROVE  /\ MovedBy(t, k, s, types) \in 0 .. MaxQty
             /\ Cardinality(Rest(t)) \in Nat
             /\ Moved(t, s, types) = Cardinality(Rest(t)) + MovedBy(t, k, s, types)
  <2>1. t[k] # NoRow => t[k] \in Movement
    BY DEF MovementRow
  <2>2. MovedBy(t, k, s, types) \in 0 .. MaxQty
    BY <2>1, MaxQtyAssumption DEF MovedBy, Movement, Qty
  <2>3. MovedUnits(t, s, types) \in SUBSET (OpKeys \X Qty)
    BY DEF MovedUnits
  <2>4. \A q \in Qty : <<k, q>> \in MovedUnits(t, s, types) <=> q <= MovedBy(t, k, s, types)
    BY <2>1, MaxQtyAssumption DEF MovedUnits, MovedBy, Qty, Movement
  <2>5. QED
    BY <1>1, <2>2, <2>3, <2>4, UnitSplit DEF Moved
<1>3. Rest(m) = Rest(n)
  BY DEF MovedUnits
<1> HIDE DEF Rest
<1>4. QED
  BY <1>2, <1>3, MaxQtyAssumption

-----------------------------------------------------------------------------
(* Sound databases                                                         *)

Typed(d) ==
    /\ d.stock \in [StockKey -> StockRow]
    /\ d.res \in [ResKey -> ReservationRow]
    /\ d.mov \in [OpKeys -> MovementRow]

Counted(d) ==
    \A s \in StockKey :
        /\ d.stock[s].reserved = Held(d.res, s)
        /\ d.stock[s].onHand + Issued(d.mov, s) = Incoming(d.mov, s)

Covered(d) == \A s \in StockKey : d.stock[s].reserved <= d.stock[s].onHand

\* The inductive invariant of every module that changes stock through InventoryOps.
Sound(d) == Typed(d) /\ Counted(d) /\ Covered(d) /\ IssuedOnce(d.res, d.mov)

\* e continues the history of d.
Extends(d, e) ==
    /\ \A r \in ResKey : ReservationStep(d.res[r], e.res[r])
    /\ \A k \in OpKeys : MovementStep(d.mov[k], e.mov[k])

\* Nothing has changed.
LEMMA ExtendsItself == ASSUME NEW d PROVE Extends(d, d)
  BY DEF Extends, ReservationStep, MovementStep

\* A sound database holds and has issued no more than came in.
LEMMA SoundIsSolvent == ASSUME NEW d, Sound(d) PROVE Solvent(d.res, d.mov)
<1> SUFFICES ASSUME NEW s \in StockKey
             PROVE  Held(d.res, s) + Issued(d.mov, s) <= Incoming(d.mov, s)
  BY DEF Solvent
<1>1. d.stock[s] \in StockRow
  BY DEF Sound, Typed
<1>2. IsFiniteSet(OpKeys \X Qty)
  <2>1. IsFiniteSet(Qty)
    BY MaxQtyAssumption, FS_Interval DEF Qty
  <2>2. QED
    BY <2>1, FiniteAssumption, FS_Product
<1>3. MovedUnits(d.mov, s, {"ISSUE"}) \in SUBSET (OpKeys \X Qty)
  BY DEF MovedUnits
<1>4. Issued(d.mov, s) \in Nat
  BY <1>2, <1>3, FS_Subset, FS_CardinalityType DEF Issued
<1>5. QED
  BY <1>1, <1>4 DEF Sound, Counted, Covered, StockRow

\* What an update of one stock row does to every row.
LEMMA AdjustRow ==
    ASSUME NEW st \in [StockKey -> StockRow], NEW r \in StockKey,
           NEW dOn \in Int, NEW dRes \in Int,
           st[r].onHand + dOn >= 0, st[r].reserved + dRes >= 0
    PROVE  /\ Adjust(st, r, dOn, dRes) \in [StockKey -> StockRow]
           /\ \A s \in StockKey :
                /\ Adjust(st, r, dOn, dRes)[s].onHand
                     = st[s].onHand + (IF s = r THEN dOn ELSE 0)
                /\ Adjust(st, r, dOn, dRes)[s].reserved
                     = st[s].reserved + (IF s = r THEN dRes ELSE 0)
<1> DEFINE row == [onHand |-> st[r].onHand + dOn, reserved |-> st[r].reserved + dRes]
<1>1. row \in StockRow
  BY DEF StockRow
<1>2. Adjust(st, r, dOn, dRes) = [st EXCEPT ![r] = row]
  BY DEF Adjust
<1>3. row.onHand = st[r].onHand + dOn /\ row.reserved = st[r].reserved + dRes
  OBVIOUS
<1> HIDE DEF row
<1>4. \A s \in StockKey : [st EXCEPT ![r] = row][s] = IF s = r THEN row ELSE st[s]
  OBVIOUS
<1>5. \A s \in StockKey : st[s].onHand \in Nat /\ st[s].reserved \in Nat
  BY DEF StockRow
<1>6. QED
  BY <1>1, <1>2, <1>3, <1>4, <1>5

\* receiveStock and returnStock under a fresh operation key.
LEMMA AddedSound ==
    ASSUME NEW d, Sound(d), NEW in \in AddRequest, NEW type \in {"RECEIPT", "RETURN"},
           d.mov[in.key] = NoRow
    PROVE  Sound(Added(d, in, type)) /\ Extends(d, Added(d, in, type))
<1> DEFINE e == Added(d, in, type)
           row == <<in.wh, in.item>>
           m   == e.mov
<1>1. row \in StockKey /\ in.qty \in Qty /\ in.qty \in Nat /\ in.key \in OpKeys
  BY MaxQtyAssumption DEF AddRequest, StockKey, Qty
<1>2. d.stock \in [StockKey -> StockRow] /\ d.mov \in [OpKeys -> MovementRow]
      /\ d.res \in [ResKey -> ReservationRow]
  BY DEF Sound, Typed
<1>3. /\ e.res = d.res
      /\ e.stock = Adjust(d.stock, row, in.qty, 0)
      /\ e.mov = [d.mov EXCEPT ![in.key] =
                    [branch |-> in.branch, stock |-> row, qty |-> in.qty,
                     type |-> type, res |-> NoRow]]
  BY DEF Added, Put
<1>4. [branch |-> in.branch, stock |-> row, qty |-> in.qty, type |-> type, res |-> NoRow]
         \in Movement
  BY <1>1 DEF AddRequest, Movement
<1>5. m \in [OpKeys -> MovementRow] /\ m[in.key] # NoRow
      /\ m[in.key].stock = row /\ m[in.key].qty = in.qty /\ m[in.key].type = type
      /\ m[in.key].res = NoRow /\ \A x \in OpKeys : x # in.key => m[x] = d.mov[x]
  BY <1>1, <1>2, <1>3, <1>4, NoRowAssumption DEF MovementRow
<1> HIDE DEF e, row, m
<1>6. d.stock[row].onHand \in Nat /\ d.stock[row].reserved \in Nat
  BY <1>1, <1>2 DEF StockRow
<1>7. /\ e.stock \in [StockKey -> StockRow]
      /\ \A s \in StockKey :
           /\ e.stock[s].reserved = d.stock[s].reserved
           /\ e.stock[s].onHand = d.stock[s].onHand + (IF s = row THEN in.qty ELSE 0)
  <2>1. d.stock[row].onHand + in.qty >= 0 /\ d.stock[row].reserved + 0 >= 0
    BY <1>1, <1>6
  <2>2. /\ Adjust(d.stock, row, in.qty, 0) \in [StockKey -> StockRow]
        /\ \A s \in StockKey :
             /\ Adjust(d.stock, row, in.qty, 0)[s].onHand
                  = d.stock[s].onHand + (IF s = row THEN in.qty ELSE 0)
             /\ Adjust(d.stock, row, in.qty, 0)[s].reserved
                  = d.stock[s].reserved + (IF s = row THEN 0 ELSE 0)
    BY <1>1, <1>2, <2>1, AdjustRow
  <2>3. \A s \in StockKey : d.stock[s].reserved \in Nat
    BY <1>2 DEF StockRow
  <2>4. QED
    BY <1>3, <2>2, <2>3
<1>8. Typed(e)
  BY <1>2, <1>3, <1>5, <1>7 DEF Typed, m
<1>9. Counted(e)
  <2> SUFFICES ASSUME NEW s \in StockKey
               PROVE  /\ e.stock[s].reserved = Held(e.res, s)
                      /\ e.stock[s].onHand + Issued(e.mov, s) = Incoming(e.mov, s)
    BY DEF Counted
  <2>1. Issued(m, s) = Issued(d.mov, s) /\ Issued(m, s) \in Nat
    <3>1. MovedBy(d.mov, in.key, s, {"ISSUE"}) = 0 /\ MovedBy(m, in.key, s, {"ISSUE"}) = 0
      BY <1>5 DEF MovedBy
    <3>2. QED
      BY <1>1, <1>2, <1>5, <3>1, MovedChange DEF Issued, Moved
  <2>2. /\ Incoming(m, s) = Incoming(d.mov, s) + (IF s = row THEN in.qty ELSE 0)
        /\ Incoming(d.mov, s) \in Nat
    <3>1. /\ MovedBy(d.mov, in.key, s, {"RECEIPT", "RETURN"}) = 0
          /\ MovedBy(m, in.key, s, {"RECEIPT", "RETURN"}) = IF s = row THEN in.qty ELSE 0
      BY <1>5 DEF MovedBy
    <3>2. QED
      BY <1>1, <1>2, <1>5, <3>1, MovedChange DEF Incoming, Moved
  <2>3. d.stock[s].onHand \in Nat
    BY <1>2 DEF StockRow
  <2>4. QED
    BY <1>1, <1>3, <1>7, <2>1, <2>2, <2>3 DEF Sound, Counted, m
<1>10. Covered(e)
  BY <1>1, <1>2, <1>7 DEF Sound, Covered, StockRow
<1>11. IssuedOnce(e.res, m)
  <2>1. \A k \in OpKeys, r \in ResKey : IsIssueOf(m, k, r) => k # in.key
    BY <1>5 DEF IsIssueOf
  <2>2. \A k \in OpKeys, r \in ResKey : IsIssueOf(m, k, r) <=> IsIssueOf(d.mov, k, r)
    BY <1>5, <2>1 DEF IsIssueOf
  <2>3. QED
    BY <1>3, <1>5, <2>1, <2>2 DEF Sound, IssuedOnce
<1>12. Extends(d, e)
  BY <1>3, <1>5 DEF Extends, ReservationStep, MovementStep, m
<1>13. QED
  BY <1>8, <1>9, <1>10, <1>11, <1>12 DEF Sound, e, m

\* reserveStock of a source and item never reserved before, within what is free.
LEMMA ReservedSound ==
    ASSUME NEW d, Sound(d), NEW in \in ReserveRequest,
           d.res[<<in.src, in.item>>] = NoRow,
           Available(d.stock, <<in.wh, in.item>>) >= in.qty
    PROVE  Sound(Reserved(d, in)) /\ Extends(d, Reserved(d, in))
<1> DEFINE e   == Reserved(d, in)
           s0  == <<in.wh, in.item>>
           r0  == <<in.src, in.item>>
           new == [branch |-> in.branch, wh |-> in.wh, qty |-> in.qty, status |-> "RESERVED"]
<1>1. s0 \in StockKey /\ r0 \in ResKey /\ in.qty \in Nat /\ r0[2] = in.item
  BY MaxQtyAssumption DEF ReserveRequest, StockKey, ResKey, Qty
<1>2. /\ d.stock \in [StockKey -> StockRow] /\ d.mov \in [OpKeys -> MovementRow]
      /\ d.res \in [ResKey -> ReservationRow]
  BY DEF Sound, Typed
<1>3. new \in Reservation
  BY DEF ReserveRequest, Reservation
<1>4. /\ e.mov = d.mov
      /\ e.stock = Adjust(d.stock, s0, 0, in.qty)
      /\ e.res = [d.res EXCEPT ![r0] = new]
  BY DEF Reserved, Put
<1>5. /\ e.res \in [ResKey -> ReservationRow]
      /\ e.res[r0] = new /\ e.res[r0] # NoRow
      /\ \A x \in ResKey : x # r0 => e.res[x] = d.res[x]
  BY <1>1, <1>2, <1>3, <1>4, NoRowAssumption DEF ReservationRow
<1>6. /\ e.stock \in [StockKey -> StockRow]
      /\ \A s \in StockKey :
            /\ e.stock[s].onHand = d.stock[s].onHand
            /\ e.stock[s].reserved = d.stock[s].reserved + (IF s = s0 THEN in.qty ELSE 0)
  <2>1. \A s \in StockKey : d.stock[s].onHand \in Nat /\ d.stock[s].reserved \in Nat
    BY <1>2 DEF StockRow
  <2> HIDE DEF e, s0
  <2>2. QED
    BY <1>1, <1>2, <1>4, <2>1, AdjustRow
<1>7. new.status = "RESERVED" /\ new.qty = in.qty /\ <<new.wh, r0[2]>> = s0
  BY <1>1
<1>8. d.stock[s0].onHand - d.stock[s0].reserved >= in.qty /\ d.res[r0] = NoRow
  BY DEF Available
<1> HIDE DEF e, s0, r0, new
<1>9. Typed(e)
  BY <1>2, <1>4, <1>5, <1>6 DEF Typed
<1>10. Counted(e)
  <2> SUFFICES ASSUME NEW s \in StockKey
               PROVE  /\ e.stock[s].reserved = Held(e.res, s)
                      /\ e.stock[s].onHand + Issued(e.mov, s) = Incoming(e.mov, s)
    BY DEF Counted
  <2>1. HeldBy(d.res, r0, s) = 0 /\ HeldBy(e.res, r0, s) = IF s = s0 THEN in.qty ELSE 0
    BY <1>5, <1>7, <1>8 DEF HeldBy
  <2>2. Held(e.res, s) = Held(d.res, s) + (IF s = s0 THEN in.qty ELSE 0)
    BY <1>1, <1>2, <1>5, <2>1, HeldChange
  <2>3. QED
    BY <1>4, <1>6, <2>2 DEF Sound, Counted
<1>11. Covered(e)
  BY <1>1, <1>2, <1>6, <1>8 DEF Sound, Covered, StockRow
<1>12. IssuedOnce(e.res, e.mov)
  <2>1. \A k \in OpKeys : ~IsIssueOf(d.mov, k, r0)
    BY <1>1, <1>8 DEF Sound, IssuedOnce
  <2>2. QED
    BY <1>1, <1>4, <1>5, <1>7, <2>1 DEF Sound, IssuedOnce, IsIssueOf
<1>13. Extends(d, e)
  BY <1>4, <1>5, <1>8 DEF Extends, ReservationStep, MovementStep
<1>14. QED
  BY <1>9, <1>10, <1>11, <1>12, <1>13 DEF Sound, e

\* An open reservation holds part of its stock row.
LEMMA OpenReservation ==
    ASSUME NEW d, Sound(d), NEW r \in ResKey,
           d.res[r] # NoRow, d.res[r].status = "RESERVED"
    PROVE  /\ RowOf(d, r) \in StockKey
           /\ d.res[r] \in Reservation /\ d.res[r].qty \in Qty /\ d.res[r].qty \in Nat
           /\ d.stock[RowOf(d, r)].reserved >= d.res[r].qty
           /\ \A s \in StockKey :
                HeldBy(d.res, r, s) = IF s = RowOf(d, r) THEN d.res[r].qty ELSE 0
           /\ \A k \in OpKeys : ~IsIssueOf(d.mov, k, r)
<1>1. d.res \in [ResKey -> ReservationRow]
  BY DEF Sound, Typed
<1>2. d.res[r] \in Reservation
  BY <1>1 DEF ReservationRow
<1>3. RowOf(d, r) \in StockKey /\ d.res[r].qty \in Qty /\ d.res[r].qty \in Nat
  BY <1>2, MaxQtyAssumption DEF RowOf, Reservation, StockKey, ResKey, Qty
<1>4. \A s \in StockKey : HeldBy(d.res, r, s) = IF s = RowOf(d, r) THEN d.res[r].qty ELSE 0
  BY DEF HeldBy, RowOf
<1>5. HeldBy(d.res, r, RowOf(d, r)) <= Held(d.res, RowOf(d, r))
  BY <1>1, <1>3, HeldChange
<1>6. d.stock[RowOf(d, r)].reserved >= d.res[r].qty
  BY <1>3, <1>4, <1>5 DEF Sound, Counted
<1>7. \A k \in OpKeys : ~IsIssueOf(d.mov, k, r)
  BY DEF Sound, IssuedOnce
<1>8. QED
  BY <1>2, <1>3, <1>4, <1>6, <1>7

\* releaseReservation of an open reservation.
LEMMA ReleasedSound ==
    ASSUME NEW d, Sound(d), NEW r \in ResKey,
           d.res[r] # NoRow, d.res[r].status = "RESERVED"
    PROVE  Sound(Released(d, r)) /\ Extends(d, Released(d, r))
<1> DEFINE e  == Released(d, r)
           s0 == RowOf(d, r)
           q  == d.res[r].qty
<1>1. /\ s0 \in StockKey /\ q \in Nat /\ d.res[r] \in Reservation
      /\ d.stock[s0].reserved >= q
      /\ \A s \in StockKey : HeldBy(d.res, r, s) = IF s = s0 THEN q ELSE 0
      /\ \A k \in OpKeys : ~IsIssueOf(d.mov, k, r)
  BY OpenReservation
<1>2. /\ d.stock \in [StockKey -> StockRow] /\ d.mov \in [OpKeys -> MovementRow]
      /\ d.res \in [ResKey -> ReservationRow]
  BY DEF Sound, Typed
<1>3. \A s \in StockKey : d.stock[s].onHand \in Nat /\ d.stock[s].reserved \in Nat
  BY <1>2 DEF StockRow
<1>4. /\ e.mov = d.mov
      /\ e.stock = Adjust(d.stock, s0, 0, -q)
      /\ e.res = [d.res EXCEPT ![r] = [d.res[r] EXCEPT !.status = "RELEASED"]]
  BY DEF Released, SetStatus
<1>5. /\ [d.res[r] EXCEPT !.status = "RELEASED"] \in Reservation
      /\ [d.res[r] EXCEPT !.status = "RELEASED"].status = "RELEASED"
  BY <1>1 DEF Reservation
<1>6. /\ e.res \in [ResKey -> ReservationRow]
      /\ e.res[r] = [d.res[r] EXCEPT !.status = "RELEASED"]
      /\ e.res[r] # NoRow /\ e.res[r].status = "RELEASED"
      /\ \A x \in ResKey : x # r => e.res[x] = d.res[x]
  BY <1>2, <1>4, <1>5, NoRowAssumption DEF ReservationRow
<1> HIDE DEF e, s0, q
<1>7. /\ e.stock \in [StockKey -> StockRow]
      /\ \A s \in StockKey :
            /\ e.stock[s].onHand = d.stock[s].onHand
            /\ e.stock[s].reserved = d.stock[s].reserved - (IF s = s0 THEN q ELSE 0)
  <2>1. -q \in Int /\ d.stock[s0].reserved + -q >= 0 /\ d.stock[s0].onHand + 0 >= 0
    BY <1>1, <1>3
  <2>2. /\ Adjust(d.stock, s0, 0, -q) \in [StockKey -> StockRow]
        /\ \A s \in StockKey :
             /\ Adjust(d.stock, s0, 0, -q)[s].onHand
                  = d.stock[s].onHand + (IF s = s0 THEN 0 ELSE 0)
             /\ Adjust(d.stock, s0, 0, -q)[s].reserved
                  = d.stock[s].reserved + (IF s = s0 THEN -q ELSE 0)
    BY <1>1, <1>2, <2>1, AdjustRow
  <2>3. QED
    BY <1>1, <1>3, <1>4, <2>2
<1>8. Typed(e)
  BY <1>2, <1>4, <1>6, <1>7 DEF Typed
<1>9. Counted(e)
  <2> SUFFICES ASSUME NEW s \in StockKey
               PROVE  /\ e.stock[s].reserved = Held(e.res, s)
                      /\ e.stock[s].onHand + Issued(e.mov, s) = Incoming(e.mov, s)
    BY DEF Counted
  <2>1. HeldBy(e.res, r, s) = 0
    BY <1>6 DEF HeldBy
  <2>2. Held(e.res, s) = Held(d.res, s) - (IF s = s0 THEN q ELSE 0)
    BY <1>1, <1>2, <1>6, <2>1, HeldChange
  <2>3. QED
    BY <1>4, <1>7, <2>2 DEF Sound, Counted
<1>10. Covered(e)
  BY <1>1, <1>3, <1>7 DEF Sound, Covered
<1>11. IssuedOnce(e.res, e.mov)
  BY <1>1, <1>4, <1>6 DEF Sound, IssuedOnce, IsIssueOf
<1>12. Extends(d, e)
  BY <1>4, <1>6 DEF Extends, ReservationStep, MovementStep
<1>13. QED
  BY <1>8, <1>9, <1>10, <1>11, <1>12 DEF Sound, e

\* fulfillReservation of an open reservation under a fresh operation key.
LEMMA FulfilledSound ==
    ASSUME NEW d, Sound(d), NEW r \in ResKey, NEW key \in OpKeys,
           d.res[r] # NoRow, d.res[r].status = "RESERVED",
           d.mov[key] = NoRow, Issuable(d, r)
    PROVE  Sound(Fulfilled(d, r, key)) /\ Extends(d, Fulfilled(d, r, key))
<1> DEFINE e   == Fulfilled(d, r, key)
           s0  == RowOf(d, r)
           q   == d.res[r].qty
           new == [branch |-> d.res[r].branch, stock |-> s0, qty |-> q,
                   type |-> "ISSUE", res |-> r]
<1>1. /\ s0 \in StockKey /\ q \in Nat /\ q \in Qty /\ d.res[r] \in Reservation
      /\ d.stock[s0].reserved >= q /\ d.stock[s0].onHand >= q
      /\ \A s \in StockKey : HeldBy(d.res, r, s) = IF s = s0 THEN q ELSE 0
      /\ \A k \in OpKeys : ~IsIssueOf(d.mov, k, r)
  BY OpenReservation DEF Issuable
<1>2. /\ d.stock \in [StockKey -> StockRow] /\ d.mov \in [OpKeys -> MovementRow]
      /\ d.res \in [ResKey -> ReservationRow]
  BY DEF Sound, Typed
<1>3. \A s \in StockKey : d.stock[s].onHand \in Nat /\ d.stock[s].reserved \in Nat
  BY <1>2 DEF StockRow
<1>4. /\ e.mov = [d.mov EXCEPT ![key] = new]
      /\ e.stock = Adjust(d.stock, s0, -q, -q)
      /\ e.res = [d.res EXCEPT ![r] = [d.res[r] EXCEPT !.status = "FULFILLED"]]
  BY DEF Fulfilled, SetStatus, Put
<1>5. /\ [d.res[r] EXCEPT !.status = "FULFILLED"] \in Reservation
      /\ [d.res[r] EXCEPT !.status = "FULFILLED"].status = "FULFILLED"
      /\ [d.res[r] EXCEPT !.status = "FULFILLED"].qty = q
      /\ [d.res[r] EXCEPT !.status = "FULFILLED"].wh = d.res[r].wh
  BY <1>1 DEF Reservation
<1>6. /\ e.res \in [ResKey -> ReservationRow]
      /\ e.res[r] = [d.res[r] EXCEPT !.status = "FULFILLED"]
      /\ e.res[r] # NoRow /\ e.res[r].status = "FULFILLED"
      /\ e.res[r].qty = q /\ e.res[r].wh = d.res[r].wh
      /\ \A x \in ResKey : x # r => e.res[x] = d.res[x]
  BY <1>2, <1>4, <1>5, NoRowAssumption DEF ReservationRow
<1>7. new \in Movement /\ new.type = "ISSUE" /\ new.res = r /\ new.stock = s0 /\ new.qty = q
  BY <1>1 DEF Movement, Reservation
<1>8. /\ e.mov \in [OpKeys -> MovementRow]
      /\ e.mov[key] = new /\ e.mov[key] # NoRow
      /\ \A x \in OpKeys : x # key => e.mov[x] = d.mov[x]
  BY <1>2, <1>4, <1>7, NoRowAssumption DEF MovementRow
<1>9. s0 = <<d.res[r].wh, r[2]>>
  BY DEF RowOf
<1> HIDE DEF e, s0, q, new
<1>10. /\ e.stock \in [StockKey -> StockRow]
       /\ \A s \in StockKey :
            /\ e.stock[s].onHand = d.stock[s].onHand - (IF s = s0 THEN q ELSE 0)
            /\ e.stock[s].reserved = d.stock[s].reserved - (IF s = s0 THEN q ELSE 0)
  <2>1. -q \in Int /\ d.stock[s0].reserved + -q >= 0 /\ d.stock[s0].onHand + -q >= 0
    BY <1>1, <1>3
  <2>2. /\ Adjust(d.stock, s0, -q, -q) \in [StockKey -> StockRow]
        /\ \A s \in StockKey :
             /\ Adjust(d.stock, s0, -q, -q)[s].onHand
                  = d.stock[s].onHand + (IF s = s0 THEN -q ELSE 0)
             /\ Adjust(d.stock, s0, -q, -q)[s].reserved
                  = d.stock[s].reserved + (IF s = s0 THEN -q ELSE 0)
    BY <1>1, <1>2, <2>1, AdjustRow
  <2>3. QED
    BY <1>1, <1>3, <1>4, <2>2
<1>11. Typed(e)
  BY <1>6, <1>8, <1>10 DEF Typed
<1>12. Counted(e)
  <2> SUFFICES ASSUME NEW s \in StockKey
               PROVE  /\ e.stock[s].reserved = Held(e.res, s)
                      /\ e.stock[s].onHand + Issued(e.mov, s) = Incoming(e.mov, s)
    BY DEF Counted
  <2>1. HeldBy(e.res, r, s) = 0
    BY <1>6 DEF HeldBy
  <2>2. Held(e.res, s) = Held(d.res, s) - (IF s = s0 THEN q ELSE 0)
    BY <1>1, <1>2, <1>6, <2>1, HeldChange
  <2>3. /\ Incoming(e.mov, s) = Incoming(d.mov, s) /\ Incoming(d.mov, s) \in Nat
    <3>1. /\ MovedBy(d.mov, key, s, {"RECEIPT", "RETURN"}) = 0
          /\ MovedBy(e.mov, key, s, {"RECEIPT", "RETURN"}) = 0
      BY <1>7, <1>8 DEF MovedBy
    <3>2. QED
      BY <1>2, <1>8, <3>1, MovedChange DEF Incoming, Moved
  <2>4. /\ Issued(e.mov, s) = Issued(d.mov, s) + (IF s = s0 THEN q ELSE 0)
        /\ Issued(d.mov, s) \in Nat
    <3>1. /\ MovedBy(d.mov, key, s, {"ISSUE"}) = 0
          /\ MovedBy(e.mov, key, s, {"ISSUE"}) = IF s = s0 THEN q ELSE 0
      BY <1>7, <1>8 DEF MovedBy
    <3>2. QED
      BY <1>1, <1>2, <1>8, <3>1, MovedChange DEF Issued, Moved
  <2>5. QED
    BY <1>1, <1>3, <1>10, <2>2, <2>3, <2>4 DEF Sound, Counted
<1>13. Covered(e)
  BY <1>1, <1>3, <1>10 DEF Sound, Covered
<1>14. IssuedOnce(e.res, e.mov)
  <2>1. \A k \in OpKeys, x \in ResKey :
           IsIssueOf(e.mov, k, x) <=> IsIssueOf(d.mov, k, x) \/ (k = key /\ x = r)
    BY <1>7, <1>8 DEF IsIssueOf
  <2>2. \A x \in ResKey : (e.res[x] # NoRow /\ e.res[x].status = "FULFILLED")
                             <=> \E k \in OpKeys : IsIssueOf(e.mov, k, x)
    BY <1>1, <1>6, <2>1 DEF Sound, IssuedOnce
  <2>3. ASSUME NEW k \in OpKeys, NEW x \in ResKey, IsIssueOf(e.mov, k, x)
        PROVE  e.mov[k].qty = e.res[x].qty /\ e.mov[k].stock = <<e.res[x].wh, x[2]>>
    <3>1. CASE k = key
      <4>1. x = r
        BY <1>7, <1>8, <2>3, <3>1 DEF IsIssueOf
      <4>2. QED
        BY <1>5, <1>6, <1>7, <1>8, <1>9, <3>1, <4>1
    <3>2. CASE k # key
      <4>1. IsIssueOf(d.mov, k, x) /\ x # r
        BY <1>1, <2>1, <2>3, <3>2
      <4>2. QED
        BY <1>6, <1>8, <3>2, <4>1 DEF Sound, IssuedOnce
    <3>3. QED
      BY <3>1, <3>2
  <2>4. ASSUME NEW k \in OpKeys, NEW l \in OpKeys, NEW x \in ResKey,
               IsIssueOf(e.mov, k, x), IsIssueOf(e.mov, l, x)
        PROVE  k = l
    BY <1>1, <2>1, <2>4 DEF Sound, IssuedOnce
  <2>5. QED
    BY <2>2, <2>3, <2>4 DEF IssuedOnce
<1>15. Extends(d, e)
  BY <1>6, <1>8 DEF Extends, ReservationStep, MovementStep
<1>16. QED
  BY <1>11, <1>12, <1>13, <1>14, <1>15 DEF Sound, e

-----------------------------------------------------------------------------
(* The operations: whatever one of them leaves is sound and continues the  *)
(* history.                                                                *)

\* receiveStock and returnStock.
LEMMA AddSteps ==
    ASSUME NEW d, Sound(d), NEW reg, NEW in \in AddRequest, NEW type \in {"RECEIPT", "RETURN"},
           NEW e \in AddStock(d, reg, in, type)
    PROVE  Sound(e) /\ Extends(d, e)
<1>1. CASE d.mov[in.key] # NoRow
  <2>1. e = d
    BY <1>1 DEF AddStock
  <2>2. QED
    BY <2>1, ExtendsItself
<1>2. CASE d.mov[in.key] = NoRow
  <2>1. e = Added(d, in, type)
    BY <1>2 DEF AddStock
  <2>2. QED
    BY <1>2, <2>1, AddedSound
<1>3. QED
  BY <1>1, <1>2

\* reserveStock.
LEMMA ReserveSteps ==
    ASSUME NEW d, Sound(d), NEW reg, NEW in \in ReserveRequest,
           NEW e \in ReserveStock(d, reg, in)
    PROVE  Sound(e) /\ Extends(d, e)
<1>1. CASE d.res[<<in.src, in.item>>] # NoRow
  <2>1. e = d
    BY <1>1 DEF ReserveStock
  <2>2. QED
    BY <2>1, ExtendsItself
<1>2. CASE d.res[<<in.src, in.item>>] = NoRow
  <2>1. e = Reserved(d, in) /\ ~(Available(d.stock, <<in.wh, in.item>>) < in.qty)
    BY <1>2 DEF ReserveStock
  <2>2. <<in.wh, in.item>> \in StockKey /\ in.qty \in Nat
    BY MaxQtyAssumption DEF ReserveRequest, StockKey, Qty
  <2>3. d.stock[<<in.wh, in.item>>] \in StockRow
    BY <2>2 DEF Sound, Typed
  <2>4. Available(d.stock, <<in.wh, in.item>>) >= in.qty
    BY <2>1, <2>2, <2>3 DEF Available, StockRow
  <2>5. QED
    BY <1>2, <2>1, <2>4, ReservedSound
<1>3. QED
  BY <1>1, <1>2

\* The three values a reservation's status can have.
LEMMA StatusOf ==
    ASSUME NEW d, Sound(d), NEW r \in ResKey, d.res[r] # NoRow
    PROVE  d.res[r].status \in {"RESERVED", "RELEASED", "FULFILLED"}
  BY DEF Sound, Typed, ReservationRow, Reservation

\* releaseReservation.
LEMMA ReleaseSteps ==
    ASSUME NEW d, Sound(d), NEW r \in ResKey, NEW b, NEW e \in ReleaseReservation(d, r, b)
    PROVE  Sound(e) /\ Extends(d, e)
<1>1. d.res[r] # NoRow /\ d.res[r].status # "FULFILLED"
  BY DEF ReleaseReservation, Lockable
<1>2. CASE d.res[r].status = "RELEASED"
  <2>1. e = d
    BY <1>1, <1>2 DEF ReleaseReservation
  <2>2. QED
    BY <2>1, ExtendsItself
<1>3. CASE d.res[r].status = "RESERVED"
  <2>1. e = Released(d, r)
    BY <1>1, <1>3 DEF ReleaseReservation
  <2>2. QED
    BY <1>1, <1>3, <2>1, ReleasedSound
<1>4. QED
  BY <1>1, <1>2, <1>3, StatusOf

\* fulfillReservation.
LEMMA FulfillSteps ==
    ASSUME NEW d, Sound(d), NEW r \in ResKey, NEW b, NEW k \in OpKeys,
           NEW e \in FulfillReservation(d, r, b, k)
    PROVE  Sound(e) /\ Extends(d, e)
<1>1. d.res[r] # NoRow /\ d.res[r].status # "RELEASED"
  BY DEF FulfillReservation, Lockable
<1>2. CASE d.res[r].status = "FULFILLED" \/ d.mov[k] # NoRow
  <2>1. e = d
    BY <1>1, <1>2 DEF FulfillReservation
  <2>2. QED
    BY <2>1, ExtendsItself
<1>3. CASE d.res[r].status = "RESERVED" /\ d.mov[k] = NoRow
  <2>1. e = Fulfilled(d, r, k) /\ Issuable(d, r)
    BY <1>1, <1>3 DEF FulfillReservation
  <2>2. QED
    BY <1>1, <1>3, <2>1, FulfilledSound
<1>4. QED
  BY <1>1, <1>2, <1>3, StatusOf

\* A reservation of a source and item leaves its row, of the branch and quantity asked
\* for, and no other.
LEMMA ReserveDoes ==
    ASSUME NEW d, Sound(d), NEW reg, NEW in \in ReserveRequest,
           NEW e \in ReserveStock(d, reg, in), NEW r, r = <<in.src, in.item>>
    PROVE  /\ e.mov = d.mov /\ \A x \in ResKey : x # r => e.res[x] = d.res[x]
           /\ e.res[r] # NoRow /\ e.res[r].branch = in.branch /\ e.res[r].qty = in.qty
<1> DEFINE new == [branch |-> in.branch, wh |-> in.wh, qty |-> in.qty, status |-> "RESERVED"]
<1>1. r \in ResKey /\ new \in Reservation /\ new # NoRow
      /\ new.branch = in.branch /\ new.qty = in.qty
  BY NoRowAssumption DEF ReserveRequest, ResKey, Reservation
<1>2. CASE d.res[r] # NoRow
  <2>1. e = d /\ d.res[r].branch = in.branch /\ d.res[r].qty = in.qty
    BY <1>2 DEF ReserveStock
  <2>2. QED
    BY <1>2, <2>1
<1>3. CASE d.res[r] = NoRow
  <2>1. e = Reserved(d, in)
    BY <1>3 DEF ReserveStock
  <2>2. e.mov = d.mov /\ e.res = [d.res EXCEPT ![r] = new]
    BY <2>1 DEF Reserved, Put
  <2>3. d.res \in [ResKey -> ReservationRow]
    BY DEF Sound, Typed
  <2> HIDE DEF new
  <2>4. e.res[r] = new /\ \A x \in ResKey : x # r => e.res[x] = d.res[x]
    BY <1>1, <2>2, <2>3
  <2>5. QED
    BY <1>1, <2>2, <2>4
<1>4. QED
  BY <1>2, <1>3

\* A release ends its reservation and touches no other.
LEMMA ReleaseDoes ==
    ASSUME NEW d, Sound(d), NEW r \in ResKey, NEW b, NEW e \in ReleaseReservation(d, r, b)
    PROVE  /\ e.mov = d.mov /\ \A x \in ResKey : x # r => e.res[x] = d.res[x]
           /\ d.res[r] # NoRow /\ e.res[r].status # "RESERVED"
<1>1. d.res[r] # NoRow /\ d.res[r].status # "FULFILLED"
  BY DEF ReleaseReservation, Lockable
<1>2. CASE d.res[r].status = "RELEASED"
  <2>1. e = d
    BY <1>1, <1>2 DEF ReleaseReservation
  <2>2. QED
    BY <1>1, <1>2, <2>1
<1>3. CASE d.res[r].status = "RESERVED"
  <2>1. e = Released(d, r)
    BY <1>1, <1>3 DEF ReleaseReservation
  <2>2. e.mov = d.mov /\ e.res = [d.res EXCEPT ![r] = [d.res[r] EXCEPT !.status = "RELEASED"]]
    BY <2>1 DEF Released, SetStatus
  <2>3. d.res \in [ResKey -> ReservationRow] /\ d.res[r] \in Reservation
    BY <1>1 DEF Sound, Typed, ReservationRow
  <2>4. [d.res[r] EXCEPT !.status = "RELEASED"].status = "RELEASED"
    BY <2>3 DEF Reservation
  <2>5. QED
    BY <1>1, <2>2, <2>3, <2>4
<1>4. QED
  BY <1>1, <1>2, <1>3, StatusOf

\* An issue makes no reservation.
LEMMA FulfillDoes ==
    ASSUME NEW d, Sound(d), NEW r \in ResKey, NEW b, NEW k,
           NEW e \in FulfillReservation(d, r, b, k)
    PROVE  \A x \in ResKey : d.res[x] = NoRow => e.res[x] = NoRow
<1>1. d.res[r] # NoRow /\ (e = d \/ e = Fulfilled(d, r, k))
  BY DEF FulfillReservation, Lockable
<1>2. CASE e = d
  BY <1>2
<1>3. CASE e = Fulfilled(d, r, k)
  <2>1. d.res \in [ResKey -> ReservationRow]
    BY DEF Sound, Typed
  <2>2. \E new : e.res = [d.res EXCEPT ![r] = new]
    BY <1>3 DEF Fulfilled, SetStatus
  <2>3. QED
    BY <1>1, <2>1, <2>2
<1>4. QED
  BY <1>1, <1>2, <1>3

\* Soundness is a matter of the three tables.
LEMMA SoundTables ==
    ASSUME NEW d, NEW e, Sound(d), e.stock = d.stock, e.res = d.res, e.mov = d.mov
    PROVE  Sound(e)
  BY DEF Sound, Typed, Counted, Covered

\* Empty tables are sound.
LEMMA EmptySound ==
    ASSUME NEW d, d.stock = [s \in StockKey |-> [onHand |-> 0, reserved |-> 0]],
           d.res = [r \in ResKey |-> NoRow], d.mov = [k \in OpKeys |-> NoRow]
    PROVE  Sound(d)
<1>1. Typed(d)
  BY DEF Typed, StockRow, ReservationRow, MovementRow
<1>2. ASSUME NEW s \in StockKey
      PROVE  Held(d.res, s) = 0 /\ Issued(d.mov, s) = 0 /\ Incoming(d.mov, s) = 0
  <2>1. HeldUnits(d.res, s) = {}
    BY DEF HeldUnits
  <2>2. MovedUnits(d.mov, s, {"ISSUE"}) = {} /\ MovedUnits(d.mov, s, {"RECEIPT", "RETURN"}) = {}
    BY DEF MovedUnits
  <2>3. QED
    BY <2>1, <2>2, FS_EmptySet DEF Held, Issued, Incoming
<1>3. \A s \in StockKey : d.stock[s].onHand = 0 /\ d.stock[s].reserved = 0
  OBVIOUS
<1>4. Counted(d)
  BY <1>2, <1>3 DEF Counted
<1>5. Covered(d)
  BY <1>3 DEF Covered
<1>6. IssuedOnce(d.res, d.mov)
  BY DEF IssuedOnce, IsIssueOf
<1>7. QED
  BY <1>1, <1>4, <1>5, <1>6 DEF Sound

=============================================================================
