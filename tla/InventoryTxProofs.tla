--------------------------- MODULE InventoryTxProofs --------------------------
(***************************************************************************)
(* Theorems about InventoryTx: however transactions overlap, wait, fail    *)
(* and are retried, what is committed is what complete operations, one     *)
(* after the other, would have left.                                       *)
(***************************************************************************)
EXTENDS InventoryTx, InventoryOpsProofs

\* The stock row that c's operation writes, and the operation's work on it when the
\* reservation or movement it belongs to is not written yet.
Target(c) == IF Op(c).type = "FULFIL" THEN HeldRow(c) ELSE StockOf(c)
Unposted(c, s) == tx[c].pc = "insert" /\ Target(c) = s

\* The row s as it was before that work.
Before(c, s) ==
    [onHand   |-> cur.stock[s].onHand - (IF Adds(c) THEN Op(c).qty
                                         ELSE IF Op(c).type = "FULFIL" THEN 0 - HeldQty(c) ELSE 0),
     reserved |-> cur.stock[s].reserved - (IF Op(c).type = "RESERVE" THEN Op(c).qty
                                           ELSE IF Op(c).type = "FULFIL" THEN 0 - HeldQty(c) ELSE 0)]

\* The database as all operations that are complete leave it, committed or not.
SettledRow(s) ==
    LET c == owner[<<"stock", s>>]
    IN  IF c # Nobody /\ Unposted(c, s) THEN Before(c, s) ELSE cur.stock[s]
Settled == [stock |-> [s \in StockKey |-> SettledRow(s)], res |-> cur.res, mov |-> cur.mov]

\* What no transaction holds is committed.
FreeIsCommitted ==
    /\ \A s \in StockKey : owner[<<"stock", s>>] = Nobody => cur.stock[s] = db.stock[s]
    /\ \A r \in ResKey : owner[<<"res", r>>] = Nobody => cur.res[r] = db.res[r]
    /\ \A k \in OpKeys : owner[<<"mov", k>>] = Nobody => cur.mov[k] = db.mov[k]

\* Who has written a reservation holds it together with its stock row, and who has
\* written a movement holds its stock row and the reservation that it issues.
WrittenWithStock ==
    /\ \A r \in ResKey : cur.res[r] # db.res[r] =>
          owner[<<"res", r>>] = owner[<<"stock", <<cur.res[r].wh, r[2]>>>>]
    /\ \A k \in OpKeys : cur.mov[k] # db.mov[k] =>
          /\ owner[<<"mov", k>>] = owner[<<"stock", cur.mov[k].stock>>]
          /\ \A r \in ResKey : IsIssueOf(cur.mov, k, r) => owner[<<"res", r>>] = owner[<<"mov", k>>]

\* c holds its operation's reservation, which is open and of its branch.
HoldsOpen(c) ==
    /\ Holds(c, "res", ResOf(c))
    /\ cur.res[ResOf(c)] # NoRow /\ cur.res[ResOf(c)].status = "RESERVED"
    /\ cur.res[ResOf(c)].branch = Op(c).branch

\* What c has locked where it is.
Ready(c) ==
    /\ tx[c].pc \notin {"idle", "commit"} => tx[c].ops # <<>>
    /\ tx[c].pc \in {"find", "assert"} => ~Ends(c)
    /\ tx[c].pc = "lock" => Op(c).type = "RESERVE"
    /\ tx[c].pc = "lockres" => Ends(c)
    /\ tx[c].pc = "findmov" => Op(c).type = "FULFIL" /\ HoldsOpen(c)
    /\ tx[c].pc = "write" =>
          /\ Op(c).type = "RESERVE" => Holds(c, "stock", StockOf(c))
          /\ Ends(c) => HoldsOpen(c)
    /\ tx[c].pc = "insert" =>
          /\ Op(c).type # "RELEASE"
          /\ Op(c).type = "FULFIL" => HoldsOpen(c)
          /\ Holds(c, "stock", Target(c))

\* The inductive invariant.
IInv ==
    /\ TypeOK
    /\ Covered(cur)
    /\ Sound(db) /\ Sound(Settled) /\ Extends(db, Settled)
    /\ FreeIsCommitted
    /\ WrittenWithStock
    /\ \A c \in Clients : Ready(c)

-----------------------------------------------------------------------------
(* A database of which some rows are taken from another.                   *)

\* e has the rows HS, HR and HM of y, and the others of x.
Mixed(e, x, y, HS, HR, HM) ==
    /\ e.stock = [s \in StockKey |-> IF s \in HS THEN y.stock[s] ELSE x.stock[s]]
    /\ e.res = [r \in ResKey |-> IF r \in HR THEN y.res[r] ELSE x.res[r]]
    /\ e.mov = [k \in OpKeys |-> IF k \in HM THEN y.mov[k] ELSE x.mov[k]]

\* Rows in which x and y differ are taken from the same one as the rows they refer to.
Apart(x, y, HS, HR, HM) ==
    /\ \A r \in ResKey : x.res[r] # y.res[r] =>
          /\ x.res[r] # NoRow => (r \in HR <=> <<x.res[r].wh, r[2]>> \in HS)
          /\ y.res[r] # NoRow => (r \in HR <=> <<y.res[r].wh, r[2]>> \in HS)
    /\ \A k \in OpKeys : x.mov[k] # y.mov[k] =>
          /\ x.mov[k] # NoRow => (k \in HM <=> x.mov[k].stock \in HS)
          /\ y.mov[k] # NoRow => (k \in HM <=> y.mov[k].stock \in HS)
          /\ \A r \in ResKey :
                IsIssueOf(x.mov, k, r) \/ IsIssueOf(y.mov, k, r) => (k \in HM <=> r \in HR)

\* Then what is mixed of two sound databases is sound.
LEMMA MixSound ==
    ASSUME NEW x, NEW y, NEW e, NEW HS, NEW HR, NEW HM,
           Sound(x), Sound(y), Mixed(e, x, y, HS, HR, HM), Apart(x, y, HS, HR, HM)
    PROVE  Sound(e)
<1>1. /\ \A s \in StockKey : e.stock[s] = IF s \in HS THEN y.stock[s] ELSE x.stock[s]
      /\ \A r \in ResKey : e.res[r] = IF r \in HR THEN y.res[r] ELSE x.res[r]
      /\ \A k \in OpKeys : e.mov[k] = IF k \in HM THEN y.mov[k] ELSE x.mov[k]
  BY DEF Mixed
<1>2. Typed(e)
  BY DEF Mixed, Sound, Typed
<1>3. Covered(e)
  BY <1>1 DEF Sound, Covered
<1>4. Counted(e)
  <2> SUFFICES ASSUME NEW s \in StockKey
               PROVE  /\ e.stock[s].reserved = Held(e.res, s)
                      /\ e.stock[s].onHand + Issued(e.mov, s) = Incoming(e.mov, s)
    BY DEF Counted
  <2>1. PICK z \in {x, y} : e.stock[s] = z.stock[s] /\ (s \in HS => z = y) /\ (s \notin HS => z = x)
    BY <1>1
  <2>2. ASSUME NEW r \in ResKey, e.res[r] # z.res[r]
        PROVE  /\ e.res[r] # NoRow => <<e.res[r].wh, r[2]>> # s
               /\ z.res[r] # NoRow => <<z.res[r].wh, r[2]>> # s
    <3>1. /\ e.res[r] \in {x.res[r], y.res[r]} /\ z.res[r] \in {x.res[r], y.res[r]}
          /\ x.res[r] # y.res[r] /\ ~(r \in HR <=> s \in HS)
      BY <1>1, <2>1, <2>2
    <3>2. \A row \in {x.res[r], y.res[r]} :
             row # NoRow => (r \in HR <=> <<row.wh, r[2]>> \in HS)
      BY <3>1 DEF Apart
    <3>3. QED
      BY <3>1, <3>2
  <2>3. ASSUME NEW k \in OpKeys, e.mov[k] # z.mov[k]
        PROVE  /\ e.mov[k] # NoRow => e.mov[k].stock # s
               /\ z.mov[k] # NoRow => z.mov[k].stock # s
    <3>1. /\ e.mov[k] \in {x.mov[k], y.mov[k]} /\ z.mov[k] \in {x.mov[k], y.mov[k]}
          /\ x.mov[k] # y.mov[k] /\ ~(k \in HM <=> s \in HS)
      BY <1>1, <2>1, <2>3
    <3>2. \A row \in {x.mov[k], y.mov[k]} : row # NoRow => (k \in HM <=> row.stock \in HS)
      BY <3>1 DEF Apart
    <3>3. QED
      BY <3>1, <3>2
  <2>4. HeldUnits(e.res, s) = HeldUnits(z.res, s)
    <3>1. ASSUME NEW u \in ResKey \X Qty
          PROVE  u \in HeldUnits(e.res, s) <=> u \in HeldUnits(z.res, s)
      <4>1. u[1] \in ResKey
        OBVIOUS
      <4>2. QED
        BY <4>1, <2>2 DEF HeldUnits
    <3>2. QED
      BY <3>1 DEF HeldUnits
  <2>5. ASSUME NEW types PROVE MovedUnits(e.mov, s, types) = MovedUnits(z.mov, s, types)
    <3>1. ASSUME NEW u \in OpKeys \X Qty
          PROVE  u \in MovedUnits(e.mov, s, types) <=> u \in MovedUnits(z.mov, s, types)
      <4>1. u[1] \in OpKeys
        OBVIOUS
      <4>2. QED
        BY <4>1, <2>3 DEF MovedUnits
    <3>2. QED
      BY <3>1 DEF MovedUnits
  <2>6. Held(e.res, s) = Held(z.res, s) /\ Issued(e.mov, s) = Issued(z.mov, s)
        /\ Incoming(e.mov, s) = Incoming(z.mov, s)
    BY <2>4, <2>5 DEF Held, Issued, Incoming
  <2>7. Counted(z)
    BY DEF Sound
  <2>8. QED
    BY <2>1, <2>6, <2>7 DEF Counted
<1>5. IssuedOnce(e.res, e.mov)
  <2>1. ASSUME NEW r \in ResKey, NEW z \in {x, y}, r \in HR => z = y, r \notin HR => z = x
        PROVE  /\ e.res[r] = z.res[r]
               /\ \A k \in OpKeys : IsIssueOf(e.mov, k, r) <=> IsIssueOf(z.mov, k, r)
               /\ \A k \in OpKeys : IsIssueOf(e.mov, k, r) => e.mov[k] = z.mov[k]
    <3>1. e.res[r] = z.res[r]
      BY <1>1, <2>1
    <3>2. ASSUME NEW k \in OpKeys, e.mov[k] # z.mov[k]
          PROVE  ~IsIssueOf(e.mov, k, r) /\ ~IsIssueOf(z.mov, k, r)
      <4>1. x.mov[k] # y.mov[k] /\ (k \in HM => z = x) /\ (k \notin HM => z = y)
        BY <1>1, <2>1, <3>2
      <4>2. /\ IsIssueOf(x.mov, k, r) \/ IsIssueOf(y.mov, k, r) => (k \in HM <=> r \in HR)
        BY <4>1 DEF Apart
      <4>3. e.mov[k] = x.mov[k] \/ e.mov[k] = y.mov[k]
        BY <1>1
      <4>4. x # y
        BY <4>1
      <4>5. ~(k \in HM <=> r \in HR)
        BY <2>1, <4>1, <4>4
      <4>6. QED
        BY <4>2, <4>3, <4>5 DEF IsIssueOf
    <3>3. QED
      BY <3>1, <3>2 DEF IsIssueOf
  <2>2. IssuedOnce(x.res, x.mov) /\ IssuedOnce(y.res, y.mov)
    BY DEF Sound
  <2>3. ASSUME NEW r \in ResKey
        PROVE  /\ (e.res[r] # NoRow /\ e.res[r].status = "FULFILLED")
                     <=> \E k \in OpKeys : IsIssueOf(e.mov, k, r)
               /\ \A k \in OpKeys :
                     IsIssueOf(e.mov, k, r) => /\ e.mov[k].qty = e.res[r].qty
                                               /\ e.mov[k].stock = <<e.res[r].wh, r[2]>>
               /\ \A k, l \in OpKeys : IsIssueOf(e.mov, k, r) /\ IsIssueOf(e.mov, l, r) => k = l
    <3>1. PICK z \in {x, y} : (r \in HR => z = y) /\ (r \notin HR => z = x)
      OBVIOUS
    <3>2. IssuedOnce(z.res, z.mov)
      BY <2>2
    <3>3. /\ e.res[r] = z.res[r]
          /\ \A k \in OpKeys : IsIssueOf(e.mov, k, r) <=> IsIssueOf(z.mov, k, r)
          /\ \A k \in OpKeys : IsIssueOf(e.mov, k, r) => e.mov[k] = z.mov[k]
      BY <2>1, <3>1
    <3>4. QED
      BY <3>2, <3>3 DEF IssuedOnce
  <2>4. QED
    BY <2>3 DEF IssuedOnce
<1>6. QED
  BY <1>2, <1>3, <1>4, <1>5 DEF Sound

\* The history of a history.
LEMMA ExtendsOn ==
    ASSUME NEW d, NEW e, NEW f, Typed(d), Extends(d, e), Extends(e, f)
    PROVE  Extends(d, f)
<1>1. ASSUME NEW r \in ResKey PROVE ReservationStep(d.res[r], f.res[r])
  <2>1. ReservationStep(d.res[r], e.res[r]) /\ ReservationStep(e.res[r], f.res[r])
    BY DEF Extends
  <2>2. CASE d.res[r] = NoRow \/ e.res[r] = d.res[r] \/ f.res[r] = e.res[r]
    BY <2>1, <2>2 DEF ReservationStep
  <2>3. CASE d.res[r] # NoRow /\ e.res[r] # d.res[r] /\ f.res[r] # e.res[r]
    <3>1. d.res[r] \in Reservation
      BY <2>3 DEF Typed, ReservationRow
    <3>2. /\ d.res[r].status = "RESERVED" /\ f.res[r] # NoRow
          /\ e.res[r] = [d.res[r] EXCEPT !.status = e.res[r].status]
          /\ f.res[r] = [e.res[r] EXCEPT !.status = f.res[r].status]
      BY <2>1, <2>3 DEF ReservationStep
    <3>3. f.res[r] = [d.res[r] EXCEPT !.status = f.res[r].status]
      BY <3>1, <3>2 DEF Reservation
    <3>4. QED
      BY <2>3, <3>2, <3>3 DEF ReservationStep
  <2>4. QED
    BY <2>2, <2>3
<1>2. ASSUME NEW k \in OpKeys PROVE MovementStep(d.mov[k], f.mov[k])
  BY DEF Extends, MovementStep
<1>3. QED
  BY <1>1, <1>2 DEF Extends

-----------------------------------------------------------------------------
(* What holds where.                                                       *)

\* The rows are the keys of the three tables.
LEMMA RowsOfTables ==
    /\ \A s \in StockKey : <<"stock", s>> \in Rows
    /\ \A r \in ResKey : <<"res", r>> \in Rows
    /\ \A k \in OpKeys : <<"mov", k>> \in Rows
  BY DEF Rows, Tables, Keys

\* A client that is in an operation has one.
LEMMA OpOf ==
    ASSUME TypeOK, NEW c \in Clients, tx[c].ops # <<>>
    PROVE  /\ Op(c) \in Operation /\ Op(c).qty \in Nat \ {0}
           /\ StockOf(c) \in StockKey /\ ResOf(c) \in ResKey
           /\ Tail(tx[c].ops) \in Seq(Operation)
<1>1. tx[c].ops \in Seq(Operation)
  BY DEF TypeOK
<1>2. Op(c) \in Operation /\ Tail(tx[c].ops) \in Seq(Operation)
  BY <1>1 DEF Op
<1>3. QED
  BY <1>2, MaxQtyAssumption DEF Operation, StockOf, ResOf, StockKey, ResKey, Qty

\* The tables, row by row.
LEMMA RowTypes ==
    ASSUME TypeOK
    PROVE  /\ \A s \in StockKey : /\ cur.stock[s] \in StockRow /\ db.stock[s] \in StockRow
                                  /\ cur.stock[s].onHand \in Nat /\ cur.stock[s].reserved \in Nat
           /\ \A r \in ResKey : cur.res[r] # NoRow =>
                 cur.res[r] \in Reservation /\ <<cur.res[r].wh, r[2]>> \in StockKey
                 /\ cur.res[r].qty \in Nat
           /\ \A k \in OpKeys : cur.mov[k] # NoRow =>
                 cur.mov[k] \in Movement /\ cur.mov[k].stock \in StockKey
<1>1. /\ cur.stock \in [StockKey -> StockRow] /\ db.stock \in [StockKey -> StockRow]
      /\ cur.res \in [ResKey -> ReservationRow] /\ cur.mov \in [OpKeys -> MovementRow]
  BY DEF TypeOK, Database
<1>2. QED
  BY <1>1, MaxQtyAssumption
     DEF StockRow, ReservationRow, MovementRow, Reservation, Movement, StockKey, ResKey, Qty

\* A reservation that its holder's operation found open.
LEMMA OpenRow ==
    ASSUME TypeOK, NEW c \in Clients, tx[c].ops # <<>>, HoldsOpen(c)
    PROVE  /\ HeldRow(c) \in StockKey /\ HeldQty(c) \in Nat
           /\ HeldRow(c) = <<cur.res[ResOf(c)].wh, ResOf(c)[2]>>
<1>1. ResOf(c) \in ResKey
  BY OpOf
<1>2. QED
  BY <1>1, RowTypes DEF HoldsOpen, HeldRow, HeldQty, ResOf

\* The row that an operation has yet to account for.
LEMMA TargetRow ==
    ASSUME IInv, NEW c \in Clients, tx[c].pc = "insert"
    PROVE  /\ tx[c].ops # <<>> /\ Target(c) \in StockKey /\ Holds(c, "stock", Target(c))
           /\ Op(c).type = "FULFIL" => HoldsOpen(c)
<1>1. TypeOK /\ Ready(c)
  BY DEF IInv
<1>2. tx[c].ops # <<>> /\ Holds(c, "stock", Target(c)) /\ (Op(c).type = "FULFIL" => HoldsOpen(c))
  BY <1>1 DEF Ready
<1>3. QED
  BY <1>1, <1>2, OpOf, OpenRow DEF Target

-----------------------------------------------------------------------------
(* Steps of one client beside the others.                                  *)

\* A step of c leaves alone what others hold, and where they are.
Beside(c) ==
    /\ owner' \in [Rows -> Clients \cup {Nobody}]
    /\ \A row \in Rows : IF owner[row] \in {c, Nobody} THEN owner'[row] \in {c, Nobody}
                         ELSE owner'[row] = owner[row]
    /\ cur' \in Database
    /\ \A s \in StockKey : owner[<<"stock", s>>] \notin {c, Nobody} => cur'.stock[s] = cur.stock[s]
    /\ \A r \in ResKey : owner[<<"res", r>>] \notin {c, Nobody} => cur'.res[r] = cur.res[r]
    /\ tx' \in [Clients -> [pc : PC, ops : Seq(Operation)]]
    /\ \A d \in Clients : d # c => tx'[d] = tx[d]

\* What another client holds, and the reservation it found open, stay.
LEMMA OthersHold ==
    ASSUME IInv, NEW c \in Clients, Beside(c), NEW d \in Clients, d # c
    PROVE  /\ tx'[d] = tx[d]
           /\ \A s \in StockKey : Holds(d, "stock", s) => Holds(d, "stock", s)'
           /\ \A r \in ResKey : Holds(d, "res", r) => Holds(d, "res", r)' /\ cur'.res[r] = cur.res[r]
           /\ \A s \in StockKey : Holds(d, "stock", s)' => Holds(d, "stock", s)
  BY RowsOfTables, NobodyAssumption DEF Beside, Holds

\* So it is ready for its next statement as before.
LEMMA OthersReady ==
    ASSUME IInv, NEW c \in Clients, Beside(c), NEW d \in Clients, d # c
    PROVE  Ready(d)'
<1>1. TypeOK /\ Ready(d)
  BY DEF IInv
<1>2. tx'[d] = tx[d]
  BY OthersHold
<1>3. /\ Op(d)' = Op(d) /\ StockOf(d)' = StockOf(d) /\ ResOf(d)' = ResOf(d)
      /\ Ends(d)' = Ends(d)
  BY <1>2 DEF Op, StockOf, ResOf, Ends
<1>4. ASSUME tx[d].ops # <<>>, HoldsOpen(d)
      PROVE  HoldsOpen(d)' /\ HeldRow(d)' = HeldRow(d)
  <2>1. ResOf(d) \in ResKey
    BY <1>1, <1>4, OpOf
  <2>2. Holds(d, "res", ResOf(d))
    BY <1>4 DEF HoldsOpen
  <2>3. owner'[<<"res", ResOf(d)>>] = d /\ cur'.res[ResOf(d)] = cur.res[ResOf(d)]
    BY <2>1, <2>2, OthersHold DEF Holds
  <2>4. QED
    BY <1>3, <1>4, <2>3 DEF HoldsOpen, HeldRow, Holds
<1>5. ASSUME tx[d].pc = "insert" PROVE Holds(d, "stock", Target(d))'
  <2>1. /\ tx[d].ops # <<>> /\ Target(d) \in StockKey /\ Holds(d, "stock", Target(d))
        /\ Op(d).type = "FULFIL" => HoldsOpen(d)
    BY <1>5, TargetRow
  <2>2. Target(d)' = Target(d)
    BY <1>3, <1>4, <2>1 DEF Target
  <2>3. owner'[<<"stock", Target(d)>>] = d
    BY <2>1, OthersHold DEF Holds
  <2>4. QED
    BY <2>2, <2>3 DEF Holds
<1>6. ASSUME tx[d].pc = "write", Op(d).type = "RESERVE", Holds(d, "stock", StockOf(d))
      PROVE  Holds(d, "stock", StockOf(d))'
  <2>1. StockOf(d) \in StockKey
    BY <1>1, <1>6, OpOf DEF Ready
  <2>2. owner'[<<"stock", StockOf(d)>>] = d
    BY <1>6, <2>1, OthersHold DEF Holds
  <2>3. QED
    BY <1>3, <2>2 DEF Holds
<1>7. QED
  BY <1>1, <1>2, <1>3, <1>4, <1>5, <1>6 DEF Ready

\* A row of the settled database is the stored one, but for what its holder has yet to
\* account for.
LEMMA SettledAt ==
    ASSUME NEW s \in StockKey
    PROVE  /\ owner[<<"stock", s>>] = Nobody => Settled.stock[s] = cur.stock[s]
           /\ \A c \in Clients : owner[<<"stock", s>>] = c =>
                 Settled.stock[s] = IF Unposted(c, s) THEN Before(c, s) ELSE cur.stock[s]
  BY NobodyAssumption DEF Settled, SettledRow, Unposted, Before, Target, HeldRow, HeldQty,
     StockOf, ResOf, Op, Adds

\* The same of the next state.
LEMMA SettledNext ==
    ASSUME NEW s \in StockKey
    PROVE  /\ owner'[<<"stock", s>>] = Nobody => Settled'.stock[s] = cur'.stock[s]
           /\ \A c \in Clients : owner'[<<"stock", s>>] = c =>
                 Settled'.stock[s] = IF Unposted(c, s)' THEN Before(c, s)' ELSE cur'.stock[s]
  BY NobodyAssumption DEF Settled, SettledRow, Unposted, Before, Target, HeldRow, HeldQty,
     StockOf, ResOf, Op, Adds

\* The tables of the settled database.
LEMMA SettledTables ==
    /\ Settled.res = cur.res /\ Settled.mov = cur.mov
    /\ Settled'.res = cur'.res /\ Settled'.mov = cur'.mov
    /\ DOMAIN Settled.stock = StockKey /\ DOMAIN Settled'.stock = StockKey
    /\ Settled.stock = [s \in StockKey |-> Settled.stock[s]]
    /\ Settled'.stock = [s \in StockKey |-> Settled'.stock[s]]
  BY DEF Settled

\* What others have yet to account for they still have to.
LEMMA OthersSettled ==
    ASSUME IInv, NEW c \in Clients, Beside(c), NEW s \in StockKey,
           owner[<<"stock", s>>] \notin {c, Nobody}
    PROVE  Settled'.stock[s] = Settled.stock[s]
<1>1. PICK d \in Clients : owner[<<"stock", s>>] = d /\ d # c
  BY RowsOfTables DEF IInv, TypeOK
<1>2. owner'[<<"stock", s>>] = d /\ cur'.stock[s] = cur.stock[s] /\ tx'[d] = tx[d]
  BY <1>1, RowsOfTables, NobodyAssumption DEF Beside
<1>3. /\ Op(d)' = Op(d) /\ StockOf(d)' = StockOf(d) /\ ResOf(d)' = ResOf(d)
      /\ Adds(d)' = Adds(d)
  BY <1>2 DEF Op, StockOf, ResOf, Adds
<1>4. ASSUME tx[d].pc = "insert"
      PROVE  (Unposted(d, s)' <=> Unposted(d, s)) /\ Before(d, s)' = Before(d, s)
  <2>1. tx[d].ops # <<>> /\ (Op(d).type = "FULFIL" => HoldsOpen(d))
    BY <1>4, TargetRow
  <2>2. ASSUME Op(d).type = "FULFIL"
        PROVE  HeldRow(d)' = HeldRow(d) /\ HeldQty(d)' = HeldQty(d)
    <3>1. ResOf(d) \in ResKey /\ Holds(d, "res", ResOf(d))
      BY <2>1, <2>2, OpOf DEF HoldsOpen, IInv
    <3>2. cur'.res[ResOf(d)] = cur.res[ResOf(d)]
      BY <1>1, <3>1, OthersHold
    <3>3. QED
      BY <1>3, <3>2 DEF HeldRow, HeldQty
  <2>3. QED
    BY <1>2, <1>3, <2>2 DEF Unposted, Before, Target
<1>5. CASE tx[d].pc = "insert"
  BY <1>1, <1>2, <1>4, <1>5, SettledAt, SettledNext
<1>6. CASE tx[d].pc # "insert"
  <2>1. ~Unposted(d, s) /\ ~Unposted(d, s)'
    BY <1>2, <1>6 DEF Unposted
  <2>2. QED
    BY <1>1, <1>2, <2>1, SettledAt, SettledNext
<1>7. QED
  BY <1>5, <1>6

\* A step in which c takes rows and writes rows that it holds, a reservation or a movement
\* together with the stock row.
Writes(c) ==
    /\ db' = db /\ usable' \subseteq StockKey
    /\ owner' \in [Rows -> Clients \cup {Nobody}]
    /\ \A row \in Rows : owner'[row] = owner[row] \/ (owner[row] = Nobody /\ owner'[row] = c)
    /\ cur' \in Database
    /\ \A s \in StockKey : cur'.stock[s] # cur.stock[s] => owner'[<<"stock", s>>] = c
    /\ \A r \in ResKey : cur'.res[r] # cur.res[r] =>
          /\ cur'.res[r] # NoRow
          /\ owner'[<<"res", r>>] = c /\ owner'[<<"stock", <<cur'.res[r].wh, r[2]>>>>] = c
    /\ \A k \in OpKeys : cur'.mov[k] # cur.mov[k] =>
          /\ cur'.mov[k] # NoRow
          /\ owner'[<<"mov", k>>] = c /\ owner'[<<"stock", cur'.mov[k].stock>>] = c
          /\ \A r \in ResKey : IsIssueOf(cur'.mov, k, r) => owner'[<<"res", r>>] = c
    /\ tx' \in [Clients -> [pc : PC, ops : Seq(Operation)]]
    /\ \A d \in Clients : d # c => tx'[d] = tx[d]

\* Such a step is beside the others.
LEMMA WritesBeside == ASSUME IInv, NEW c \in Clients, Writes(c) PROVE Beside(c)
  BY RowsOfTables, NobodyAssumption DEF Writes, Beside

\* It keeps the invariant if the settled database goes on soundly.
LEMMA WritesKeep ==
    ASSUME IInv, NEW c \in Clients, Writes(c), Covered(cur'), Ready(c)',
           Sound(Settled'), Extends(Settled, Settled')
    PROVE  IInv'
<1>1. TypeOK /\ TypeOK'
  BY DEF IInv, Writes, TypeOK
<1>2. \A d \in Clients : Ready(d)'
  BY WritesBeside, OthersReady
<1>3. Extends(db', Settled')
  <2>1. Typed(db) /\ Extends(db, Settled) /\ db' = db
    BY DEF IInv, Writes, Sound
  <2>2. QED
    BY <2>1, ExtendsOn
<1>4. FreeIsCommitted'
  BY RowsOfTables, NobodyAssumption DEF IInv, Writes, FreeIsCommitted
<1>5. WrittenWithStock'
  <2>1. ASSUME NEW r \in ResKey, cur'.res[r] # db.res[r]
        PROVE  owner'[<<"res", r>>] = owner'[<<"stock", <<cur'.res[r].wh, r[2]>>>>]
    <3>1. CASE cur'.res[r] # cur.res[r]
      BY <3>1 DEF Writes
    <3>2. CASE cur'.res[r] = cur.res[r]
      <4>1. cur.res[r] # db.res[r]
        BY <2>1, <3>2
      <4>2. owner[<<"res", r>>] # Nobody
            /\ owner[<<"res", r>>] = owner[<<"stock", <<cur.res[r].wh, r[2]>>>>]
        BY <4>1 DEF IInv, FreeIsCommitted, WrittenWithStock
      <4>3. cur.res[r] # NoRow
        BY <4>1, SettledTables DEF IInv, Extends, ReservationStep
      <4>4. <<cur.res[r].wh, r[2]>> \in StockKey
        BY <1>1, <4>3, RowTypes
      <4>5. QED
        BY <3>2, <4>2, <4>4, RowsOfTables DEF Writes
    <3>3. QED
      BY <3>1, <3>2
  <2>2. ASSUME NEW k \in OpKeys, cur'.mov[k] # db.mov[k]
        PROVE  /\ owner'[<<"mov", k>>] = owner'[<<"stock", cur'.mov[k].stock>>]
               /\ \A r \in ResKey :
                     IsIssueOf(cur'.mov, k, r) => owner'[<<"res", r>>] = owner'[<<"mov", k>>]
    <3>1. CASE cur'.mov[k] # cur.mov[k]
      BY <3>1 DEF Writes
    <3>2. CASE cur'.mov[k] = cur.mov[k]
      <4>1. cur.mov[k] # db.mov[k]
        BY <2>2, <3>2
      <4>2. /\ owner[<<"mov", k>>] # Nobody
            /\ owner[<<"mov", k>>] = owner[<<"stock", cur.mov[k].stock>>]
            /\ \A r \in ResKey :
                  IsIssueOf(cur.mov, k, r) => owner[<<"res", r>>] = owner[<<"mov", k>>]
        BY <4>1 DEF IInv, FreeIsCommitted, WrittenWithStock
      <4>3. cur.mov[k] # NoRow
        BY <4>1, SettledTables DEF IInv, Extends, MovementStep
      <4>4. cur.mov[k].stock \in StockKey
        BY <1>1, <4>3, RowTypes
      <4>5. \A r \in ResKey : IsIssueOf(cur'.mov, k, r) <=> IsIssueOf(cur.mov, k, r)
        BY <3>2 DEF IsIssueOf
      <4>6. \A row \in Rows : owner[row] # Nobody => owner'[row] = owner[row]
        BY DEF Writes
      <4>7. QED
        BY <3>2, <4>2, <4>4, <4>5, <4>6, RowsOfTables
    <3>3. QED
      BY <3>1, <3>2
  <2>3. db' = db
    BY DEF Writes
  <2>4. QED
    BY <2>1, <2>2, <2>3 DEF WrittenWithStock
<1>6. Sound(db') /\ Sound(Settled')
  BY DEF IInv, Writes
<1>7. QED
  BY <1>1, <1>2, <1>3, <1>4, <1>5, <1>6 DEF IInv

-----------------------------------------------------------------------------
(* Where a client goes.                                                    *)

\* A step that leaves every settled row as it was.
LEMMA SameSettled ==
    ASSUME Sound(Settled), cur'.res = cur.res, cur'.mov = cur.mov,
           \A s \in StockKey : Settled'.stock[s] = Settled.stock[s]
    PROVE  Sound(Settled') /\ Extends(Settled, Settled')
<1>1. Settled'.stock = Settled.stock /\ Settled'.res = Settled.res /\ Settled'.mov = Settled.mov
  BY SettledTables
<1>2. Sound(Settled')
  BY <1>1, SoundTables
<1>3. Extends(Settled, Settled')
  BY <1>1 DEF Extends, ReservationStep, MovementStep
<1>4. QED
  BY <1>2, <1>3

\* The next statement of the same operation.
LEMMA GoToDoes ==
    ASSUME TypeOK, NEW c \in Clients, NEW pc \in PC, GoTo(c, pc)
    PROVE  /\ tx' \in [Clients -> [pc : PC, ops : Seq(Operation)]]
           /\ \A d \in Clients : d # c => tx'[d] = tx[d]
           /\ tx'[c].pc = pc /\ tx'[c].ops = tx[c].ops
           /\ Op(c)' = Op(c) /\ StockOf(c)' = StockOf(c) /\ ResOf(c)' = ResOf(c)
           /\ Ends(c)' = Ends(c) /\ Adds(c)' = Adds(c)
<1>1. tx \in [Clients -> [pc : PC, ops : Seq(Operation)]]
  BY DEF TypeOK
<1>2. /\ tx' \in [Clients -> [pc : PC, ops : Seq(Operation)]]
      /\ \A d \in Clients : d # c => tx'[d] = tx[d]
      /\ tx'[c].pc = pc /\ tx'[c].ops = tx[c].ops
  BY <1>1 DEF GoTo
<1>3. QED
  BY <1>2 DEF Op, StockOf, ResOf, Ends, Adds

\* A request enters its operations where their first statement is.
LEMMA EntryOf ==
    ASSUME NEW op \in Operation
    PROVE  /\ Entry(op) \in PC \ {"idle", "insert", "commit"}
           /\ Entry(op) = IF op.type \in {"RELEASE", "FULFIL"} THEN "lockres" ELSE "find"
  BY DEF Entry, PC

\* The next operation, or the end of the request.
LEMMA ReturnDoes ==
    ASSUME TypeOK, NEW c \in Clients, tx[c].ops # <<>>, Return(c)
    PROVE  /\ tx' \in [Clients -> [pc : PC, ops : Seq(Operation)]]
           /\ \A d \in Clients : d # c => tx'[d] = tx[d]
           /\ tx'[c].pc # "insert" /\ Ready(c)'
<1> DEFINE rest == Tail(tx[c].ops)
           there == [pc |-> IF rest = <<>> THEN "commit" ELSE Entry(Head(rest)), ops |-> rest]
<1>1. rest \in Seq(Operation) /\ tx \in [Clients -> [pc : PC, ops : Seq(Operation)]]
  BY OpOf DEF TypeOK
<1>2. rest # <<>> => Head(rest) \in Operation
  BY <1>1
<1>3. tx' = [tx EXCEPT ![c] = there]
  BY DEF Return
<1>4. there.ops = rest /\ there.pc = IF rest = <<>> THEN "commit" ELSE Entry(Head(rest))
  OBVIOUS
<1>5. there \in [pc : PC, ops : Seq(Operation)]
  BY <1>1, <1>2, EntryOf DEF PC
<1> HIDE DEF there
<1>6. /\ tx' \in [Clients -> [pc : PC, ops : Seq(Operation)]]
      /\ \A d \in Clients : d # c => tx'[d] = tx[d]
      /\ tx'[c] = there
  BY <1>1, <1>3, <1>5
<1>7. CASE rest = <<>>
  BY <1>4, <1>6, <1>7 DEF Ready
<1>8. CASE rest # <<>>
  <2>1. Op(c)' = Head(rest) /\ tx'[c].ops # <<>>
    BY <1>4, <1>6, <1>8 DEF Op
  <2>2. Head(rest) \in Operation /\ tx'[c].pc = Entry(Head(rest))
    BY <1>2, <1>4, <1>6, <1>8
  <2>3. CASE Head(rest).type \in {"RELEASE", "FULFIL"}
    BY <1>6, <2>1, <2>2, <2>3, EntryOf DEF Ready, Ends
  <2>4. CASE Head(rest).type \notin {"RELEASE", "FULFIL"}
    BY <1>6, <2>1, <2>2, <2>4, EntryOf DEF Ready, Ends
  <2>5. QED
    BY <2>3, <2>4
<1>9. QED
  BY <1>7, <1>8

\* A step in which c at most takes a row, and leaves nothing to account for.
LEMMA QuietKeeps ==
    ASSUME IInv, NEW c \in Clients, UNCHANGED <<db, cur, usable>>,
           owner' \in [Rows -> Clients \cup {Nobody}],
           \A row \in Rows : owner'[row] = owner[row] \/ (owner[row] = Nobody /\ owner'[row] = c),
           tx' \in [Clients -> [pc : PC, ops : Seq(Operation)]],
           \A d \in Clients : d # c => tx'[d] = tx[d],
           tx[c].pc # "insert", tx'[c].pc # "insert", Ready(c)'
    PROVE  IInv'
<1>1. Writes(c)
  BY DEF Writes, IInv, TypeOK
<1>2. \A s \in StockKey : Settled'.stock[s] = Settled.stock[s]
  <2>1. SUFFICES ASSUME NEW s \in StockKey, owner[<<"stock", s>>] \in {c, Nobody}
                 PROVE  Settled'.stock[s] = Settled.stock[s]
    BY <1>1, WritesBeside, OthersSettled
  <2>2. ~Unposted(c, s) /\ ~Unposted(c, s)'
    BY DEF Unposted
  <2>3. owner'[<<"stock", s>>] \in {c, Nobody}
    BY <2>1, RowsOfTables
  <2>4. Settled.stock[s] = cur.stock[s]
    BY <2>1, <2>2, SettledAt
  <2>5. Settled'.stock[s] = cur'.stock[s]
    BY <2>2, <2>3, SettledNext
  <2>6. QED
    BY <2>4, <2>5
<1>3. Sound(Settled') /\ Extends(Settled, Settled')
  BY <1>2, SameSettled DEF IInv
<1>4. Covered(cur')
  BY DEF IInv
<1>5. QED
  BY <1>1, <1>3, <1>4, WritesKeep

\* Taking a row that is free or one's own.
LEMMA TakeDoes ==
    ASSUME TypeOK, NEW c \in Clients, NEW t, NEW k, <<t, k>> \in Rows, CanTake(c, t, k),
           Take(c, t, k)
    PROVE  /\ owner' \in [Rows -> Clients \cup {Nobody}]
           /\ \A row \in Rows : owner'[row] = owner[row] \/ (owner[row] = Nobody /\ owner'[row] = c)
           /\ owner'[<<t, k>>] = c
           /\ \A row \in Rows : owner[row] = c => owner'[row] = c
  BY DEF TypeOK, CanTake, Take

-----------------------------------------------------------------------------
(* The ends of a transaction.                                              *)

\* The rows that c holds, in each table.
HeldStock(c) == {s \in StockKey : Holds(c, "stock", s)}
HeldRes(c) == {r \in ResKey : Holds(c, "res", r)}
HeldMov(c) == {k \in OpKeys : Holds(c, "mov", k)}

\* An overlay is a database mixed of two.
LEMMA OverlayMixes ==
    ASSUME NEW c, NEW x \in Database, NEW y \in Database, NEW e, e = Overlay(c, x, y)
    PROVE  e \in Database /\ Mixed(e, x, y, HeldStock(c), HeldRes(c), HeldMov(c))
<1>1. /\ e.stock = [s \in StockKey |-> IF Holds(c, "stock", s) THEN y.stock[s] ELSE x.stock[s]]
      /\ e.res = [r \in ResKey |-> IF Holds(c, "res", r) THEN y.res[r] ELSE x.res[r]]
      /\ e.mov = [k \in OpKeys |-> IF Holds(c, "mov", k) THEN y.mov[k] ELSE x.mov[k]]
  BY DEF Overlay, Tables, Keys
<1>2. /\ x.stock \in [StockKey -> StockRow] /\ y.stock \in [StockKey -> StockRow]
      /\ x.res \in [ResKey -> ReservationRow] /\ y.res \in [ResKey -> ReservationRow]
      /\ x.mov \in [OpKeys -> MovementRow] /\ y.mov \in [OpKeys -> MovementRow]
  BY DEF Database
<1>3. /\ e.stock \in [StockKey -> StockRow] /\ e.res \in [ResKey -> ReservationRow]
      /\ e.mov \in [OpKeys -> MovementRow]
  BY <1>1, <1>2
<1>4. e = [t \in {"stock", "res", "mov"} |-> e[t]]
  BY DEF Overlay, Tables
<1>5. e \in Database
  BY <1>3, <1>4 DEF Database
<1>6. QED
  BY <1>1, <1>5 DEF Mixed, HeldStock, HeldRes, HeldMov

\* In the rows that one client holds, what is settled differs from what is committed
\* only together.
LEMMA HeldApart ==
    ASSUME IInv, NEW c \in Clients
    PROVE  /\ Apart(db, Settled, HeldStock(c), HeldRes(c), HeldMov(c))
           /\ Apart(Settled, db, HeldStock(c), HeldRes(c), HeldMov(c))
<1>1. TypeOK /\ Extends(db, Settled) /\ Settled.res = cur.res /\ Settled.mov = cur.mov
  BY SettledTables DEF IInv
<1>2. ASSUME NEW r \in ResKey, cur.res[r] # db.res[r]
      PROVE  /\ cur.res[r] # NoRow => (r \in HeldRes(c) <=> <<cur.res[r].wh, r[2]>> \in HeldStock(c))
             /\ db.res[r] # NoRow => (r \in HeldRes(c) <=> <<db.res[r].wh, r[2]>> \in HeldStock(c))
  <2>1. owner[<<"res", r>>] = owner[<<"stock", <<cur.res[r].wh, r[2]>>>>]
    BY <1>2 DEF IInv, WrittenWithStock
  <2>2. ReservationStep(db.res[r], cur.res[r])
    BY <1>1 DEF Extends
  <2>3. cur.res[r] # NoRow
    BY <1>2, <2>2 DEF ReservationStep
  <2>4. <<cur.res[r].wh, r[2]>> \in StockKey
    BY <1>1, <2>3, RowTypes
  <2>5. r \in HeldRes(c) <=> <<cur.res[r].wh, r[2]>> \in HeldStock(c)
    BY <2>1, <2>4 DEF HeldRes, HeldStock, Holds
  <2>6. db.res[r] # NoRow => cur.res[r].wh = db.res[r].wh
    <3>1. SUFFICES ASSUME db.res[r] # NoRow PROVE cur.res[r].wh = db.res[r].wh
      OBVIOUS
    <3>2. db.res[r] \in Reservation
      BY <1>1, <3>1 DEF TypeOK, Database, ReservationRow
    <3>3. cur.res[r] = [db.res[r] EXCEPT !.status = cur.res[r].status]
      BY <1>2, <2>2, <3>1 DEF ReservationStep
    <3>4. QED
      BY <3>2, <3>3 DEF Reservation
  <2>7. QED
    BY <2>3, <2>5, <2>6
<1>3. ASSUME NEW k \in OpKeys, cur.mov[k] # db.mov[k]
      PROVE  /\ db.mov[k] = NoRow
             /\ cur.mov[k] # NoRow => (k \in HeldMov(c) <=> cur.mov[k].stock \in HeldStock(c))
             /\ \A r \in ResKey :
                   IsIssueOf(cur.mov, k, r) \/ IsIssueOf(db.mov, k, r)
                      => (k \in HeldMov(c) <=> r \in HeldRes(c))
  <2>1. db.mov[k] = NoRow
    BY <1>1, <1>3 DEF Extends, MovementStep
  <2>2. cur.mov[k] # NoRow => cur.mov[k].stock \in StockKey
    BY <1>1, RowTypes
  <2>3. /\ owner[<<"mov", k>>] = owner[<<"stock", cur.mov[k].stock>>]
        /\ \A r \in ResKey : IsIssueOf(cur.mov, k, r) => owner[<<"res", r>>] = owner[<<"mov", k>>]
    BY <1>3 DEF IInv, WrittenWithStock
  <2>4. \A r \in ResKey : ~IsIssueOf(db.mov, k, r)
    BY <2>1 DEF IsIssueOf
  <2>5. QED
    BY <2>1, <2>2, <2>3, <2>4 DEF HeldMov, HeldStock, HeldRes, Holds
<1>4. \A k \in OpKeys, r \in ResKey :
         /\ IsIssueOf(Settled.mov, k, r) <=> IsIssueOf(cur.mov, k, r)
  BY <1>1 DEF IsIssueOf
<1>5. QED
  BY <1>1, <1>2, <1>3, <1>4 DEF Apart

\* Rows are given back, and where the client was is forgotten.
LEMMA EndDoes ==
    ASSUME TypeOK, NEW c \in Clients, ReleaseRows(c), tx' = [tx EXCEPT ![c] = Idle]
    PROVE  /\ owner' \in [Rows -> Clients \cup {Nobody}]
           /\ \A row \in Rows : owner'[row] = IF owner[row] = c THEN Nobody ELSE owner[row]
           /\ tx' \in [Clients -> [pc : PC, ops : Seq(Operation)]]
           /\ \A d \in Clients : d # c => tx'[d] = tx[d]
           /\ tx'[c].pc = "idle" /\ Ready(c)'
<1>1. Idle \in [pc : PC, ops : Seq(Operation)] /\ Idle.pc = "idle"
  BY DEF Idle, PC
<1>2. /\ tx' \in [Clients -> [pc : PC, ops : Seq(Operation)]]
      /\ \A d \in Clients : d # c => tx'[d] = tx[d]
      /\ tx'[c].pc = "idle"
  BY <1>1 DEF TypeOK
<1>3. Ready(c)'
  BY <1>2 DEF Ready
<1>4. QED
  BY <1>2, <1>3 DEF TypeOK, ReleaseRows

\* A transaction that is rolled back leaves the others' work, and its own is gone.
LEMMA RollbackKeeps ==
    ASSUME IInv, NEW c \in Clients, Rollback(c)
    PROVE  IInv'
<1> DEFINE HS == HeldStock(c)
           HR == HeldRes(c)
           HM == HeldMov(c)
<1>1. TypeOK /\ UNCHANGED <<db, usable>>
  BY DEF IInv, Rollback
<1>2. /\ owner' \in [Rows -> Clients \cup {Nobody}]
      /\ \A row \in Rows : owner'[row] = IF owner[row] = c THEN Nobody ELSE owner[row]
      /\ tx' \in [Clients -> [pc : PC, ops : Seq(Operation)]]
      /\ \A d \in Clients : d # c => tx'[d] = tx[d]
      /\ tx'[c].pc = "idle" /\ Ready(c)'
  BY <1>1, EndDoes DEF Rollback
<1>3. cur' \in Database /\ Mixed(cur', cur, db, HS, HR, HM)
  BY <1>1, OverlayMixes DEF Rollback, TypeOK
<1>4. /\ \A s \in StockKey : cur'.stock[s] = IF Holds(c, "stock", s) THEN db.stock[s] ELSE cur.stock[s]
      /\ \A r \in ResKey : cur'.res[r] = IF Holds(c, "res", r) THEN db.res[r] ELSE cur.res[r]
      /\ \A k \in OpKeys : cur'.mov[k] = IF Holds(c, "mov", k) THEN db.mov[k] ELSE cur.mov[k]
  BY <1>3 DEF Mixed, HeldStock, HeldRes, HeldMov
<1>5. Beside(c)
  BY <1>2, <1>3, <1>4, RowsOfTables, NobodyAssumption DEF Beside, Holds
<1>6. Mixed(Settled', Settled, db, HS, HR, HM)
  <2>1. ASSUME NEW s \in StockKey
        PROVE  Settled'.stock[s] = IF s \in HS THEN db.stock[s] ELSE Settled.stock[s]
    <3>1. CASE Holds(c, "stock", s)
      <4>1. owner'[<<"stock", s>>] = Nobody
        BY <1>2, <3>1, RowsOfTables DEF Holds
      <4>2. QED
        BY <1>4, <3>1, <4>1, SettledNext DEF HeldStock
    <3>2. CASE owner[<<"stock", s>>] = Nobody
      <4>1. owner'[<<"stock", s>>] = Nobody /\ ~Holds(c, "stock", s)
        BY <1>2, <3>2, RowsOfTables, NobodyAssumption DEF Holds
      <4>2. QED
        BY <1>4, <3>2, <4>1, SettledAt, SettledNext DEF HeldStock
    <3>3. CASE owner[<<"stock", s>>] \notin {c, Nobody}
      BY <1>5, <3>3, OthersSettled DEF HeldStock, Holds
    <3>4. QED
      BY <3>1, <3>2, <3>3 DEF Holds
  <2>2. Settled'.stock = [s \in StockKey |-> IF s \in HS THEN db.stock[s] ELSE Settled.stock[s]]
    BY <2>1, SettledTables
  <2>3. QED
    BY <1>3, <2>2, SettledTables DEF Mixed
<1>7. Sound(Settled')
  BY <1>6, HeldApart, MixSound DEF IInv
<1>8. Extends(db', Settled')
  <2>1. Extends(db, Settled) /\ Extends(db, db)
    BY ExtendsItself DEF IInv
  <2>2. QED
    BY <1>1, <1>6, <2>1 DEF Extends, Mixed
<1>9. Covered(cur')
  <2>1. Covered(cur) /\ Covered(db)
    BY DEF IInv, Sound
  <2>2. QED
    BY <1>4, <2>1 DEF Covered
<1>10. FreeIsCommitted'
  <2>1. FreeIsCommitted
    BY DEF IInv
  <2>2. QED
    BY <1>1, <1>2, <1>4, <2>1, RowsOfTables DEF FreeIsCommitted, Holds
<1>11. WrittenWithStock'
  <2>1. WrittenWithStock /\ FreeIsCommitted /\ Extends(db, Settled)
    BY DEF IInv
  <2>2. ASSUME NEW r \in ResKey, cur'.res[r] # db.res[r]
        PROVE  owner'[<<"res", r>>] = owner'[<<"stock", <<cur'.res[r].wh, r[2]>>>>]
    <3>1. ~Holds(c, "res", r) /\ cur'.res[r] = cur.res[r] /\ cur.res[r] # db.res[r]
      BY <1>4, <2>2
    <3>2. cur.res[r] # NoRow
      BY <2>1, <3>1, SettledTables DEF Extends, ReservationStep
    <3>3. <<cur.res[r].wh, r[2]>> \in StockKey
      BY <1>1, <3>2, RowTypes
    <3>4. owner[<<"res", r>>] = owner[<<"stock", <<cur.res[r].wh, r[2]>>>>]
      BY <2>1, <3>1 DEF WrittenWithStock
    <3>5. QED
      BY <1>2, <3>1, <3>3, <3>4, RowsOfTables DEF Holds
  <2>3. ASSUME NEW k \in OpKeys, cur'.mov[k] # db.mov[k]
        PROVE  /\ owner'[<<"mov", k>>] = owner'[<<"stock", cur'.mov[k].stock>>]
               /\ \A r \in ResKey :
                     IsIssueOf(cur'.mov, k, r) => owner'[<<"res", r>>] = owner'[<<"mov", k>>]
    <3>1. ~Holds(c, "mov", k) /\ cur'.mov[k] = cur.mov[k] /\ cur.mov[k] # db.mov[k]
      BY <1>4, <2>3
    <3>2. cur.mov[k] # NoRow
      BY <2>1, <3>1, SettledTables DEF Extends, MovementStep
    <3>3. cur.mov[k].stock \in StockKey
      BY <1>1, <3>2, RowTypes
    <3>4. /\ owner[<<"mov", k>>] = owner[<<"stock", cur.mov[k].stock>>]
          /\ \A r \in ResKey : IsIssueOf(cur.mov, k, r) => owner[<<"res", r>>] = owner[<<"mov", k>>]
      BY <2>1, <3>1 DEF WrittenWithStock
    <3>5. \A r \in ResKey : IsIssueOf(cur'.mov, k, r) <=> IsIssueOf(cur.mov, k, r)
      BY <3>1 DEF IsIssueOf
    <3>6. QED
      BY <1>2, <3>1, <3>3, <3>4, <3>5, RowsOfTables DEF Holds
  <2>4. QED
    BY <1>1, <2>2, <2>3 DEF WrittenWithStock
<1>12. \A d \in Clients : Ready(d)'
  BY <1>2, <1>5, OthersReady
<1>13. TypeOK' /\ Sound(db')
  BY <1>1, <1>2, <1>3 DEF IInv, TypeOK
<1>14. QED
  BY <1>7, <1>8, <1>9, <1>10, <1>11, <1>12, <1>13 DEF IInv

\* A transaction commits the work of complete operations only, and leaves the others'.
LEMMA CommitKeeps ==
    ASSUME IInv, NEW c \in Clients, CommitTx(c)
    PROVE  IInv' /\ Extends(db, db')
<1> DEFINE HS == HeldStock(c)
           HR == HeldRes(c)
           HM == HeldMov(c)
<1>1. TypeOK /\ UNCHANGED <<cur, usable>> /\ tx[c].pc = "commit"
  BY DEF IInv, CommitTx
<1>2. /\ owner' \in [Rows -> Clients \cup {Nobody}]
      /\ \A row \in Rows : owner'[row] = IF owner[row] = c THEN Nobody ELSE owner[row]
      /\ tx' \in [Clients -> [pc : PC, ops : Seq(Operation)]]
      /\ \A d \in Clients : d # c => tx'[d] = tx[d]
      /\ tx'[c].pc = "idle" /\ Ready(c)'
  BY <1>1, EndDoes DEF CommitTx
<1>3. db' \in Database /\ Mixed(db', db, cur, HS, HR, HM)
  BY <1>1, OverlayMixes DEF CommitTx, TypeOK
<1>4. /\ \A r \in ResKey : db'.res[r] = IF Holds(c, "res", r) THEN cur.res[r] ELSE db.res[r]
      /\ \A k \in OpKeys : db'.mov[k] = IF Holds(c, "mov", k) THEN cur.mov[k] ELSE db.mov[k]
      /\ \A s \in StockKey : db'.stock[s] = IF Holds(c, "stock", s) THEN cur.stock[s] ELSE db.stock[s]
  BY <1>3 DEF Mixed, HeldStock, HeldRes, HeldMov
<1>5. Beside(c)
  <2>1. cur' \in Database
    BY <1>1 DEF TypeOK
  <2>2. QED
    BY <1>1, <1>2, <2>1, NobodyAssumption DEF Beside, TypeOK
<1>6. \A s \in StockKey : Holds(c, "stock", s) => Settled.stock[s] = cur.stock[s]
  <2>1. ASSUME NEW s \in StockKey PROVE ~Unposted(c, s)
    BY <1>1 DEF Unposted
  <2>2. QED
    BY <2>1, SettledAt DEF Holds
<1>7. ASSUME NEW s \in StockKey PROVE Settled'.stock[s] = Settled.stock[s]
  <2>1. CASE owner[<<"stock", s>>] \in {c, Nobody}
    <3>1. owner'[<<"stock", s>>] = Nobody
      BY <1>2, <2>1, RowsOfTables
    <3>2. Settled.stock[s] = cur.stock[s]
      BY <1>6, <2>1, SettledAt DEF Holds
    <3>3. QED
      BY <1>1, <3>1, <3>2, SettledNext
  <2>2. CASE owner[<<"stock", s>>] \notin {c, Nobody}
    BY <1>5, <2>2, OthersSettled
  <2>3. QED
    BY <2>1, <2>2
<1>8. Sound(Settled')
  BY <1>1, <1>7, SameSettled DEF IInv
<1>9. Mixed(db', db, Settled, HS, HR, HM)
  <2>1. \A s \in StockKey : (IF s \in HS THEN cur.stock[s] ELSE db.stock[s])
                              = IF s \in HS THEN Settled.stock[s] ELSE db.stock[s]
    BY <1>6 DEF HeldStock
  <2>2. db'.stock = [s \in StockKey |-> IF s \in HS THEN Settled.stock[s] ELSE db.stock[s]]
    BY <1>3, <2>1 DEF Mixed
  <2>3. QED
    BY <1>3, <2>2, SettledTables DEF Mixed
<1>10. Sound(db')
  BY <1>9, HeldApart, MixSound DEF IInv
<1>11. Extends(db, db') /\ Extends(db', Settled')
  <2>1. /\ \A r \in ResKey : ReservationStep(db.res[r], cur.res[r])
        /\ \A k \in OpKeys : MovementStep(db.mov[k], cur.mov[k])
    BY SettledTables DEF IInv, Extends
  <2>2. Settled'.res = cur.res /\ Settled'.mov = cur.mov
    BY <1>1, SettledTables
  <2>3. \A row : ReservationStep(row, row) /\ MovementStep(row, row)
    BY DEF ReservationStep, MovementStep
  <2>4. ASSUME NEW r \in ResKey
        PROVE  ReservationStep(db.res[r], db'.res[r]) /\ ReservationStep(db'.res[r], cur.res[r])
    <3>1. db'.res[r] = cur.res[r] \/ db'.res[r] = db.res[r]
      BY <1>4
    <3>2. QED
      BY <2>1, <2>3, <3>1
  <2>5. ASSUME NEW k \in OpKeys
        PROVE  MovementStep(db.mov[k], db'.mov[k]) /\ MovementStep(db'.mov[k], cur.mov[k])
    <3>1. db'.mov[k] = cur.mov[k] \/ db'.mov[k] = db.mov[k]
      BY <1>4
    <3>2. QED
      BY <2>1, <2>3, <3>1
  <2>6. QED
    BY <2>2, <2>4, <2>5 DEF Extends
<1>12. FreeIsCommitted'
  <2>1. FreeIsCommitted
    BY DEF IInv
  <2>2. QED
    BY <1>1, <1>2, <1>4, <2>1, RowsOfTables DEF FreeIsCommitted, Holds
<1>13. WrittenWithStock'
  <2>1. WrittenWithStock /\ Extends(db, Settled)
    BY DEF IInv
  <2>2. ASSUME NEW r \in ResKey, cur.res[r] # db'.res[r]
        PROVE  owner'[<<"res", r>>] = owner'[<<"stock", <<cur.res[r].wh, r[2]>>>>]
    <3>1. ~Holds(c, "res", r) /\ cur.res[r] # db.res[r]
      BY <1>4, <2>2
    <3>2. cur.res[r] # NoRow
      BY <2>1, <3>1, SettledTables DEF Extends, ReservationStep
    <3>3. <<cur.res[r].wh, r[2]>> \in StockKey
      BY <1>1, <3>2, RowTypes
    <3>4. owner[<<"res", r>>] = owner[<<"stock", <<cur.res[r].wh, r[2]>>>>]
      BY <2>1, <3>1 DEF WrittenWithStock
    <3>5. QED
      BY <1>2, <3>1, <3>3, <3>4, RowsOfTables DEF Holds
  <2>3. ASSUME NEW k \in OpKeys, cur.mov[k] # db'.mov[k]
        PROVE  /\ owner'[<<"mov", k>>] = owner'[<<"stock", cur.mov[k].stock>>]
               /\ \A r \in ResKey :
                     IsIssueOf(cur.mov, k, r) => owner'[<<"res", r>>] = owner'[<<"mov", k>>]
    <3>1. ~Holds(c, "mov", k) /\ cur.mov[k] # db.mov[k]
      BY <1>4, <2>3
    <3>2. cur.mov[k] # NoRow
      BY <2>1, <3>1, SettledTables DEF Extends, MovementStep
    <3>3. cur.mov[k].stock \in StockKey
      BY <1>1, <3>2, RowTypes
    <3>4. /\ owner[<<"mov", k>>] = owner[<<"stock", cur.mov[k].stock>>]
          /\ \A r \in ResKey : IsIssueOf(cur.mov, k, r) => owner[<<"res", r>>] = owner[<<"mov", k>>]
      BY <2>1, <3>1 DEF WrittenWithStock
    <3>5. QED
      BY <1>2, <3>1, <3>3, <3>4, RowsOfTables DEF Holds
  <2>4. QED
    BY <1>1, <2>2, <2>3 DEF WrittenWithStock
<1>14. \A d \in Clients : Ready(d)'
  BY <1>2, <1>5, OthersReady
<1>15. TypeOK' /\ Covered(cur')
  BY <1>1, <1>2, <1>3 DEF IInv, TypeOK
<1>16. QED
  BY <1>8, <1>10, <1>11, <1>12, <1>13, <1>14, <1>15 DEF IInv

-----------------------------------------------------------------------------
(* The statements that write nothing.                                      *)

\* A client inside an operation has one.
LEMMA Inside ==
    ASSUME IInv, NEW c \in Clients, tx[c].pc \notin {"idle", "commit"}
    PROVE  TypeOK /\ Ready(c) /\ tx[c].ops # <<>>
  BY DEF IInv, Ready

\* An operation that is answered without having written anything.
LEMMA AnswerKeeps ==
    ASSUME IInv, NEW c \in Clients, tx[c].ops # <<>>, tx[c].pc # "insert", Return(c),
           UNCHANGED <<db, cur, usable>>,
           owner' \in [Rows -> Clients \cup {Nobody}],
           \A row \in Rows : owner'[row] = owner[row] \/ (owner[row] = Nobody /\ owner'[row] = c)
    PROVE  IInv'
<1>1. /\ tx' \in [Clients -> [pc : PC, ops : Seq(Operation)]]
      /\ \A d \in Clients : d # c => tx'[d] = tx[d]
      /\ tx'[c].pc # "insert" /\ Ready(c)'
  BY ReturnDoes DEF IInv
<1>2. QED
  BY <1>1, QuietKeeps

\* The owners of the rows, when no row is taken.
LEMMA OwnersStay ==
    ASSUME IInv, NEW c, UNCHANGED owner
    PROVE  /\ owner' \in [Rows -> Clients \cup {Nobody}]
           /\ \A row \in Rows : owner'[row] = owner[row] \/ (owner[row] = Nobody /\ owner'[row] = c)
  BY DEF IInv, TypeOK

\* A request begins.
LEMMA BeginKeeps == ASSUME IInv, NEW c \in Clients, Begin(c) PROVE IInv'
<1>1. PICK r \in Requests : tx' = [tx EXCEPT ![c] = [pc |-> Entry(Head(r)), ops |-> r]]
  BY DEF Begin
<1>2. TypeOK /\ UNCHANGED <<db, cur, owner, usable>> /\ tx[c].pc = "idle"
  BY DEF IInv, Begin
<1>3. r \in Seq(Operation) /\ r # <<>> /\ Head(r) \in Operation
  BY RequestsAssumption
<1> DEFINE there == [pc |-> Entry(Head(r)), ops |-> r]
<1>4. there \in [pc : PC, ops : Seq(Operation)]
  BY <1>3, EntryOf
<1>5. there.ops = r /\ there.pc = Entry(Head(r))
  OBVIOUS
<1>6. tx' = [tx EXCEPT ![c] = there]
  BY <1>1
<1> HIDE DEF there
<1>7. /\ tx' \in [Clients -> [pc : PC, ops : Seq(Operation)]]
      /\ \A d \in Clients : d # c => tx'[d] = tx[d]
      /\ tx'[c] = there
  BY <1>2, <1>4, <1>6 DEF TypeOK
<1>8. Op(c)' = Head(r) /\ tx'[c].ops # <<>> /\ tx'[c].pc = Entry(Head(r))
  BY <1>3, <1>5, <1>7 DEF Op
<1>9. Entry(Head(r)) = IF Head(r).type \in {"RELEASE", "FULFIL"} THEN "lockres" ELSE "find"
  BY <1>3, EntryOf
<1>10. Ready(c)'
  BY <1>8, <1>9 DEF Ready, Ends
<1>11. tx'[c].pc # "insert"
  BY <1>8, <1>9
<1>12. QED
  BY <1>2, <1>7, <1>10, <1>11, OwnersStay, QuietKeeps

\* findMovement of receiveStock and returnStock.
LEMMA FindMovementKeeps == ASSUME IInv, NEW c \in Clients, FindMovement(c) PROVE IInv'
<1>1. tx[c].pc = "find" /\ Adds(c) /\ UNCHANGED <<db, cur, owner, usable>>
  BY DEF FindMovement
<1>2. TypeOK /\ Ready(c) /\ tx[c].ops # <<>>
  BY <1>1, Inside
<1>3. CASE Return(c)
  BY <1>1, <1>2, <1>3, OwnersStay, AnswerKeeps
<1>4. CASE GoTo(c, "assert")
  <2>1. /\ tx' \in [Clients -> [pc : PC, ops : Seq(Operation)]]
        /\ \A d \in Clients : d # c => tx'[d] = tx[d]
        /\ tx'[c].pc = "assert" /\ tx'[c].ops = tx[c].ops /\ Ends(c)' = Ends(c)
    BY <1>2, <1>4, GoToDoes DEF PC
  <2>2. Ready(c)'
    BY <1>1, <1>2, <2>1 DEF Ready, Ends, Adds
  <2>3. QED
    BY <1>1, <2>1, <2>2, OwnersStay, QuietKeeps
<1>5. QED
  BY <1>3, <1>4 DEF FindMovement

\* The answer to a reservation asked for again.
LEMMA AnswerFromPriorKeeps ==
    ASSUME IInv, NEW c \in Clients, NEW prior, tx[c].pc \in {"find", "write"},
           AnswerFromPrior(c, prior)
    PROVE  IInv'
<1>1. CASE Return(c) /\ UNCHANGED <<db, cur, owner, usable>>
  BY <1>1, Inside, OwnersStay, AnswerKeeps
<1>2. CASE Rollback(c)
  BY <1>2, RollbackKeeps
<1>3. QED
  BY <1>1, <1>2 DEF AnswerFromPrior

\* findReservation of reserveStock.
LEMMA FindReservationKeeps == ASSUME IInv, NEW c \in Clients, FindReservation(c) PROVE IInv'
<1>1. tx[c].pc = "find" /\ Op(c).type = "RESERVE"
  BY DEF FindReservation
<1>2. TypeOK /\ Ready(c) /\ tx[c].ops # <<>>
  BY <1>1, Inside
<1>3. CASE AnswerFromPrior(c, Sees(c, "res", ResOf(c)))
  BY <1>1, <1>3, AnswerFromPriorKeeps
<1>4. CASE GoTo(c, "assert") /\ UNCHANGED <<db, cur, owner, usable>>
  <2>1. /\ tx' \in [Clients -> [pc : PC, ops : Seq(Operation)]]
        /\ \A d \in Clients : d # c => tx'[d] = tx[d]
        /\ tx'[c].pc = "assert" /\ tx'[c].ops = tx[c].ops /\ Ends(c)' = Ends(c)
    BY <1>2, <1>4, GoToDoes DEF PC
  <2>2. Ready(c)'
    BY <1>1, <1>2, <2>1 DEF Ready, Ends
  <2>3. QED
    BY <1>1, <1>4, <2>1, <2>2, OwnersStay, QuietKeeps
<1>5. QED
  BY <1>3, <1>4 DEF FindReservation

\* assertWarehouseAndItem.
LEMMA AssertUsableKeeps == ASSUME IInv, NEW c \in Clients, AssertUsable(c) PROVE IInv'
<1>1. tx[c].pc = "assert"
  BY DEF AssertUsable
<1>2. TypeOK /\ Ready(c) /\ tx[c].ops # <<>> /\ ~Ends(c)
  BY <1>1, Inside DEF Ready
<1>3. CASE Rollback(c)
  BY <1>3, RollbackKeeps
<1>4. CASE /\ GoTo(c, IF Adds(c) THEN "write" ELSE "lock")
           /\ UNCHANGED <<db, cur, owner, usable>>
  <2> DEFINE to == IF Adds(c) THEN "write" ELSE "lock"
  <2>1. to \in PC
    BY DEF PC
  <2>2. /\ tx' \in [Clients -> [pc : PC, ops : Seq(Operation)]]
        /\ \A d \in Clients : d # c => tx'[d] = tx[d]
        /\ tx'[c].pc = to /\ tx'[c].ops = tx[c].ops /\ Op(c)' = Op(c)
    BY <1>2, <1>4, <2>1, GoToDoes
  <2>3. Op(c) \in Operation
    BY <1>2, OpOf
  <2>4. Adds(c) => Op(c).type # "RESERVE"
    BY DEF Adds
  <2>5. ~Adds(c) => Op(c).type = "RESERVE"
    BY <1>2, <2>3 DEF Adds, Ends, Operation
  <2>6. Ready(c)'
    BY <1>2, <2>2, <2>4, <2>5 DEF Ready, Ends
  <2>7. tx'[c].pc # "insert"
    BY <2>2
  <2>8. QED
    BY <1>1, <1>4, <2>2, <2>6, <2>7, OwnersStay, QuietKeeps
<1>5. QED
  BY <1>3, <1>4 DEF AssertUsable

\* The row lock of reserveStock.
LEMMA LockStockKeeps == ASSUME IInv, NEW c \in Clients, LockStock(c) PROVE IInv'
<1>1. tx[c].pc = "lock" /\ UNCHANGED <<db, cur, usable>>
  BY DEF LockStock
<1>2. TypeOK /\ Ready(c) /\ tx[c].ops # <<>> /\ Op(c).type = "RESERVE"
  BY <1>1, Inside DEF Ready
<1>3. <<"stock", StockOf(c)>> \in Rows
  BY <1>2, OpOf, RowsOfTables
<1>4. /\ owner' \in [Rows -> Clients \cup {Nobody}]
      /\ \A row \in Rows : owner'[row] = owner[row] \/ (owner[row] = Nobody /\ owner'[row] = c)
      /\ owner'[<<"stock", StockOf(c)>>] = c
  BY <1>2, <1>3, TakeDoes DEF LockStock
<1>5. /\ tx' \in [Clients -> [pc : PC, ops : Seq(Operation)]]
      /\ \A d \in Clients : d # c => tx'[d] = tx[d]
      /\ tx'[c].pc = "write" /\ tx'[c].ops = tx[c].ops
      /\ Op(c)' = Op(c) /\ StockOf(c)' = StockOf(c)
  BY <1>2, GoToDoes DEF LockStock, PC
<1>6. Holds(c, "stock", StockOf(c))'
  BY <1>4, <1>5 DEF Holds
<1>7. Ready(c)'
  BY <1>2, <1>5, <1>6 DEF Ready, Ends
<1>8. QED
  BY <1>1, <1>4, <1>5, <1>7, QuietKeeps

\* lockReservation.
LEMMA LockReservationKeeps == ASSUME IInv, NEW c \in Clients, LockReservation(c) PROVE IInv'
<1>1. tx[c].pc = "lockres"
  BY DEF LockReservation
<1>2. TypeOK /\ Ready(c) /\ tx[c].ops # <<>> /\ Ends(c)
  BY <1>1, Inside DEF Ready
<1>3. CASE Rollback(c)
  BY <1>3, RollbackKeeps
<1>4. CASE ~Rollback(c)
  <2> DEFINE r == ResOf(c)
             row == Sees(c, "res", r)
             to == IF Op(c).type = "RELEASE" THEN "write" ELSE "findmov"
  <2>1. /\ row # NoRow /\ CanTake(c, "res", r) /\ row.branch = Op(c).branch
        /\ row.status # IF Op(c).type = "RELEASE" THEN "FULFILLED" ELSE "RELEASED"
        /\ Take(c, "res", r) /\ UNCHANGED <<db, cur, usable>>
        /\ IF AlreadyEnded(c, row) THEN Return(c) ELSE GoTo(c, to)
    BY <1>4 DEF LockReservation
  <2>2. r \in ResKey /\ <<"res", r>> \in Rows
    BY <1>2, OpOf, RowsOfTables
  <2>3. /\ owner' \in [Rows -> Clients \cup {Nobody}]
        /\ \A x \in Rows : owner'[x] = owner[x] \/ (owner[x] = Nobody /\ owner'[x] = c)
        /\ owner'[<<"res", r>>] = c
    BY <1>2, <2>1, <2>2, TakeDoes
  <2>4. CASE AlreadyEnded(c, row)
    BY <1>1, <1>2, <2>1, <2>3, <2>4, AnswerKeeps
  <2>5. CASE ~AlreadyEnded(c, row)
    <3>1. row = cur.res[r]
      BY <2>1, <2>2 DEF IInv, FreeIsCommitted, Sees, Holds, CanTake
    <3>2. row.status = "RESERVED"
      <4>1. row.status \in {"RESERVED", "RELEASED", "FULFILLED"}
        BY <1>2, <2>1, <2>2, <3>1, RowTypes DEF Reservation
      <4>2. QED
        BY <2>1, <2>5, <4>1 DEF AlreadyEnded
    <3>3. Op(c).type \in {"RELEASE", "FULFIL"}
      BY <1>2 DEF Ends
    <3>4. to \in PC
      BY DEF PC
    <3>5. /\ tx' \in [Clients -> [pc : PC, ops : Seq(Operation)]]
          /\ \A d \in Clients : d # c => tx'[d] = tx[d]
          /\ tx'[c].pc = to /\ tx'[c].ops = tx[c].ops
          /\ Op(c)' = Op(c) /\ ResOf(c)' = ResOf(c)
      BY <1>2, <2>1, <2>5, <3>4, GoToDoes
    <3>6. HoldsOpen(c)'
      BY <2>1, <2>3, <3>1, <3>2, <3>5 DEF HoldsOpen, Holds
    <3>7. Ready(c)'
      BY <1>2, <3>3, <3>5, <3>6 DEF Ready
    <3>8. tx'[c].pc # "insert"
      BY <3>5
    <3>9. QED
      BY <1>1, <2>1, <2>3, <3>5, <3>7, <3>8, QuietKeeps
  <2>6. QED
    BY <2>4, <2>5
<1>5. QED
  BY <1>3, <1>4

\* findMovement of fulfillReservation.
LEMMA FindIssueKeeps == ASSUME IInv, NEW c \in Clients, FindIssue(c) PROVE IInv'
<1>1. tx[c].pc = "findmov" /\ UNCHANGED <<db, cur, owner, usable>>
  BY DEF FindIssue
<1>2. TypeOK /\ tx[c].ops # <<>> /\ Op(c).type = "FULFIL" /\ HoldsOpen(c)
  BY <1>1, Inside DEF Ready
<1>3. CASE Return(c)
  BY <1>1, <1>2, <1>3, OwnersStay, AnswerKeeps
<1>4. CASE GoTo(c, "write")
  <2>1. /\ tx' \in [Clients -> [pc : PC, ops : Seq(Operation)]]
        /\ \A d \in Clients : d # c => tx'[d] = tx[d]
        /\ tx'[c].pc = "write" /\ tx'[c].ops = tx[c].ops
        /\ Op(c)' = Op(c) /\ ResOf(c)' = ResOf(c)
    BY <1>2, <1>4, GoToDoes DEF PC
  <2>2. HoldsOpen(c)'
    BY <1>1, <1>2, <2>1 DEF HoldsOpen, Holds
  <2>3. Ready(c)'
    BY <1>2, <2>1, <2>2 DEF Ready
  <2>4. QED
    BY <1>1, <2>1, <2>3, OwnersStay, QuietKeeps
<1>5. QED
  BY <1>3, <1>4 DEF FindIssue

-----------------------------------------------------------------------------
(* The statements that write a stock row before its reservation or         *)
(* movement.                                                               *)

\* One stock row of the current tables is written.
LEMMA StockWritten ==
    ASSUME TypeOK, NEW s \in StockKey, NEW row \in StockRow,
           cur' = [cur EXCEPT !.stock[s] = row]
    PROVE  /\ cur' \in Database /\ cur'.res = cur.res /\ cur'.mov = cur.mov
           /\ cur'.stock[s] = row /\ \A x \in StockKey : x # s => cur'.stock[x] = cur.stock[x]
  BY DEF TypeOK, Database

\* Work on a stock row that is yet to be accounted for changes nothing that is settled.
LEMMA WorkKeeps ==
    ASSUME IInv, NEW c \in Clients, NEW s0 \in StockKey, tx[c].pc = "write",
           UNCHANGED <<db, usable>>,
           owner' \in [Rows -> Clients \cup {Nobody}],
           \A row \in Rows : owner'[row] = owner[row] \/ (owner[row] = Nobody /\ owner'[row] = c),
           owner'[<<"stock", s0>>] = c,
           cur' \in Database, cur'.res = cur.res, cur'.mov = cur.mov,
           \A s \in StockKey : s # s0 => cur'.stock[s] = cur.stock[s],
           cur'.stock[s0].reserved <= cur'.stock[s0].onHand,
           tx' \in [Clients -> [pc : PC, ops : Seq(Operation)]],
           \A d \in Clients : d # c => tx'[d] = tx[d],
           tx'[c].pc = "insert", Target(c)' = s0, Before(c, s0)' = cur.stock[s0], Ready(c)'
    PROVE  IInv'
<1>1. Writes(c)
  BY DEF Writes, IInv, TypeOK
<1>2. \A s \in StockKey : Settled'.stock[s] = Settled.stock[s]
  <2>1. SUFFICES ASSUME NEW s \in StockKey, owner[<<"stock", s>>] \in {c, Nobody}
                 PROVE  Settled'.stock[s] = Settled.stock[s]
    BY <1>1, WritesBeside, OthersSettled
  <2>2. ~Unposted(c, s) /\ (Unposted(c, s)' <=> s = s0)
    BY DEF Unposted
  <2>3. Settled.stock[s] = cur.stock[s]
    BY <2>1, <2>2, SettledAt
  <2>4. owner'[<<"stock", s>>] \in {c, Nobody}
    BY <2>1, RowsOfTables
  <2>5. CASE s = s0
    BY <2>2, <2>3, <2>5, SettledNext
  <2>6. CASE s # s0
    BY <2>2, <2>3, <2>4, <2>6, SettledNext
  <2>7. QED
    BY <2>5, <2>6
<1>3. Sound(Settled') /\ Extends(Settled, Settled')
  BY <1>2, SameSettled DEF IInv
<1>4. Covered(cur')
  BY DEF IInv, Covered
<1>5. QED
  BY <1>1, <1>3, <1>4, WritesKeep

\* receiveStock and returnStock add to the row.
LEMMA AddToStockKeeps == ASSUME IInv, NEW c \in Clients, AddToStock(c) PROVE IInv'
<1>1. tx[c].pc = "write" /\ Adds(c) /\ UNCHANGED <<db, usable>>
  BY DEF AddToStock
<1>2. TypeOK /\ Ready(c) /\ tx[c].ops # <<>>
  BY <1>1, Inside
<1>3. PICK s \in StockKey : s = StockOf(c)
  BY <1>2, OpOf
<1>4. PICK q \in Nat : q = Op(c).qty
  BY <1>2, OpOf
<1>5. /\ owner' \in [Rows -> Clients \cup {Nobody}]
      /\ \A row \in Rows : owner'[row] = owner[row] \/ (owner[row] = Nobody /\ owner'[row] = c)
      /\ owner'[<<"stock", s>>] = c
  BY <1>2, <1>3, RowsOfTables, TakeDoes DEF AddToStock
<1>6. /\ tx' \in [Clients -> [pc : PC, ops : Seq(Operation)]]
      /\ \A d \in Clients : d # c => tx'[d] = tx[d]
      /\ tx'[c].pc = "insert" /\ tx'[c].ops = tx[c].ops
      /\ Op(c)' = Op(c) /\ StockOf(c)' = StockOf(c) /\ Adds(c)' = Adds(c)
  BY <1>2, GoToDoes DEF AddToStock, PC
<1> DEFINE row == [onHand |-> cur.stock[s].onHand + q, reserved |-> cur.stock[s].reserved]
<1>7. /\ cur.stock[s] \in StockRow
      /\ cur.stock[s].onHand \in Nat /\ cur.stock[s].reserved \in Nat
  BY <1>2, RowTypes
<1>8. row \in StockRow /\ row = [cur.stock[s] EXCEPT !.onHand = cur.stock[s].onHand + q]
  BY <1>7 DEF StockRow
<1>9. cur' = [cur EXCEPT !.stock[s] = row]
  BY <1>3, <1>4, <1>8 DEF AddToStock
<1>10. row.onHand = cur.stock[s].onHand + q /\ row.reserved = cur.stock[s].reserved
  OBVIOUS
<1> HIDE DEF row
<1>11. /\ cur' \in Database /\ cur'.res = cur.res /\ cur'.mov = cur.mov
       /\ cur'.stock[s] = row /\ \A x \in StockKey : x # s => cur'.stock[x] = cur.stock[x]
  BY <1>2, <1>8, <1>9, StockWritten
<1>12. Op(c)'.type \notin {"RESERVE", "RELEASE", "FULFIL"} /\ Op(c)'.qty = q
  BY <1>1, <1>4, <1>6 DEF Adds
<1>13. Target(c)' = s
  BY <1>3, <1>6, <1>12 DEF Target
<1>14. Before(c, s)' = cur.stock[s]
  <2>1. Before(c, s)' = [onHand |-> row.onHand - q, reserved |-> row.reserved - 0]
    BY <1>1, <1>6, <1>11, <1>12 DEF Before
  <2>2. row.onHand - q = cur.stock[s].onHand /\ row.reserved - 0 = cur.stock[s].reserved
    BY <1>7, <1>10
  <2>3. QED
    BY <1>7, <2>1, <2>2 DEF StockRow
<1>15. Ready(c)'
  <2>1. Holds(c, "stock", Target(c))'
    BY <1>5, <1>13 DEF Holds
  <2>2. QED
    BY <1>2, <1>6, <1>12, <2>1 DEF Ready
<1>16. cur'.stock[s].reserved <= cur'.stock[s].onHand
  <2>1. cur.stock[s].reserved <= cur.stock[s].onHand
    BY DEF IInv, Covered
  <2>2. QED
    BY <1>7, <1>10, <1>11, <2>1
<1>17. QED
  BY <1>1, <1>5, <1>6, <1>11, <1>13, <1>14, <1>15, <1>16, WorkKeeps

\* reserveStock under the row lock.
LEMMA ReserveUnderLockKeeps == ASSUME IInv, NEW c \in Clients, ReserveUnderLock(c) PROVE IInv'
<1>1. tx[c].pc = "write" /\ Op(c).type = "RESERVE"
  BY DEF ReserveUnderLock
<1>2. TypeOK /\ Ready(c) /\ tx[c].ops # <<>> /\ Holds(c, "stock", StockOf(c))
  BY <1>1, Inside DEF Ready
<1>3. CASE AnswerFromPrior(c, Sees(c, "res", ResOf(c)))
  BY <1>1, <1>3, AnswerFromPriorKeeps
<1>4. CASE Rollback(c)
  BY <1>4, RollbackKeeps
<1>5. CASE /\ ~(Free(StockOf(c)) < Op(c).qty)
           /\ cur' = [cur EXCEPT !.stock[StockOf(c)].reserved = @ + Op(c).qty]
           /\ GoTo(c, "insert")
           /\ UNCHANGED <<db, owner, usable>>
  <2>1. PICK s \in StockKey : s = StockOf(c)
    BY <1>2, OpOf
  <2>2. PICK q \in Nat : q = Op(c).qty
    BY <1>2, OpOf
  <2>3. owner'[<<"stock", s>>] = c
    BY <1>2, <1>5, <2>1 DEF Holds
  <2>4. /\ tx' \in [Clients -> [pc : PC, ops : Seq(Operation)]]
        /\ \A d \in Clients : d # c => tx'[d] = tx[d]
        /\ tx'[c].pc = "insert" /\ tx'[c].ops = tx[c].ops
        /\ Op(c)' = Op(c) /\ StockOf(c)' = StockOf(c) /\ Adds(c)' = Adds(c)
    BY <1>2, <1>5, GoToDoes DEF PC
  <2> DEFINE row == [onHand |-> cur.stock[s].onHand, reserved |-> cur.stock[s].reserved + q]
  <2>5. /\ cur.stock[s] \in StockRow
        /\ cur.stock[s].onHand \in Nat /\ cur.stock[s].reserved \in Nat
    BY <1>2, RowTypes
  <2>6. row \in StockRow /\ row = [cur.stock[s] EXCEPT !.reserved = cur.stock[s].reserved + q]
    BY <2>5 DEF StockRow
  <2>7. cur' = [cur EXCEPT !.stock[s] = row]
    BY <1>5, <2>1, <2>2, <2>6
  <2>8. row.onHand = cur.stock[s].onHand /\ row.reserved = cur.stock[s].reserved + q
    OBVIOUS
  <2> HIDE DEF row
  <2>9. /\ cur' \in Database /\ cur'.res = cur.res /\ cur'.mov = cur.mov
        /\ cur'.stock[s] = row /\ \A x \in StockKey : x # s => cur'.stock[x] = cur.stock[x]
    BY <1>2, <2>6, <2>7, StockWritten
  <2>10. Op(c)'.type = "RESERVE" /\ Op(c)'.qty = q /\ ~Adds(c)'
    BY <1>1, <2>2, <2>4 DEF Adds
  <2>11. Target(c)' = s
    BY <2>1, <2>4, <2>10 DEF Target
  <2>12. Before(c, s)' = cur.stock[s]
    <3>1. Before(c, s)' = [onHand |-> row.onHand - 0, reserved |-> row.reserved - q]
      BY <2>4, <2>9, <2>10 DEF Before
    <3>2. row.onHand - 0 = cur.stock[s].onHand /\ row.reserved - q = cur.stock[s].reserved
      BY <2>5, <2>8
    <3>3. QED
      BY <2>5, <3>1, <3>2 DEF StockRow
  <2>13. Ready(c)'
    <3>1. Holds(c, "stock", Target(c))'
      BY <2>3, <2>11 DEF Holds
    <3>2. QED
      BY <1>2, <2>4, <2>10, <3>1 DEF Ready
  <2>14. cur'.stock[s].reserved <= cur'.stock[s].onHand
    <3>1. cur.stock[s].onHand - cur.stock[s].reserved >= q
      BY <1>5, <2>1, <2>2, <2>5 DEF Free
    <3>2. QED
      BY <2>5, <2>8, <2>9, <3>1
  <2>15. QED
    BY <1>1, <1>5, <2>3, <2>4, <2>9, <2>11, <2>12, <2>13, <2>14, OwnersStay, WorkKeeps
<1>6. QED
  BY <1>3, <1>4, <1>5 DEF ReserveUnderLock

\* The guarded UPDATE of fulfillReservation.
LEMMA IssueStockKeeps == ASSUME IInv, NEW c \in Clients, IssueStock(c) PROVE IInv'
<1>1. tx[c].pc = "write" /\ Op(c).type = "FULFIL"
  BY DEF IssueStock
<1>2. TypeOK /\ Ready(c) /\ tx[c].ops # <<>> /\ HoldsOpen(c)
  BY <1>1, Inside DEF Ready, Ends
<1>3. CASE Rollback(c)
  BY <1>3, RollbackKeeps
<1>4. CASE ~Rollback(c)
  <2>1. PICK s \in StockKey : s = HeldRow(c)
    BY <1>2, OpenRow
  <2>2. PICK q \in Nat : q = HeldQty(c)
    BY <1>2, OpenRow
  <2>3. /\ CanTake(c, "stock", s) /\ Take(c, "stock", s)
        /\ ~(cur.stock[s].onHand < q) /\ ~(cur.stock[s].reserved < q)
        /\ cur' = [cur EXCEPT !.stock[s] = [onHand |-> @.onHand - q, reserved |-> @.reserved - q]]
        /\ GoTo(c, "insert") /\ UNCHANGED <<db, usable>>
    BY <1>4, <2>1, <2>2 DEF IssueStock
  <2>4. /\ owner' \in [Rows -> Clients \cup {Nobody}]
        /\ \A row \in Rows : owner'[row] = owner[row] \/ (owner[row] = Nobody /\ owner'[row] = c)
        /\ owner'[<<"stock", s>>] = c
        /\ \A row \in Rows : owner[row] = c => owner'[row] = c
    BY <1>2, <2>3, RowsOfTables, TakeDoes
  <2>5. /\ tx' \in [Clients -> [pc : PC, ops : Seq(Operation)]]
        /\ \A d \in Clients : d # c => tx'[d] = tx[d]
        /\ tx'[c].pc = "insert" /\ tx'[c].ops = tx[c].ops
        /\ Op(c)' = Op(c) /\ ResOf(c)' = ResOf(c) /\ Adds(c)' = Adds(c)
    BY <1>2, <2>3, GoToDoes DEF PC
  <2> DEFINE row == [onHand |-> cur.stock[s].onHand - q, reserved |-> cur.stock[s].reserved - q]
  <2>6. /\ cur.stock[s] \in StockRow
        /\ cur.stock[s].onHand \in Nat /\ cur.stock[s].reserved \in Nat
    BY <1>2, RowTypes
  <2>7. row \in StockRow
    BY <2>3, <2>6 DEF StockRow
  <2>8. cur' = [cur EXCEPT !.stock[s] = row]
    BY <2>3
  <2>9. row.onHand = cur.stock[s].onHand - q /\ row.reserved = cur.stock[s].reserved - q
    OBVIOUS
  <2> HIDE DEF row
  <2>10. /\ cur' \in Database /\ cur'.res = cur.res /\ cur'.mov = cur.mov
         /\ cur'.stock[s] = row /\ \A x \in StockKey : x # s => cur'.stock[x] = cur.stock[x]
    BY <1>2, <2>7, <2>8, StockWritten
  <2>11. Op(c)'.type = "FULFIL" /\ ~Adds(c)'
    BY <1>1, <2>5 DEF Adds
  <2>12. HeldRow(c)' = s /\ HeldQty(c)' = q
    BY <2>1, <2>2, <2>5, <2>10 DEF HeldRow, HeldQty
  <2>13. Target(c)' = s
    BY <2>11, <2>12 DEF Target
  <2>14. Before(c, s)' = cur.stock[s]
    <3>1. Before(c, s)' = [onHand |-> row.onHand - (0 - q), reserved |-> row.reserved - (0 - q)]
      BY <2>10, <2>11, <2>12 DEF Before
    <3>2. /\ row.onHand - (0 - q) = cur.stock[s].onHand
          /\ row.reserved - (0 - q) = cur.stock[s].reserved
      BY <2>6, <2>9
    <3>3. QED
      BY <2>6, <3>1, <3>2 DEF StockRow
  <2>15. HoldsOpen(c)'
    <3>1. <<"res", ResOf(c)>> \in Rows
      BY <1>2, OpOf, RowsOfTables
    <3>2. owner'[<<"res", ResOf(c)>>] = c
      BY <1>2, <2>4, <3>1 DEF HoldsOpen, Holds
    <3>3. QED
      BY <1>2, <2>5, <2>10, <3>2 DEF HoldsOpen, Holds
  <2>16. Ready(c)'
    <3>1. Holds(c, "stock", Target(c))'
      BY <2>4, <2>13 DEF Holds
    <3>2. QED
      BY <1>2, <2>5, <2>11, <2>15, <3>1 DEF Ready
  <2>17. cur'.stock[s].reserved <= cur'.stock[s].onHand
    <3>1. cur.stock[s].reserved <= cur.stock[s].onHand
      BY DEF IInv, Covered
    <3>2. QED
      BY <2>6, <2>9, <2>10, <3>1
  <2>18. QED
    BY <1>1, <2>3, <2>4, <2>5, <2>10, <2>13, <2>14, <2>16, <2>17, WorkKeeps
<1>5. QED
  BY <1>3, <1>4

-----------------------------------------------------------------------------
(* The statements that complete an operation.                              *)

\* Of a row that is free or one's own one sees the current values.
LEMMA SeesCurrent ==
    ASSUME IInv, NEW c \in Clients
    PROVE  /\ \A r \in ResKey : CanTake(c, "res", r) => Sees(c, "res", r) = cur.res[r]
           /\ \A k \in OpKeys : CanTake(c, "mov", k) => Sees(c, "mov", k) = cur.mov[k]
  BY DEF IInv, FreeIsCommitted, Sees, Holds, CanTake

\* A step that takes the settled database to a sound one, by writing the stock row s0
\* or accounting for it.
LEMMA PostKeeps ==
    ASSUME IInv, NEW c \in Clients, NEW s0 \in StockKey, NEW e,
           Writes(c), owner'[<<"stock", s0>>] = c, tx'[c].pc # "insert", Ready(c)',
           \A s \in StockKey : Unposted(c, s) => s = s0,
           \A s \in StockKey : s # s0 => cur'.stock[s] = cur.stock[s],
           Covered(cur'),
           Sound(e), Extends(Settled, e), e.res = cur'.res, e.mov = cur'.mov,
           e.stock[s0] = cur'.stock[s0],
           \A s \in StockKey : s # s0 => e.stock[s] = Settled.stock[s]
    PROVE  IInv'
<1>1. ASSUME NEW s \in StockKey PROVE Settled'.stock[s] = e.stock[s]
  <2>1. ~Unposted(c, s)'
    BY DEF Unposted
  <2>2. CASE s = s0
    BY <2>1, <2>2, SettledNext
  <2>3. CASE s # s0 /\ owner[<<"stock", s>>] \in {c, Nobody}
    <3>1. ~Unposted(c, s)
      BY <2>3
    <3>2. owner'[<<"stock", s>>] \in {c, Nobody}
      BY <2>3, RowsOfTables DEF Writes
    <3>3. Settled.stock[s] = cur.stock[s]
      BY <2>3, <3>1, SettledAt
    <3>4. Settled'.stock[s] = cur'.stock[s]
      BY <2>1, <3>2, SettledNext
    <3>5. QED
      BY <2>3, <3>3, <3>4
  <2>4. CASE s # s0 /\ owner[<<"stock", s>>] \notin {c, Nobody}
    BY <2>4, WritesBeside, OthersSettled
  <2>5. QED
    BY <2>2, <2>3, <2>4
<1>2. Settled'.stock = e.stock
  <2>1. e.stock \in [StockKey -> StockRow]
    BY DEF Sound, Typed
  <2>2. e.stock = [s \in StockKey |-> e.stock[s]]
    BY <2>1
  <2>3. QED
    BY <1>1, <2>2, SettledTables
<1>3. Settled'.res = e.res /\ Settled'.mov = e.mov
  BY SettledTables
<1>4. Sound(Settled')
  BY <1>2, <1>3, SoundTables
<1>5. Extends(Settled, Settled')
  BY <1>3 DEF Extends
<1>6. QED
  BY <1>4, <1>5, WritesKeep

\* reserveStock inserts the reservation.
LEMMA InsertReservationKeeps == ASSUME IInv, NEW c \in Clients, InsertReservation(c) PROVE IInv'
<1>1. tx[c].pc = "insert" /\ Op(c).type = "RESERVE"
  BY DEF InsertReservation
<1>2. TypeOK /\ Ready(c) /\ tx[c].ops # <<>> /\ Holds(c, "stock", Target(c))
  BY <1>1, Inside DEF Ready
<1>3. CASE Rollback(c)
  BY <1>3, RollbackKeeps
<1>4. CASE ~Rollback(c)
  <2> DEFINE in == [branch |-> Op(c).branch, wh |-> Op(c).wh, item |-> Op(c).item,
                    qty |-> Op(c).qty, src |-> Op(c).src]
             new == [branch |-> Op(c).branch, wh |-> Op(c).wh, qty |-> Op(c).qty,
                     status |-> "RESERVED"]
  <2>1. in \in ReserveRequest /\ new \in Reservation /\ Op(c).qty \in Nat
    BY <1>2, OpOf DEF ReserveRequest, Reservation, Operation
  <2>2. PICK s \in StockKey : s = StockOf(c)
    BY <1>2, OpOf
  <2>3. PICK r \in ResKey : r = ResOf(c)
    BY <1>2, OpOf
  <2>4. PICK q \in Nat : q = Op(c).qty
    BY <2>1
  <2>5. /\ <<in.wh, in.item>> = s /\ <<in.src, in.item>> = r /\ in.qty = q
        /\ new = [branch |-> in.branch, wh |-> in.wh, qty |-> in.qty, status |-> "RESERVED"]
        /\ <<new.wh, r[2]>> = s /\ new # NoRow
    BY <2>1, <2>2, <2>3, <2>4, NoRowAssumption DEF StockOf, ResOf
  <2>6. /\ CanTake(c, "res", r) /\ Take(c, "res", r) /\ Sees(c, "res", r) = NoRow
        /\ cur' = [cur EXCEPT !["res"][r] = new]
        /\ Return(c) /\ UNCHANGED <<db, usable>>
    BY <1>4, <2>3 DEF InsertReservation, InsertRow
  <2> HIDE DEF in, new
  <2>7. cur.res[r] = NoRow
    BY <2>6, SeesCurrent
  <2>8. /\ cur' \in Database /\ cur'.stock = cur.stock /\ cur'.mov = cur.mov
        /\ cur'.res = [cur.res EXCEPT ![r] = new]
    BY <1>2, <2>1, <2>6 DEF TypeOK, Database, ReservationRow
  <2>9. cur'.res[r] = new /\ \A x \in ResKey : x # r => cur'.res[x] = cur.res[x]
    BY <1>2, <2>8 DEF TypeOK, Database
  <2>10. /\ owner' \in [Rows -> Clients \cup {Nobody}]
         /\ \A row \in Rows : owner'[row] = owner[row] \/ (owner[row] = Nobody /\ owner'[row] = c)
         /\ owner'[<<"res", r>>] = c
         /\ \A row \in Rows : owner[row] = c => owner'[row] = c
    BY <1>2, <2>6, RowsOfTables, TakeDoes
  <2>11. Target(c) = s /\ owner[<<"stock", s>>] = c /\ owner'[<<"stock", s>>] = c
    BY <1>1, <1>2, <2>2, <2>10, RowsOfTables DEF Target, Holds
  <2>12. /\ tx' \in [Clients -> [pc : PC, ops : Seq(Operation)]]
         /\ \A d \in Clients : d # c => tx'[d] = tx[d]
         /\ tx'[c].pc # "insert" /\ Ready(c)'
    BY <1>2, <2>6, ReturnDoes
  <2>13. Writes(c)
    <3>1. db' = db /\ usable' \subseteq StockKey
      BY <1>2, <2>6 DEF TypeOK
    <3>2. ASSUME NEW x \in ResKey, cur'.res[x] # cur.res[x]
          PROVE  /\ cur'.res[x] # NoRow /\ owner'[<<"res", x>>] = c
                 /\ owner'[<<"stock", <<cur'.res[x].wh, x[2]>>>>] = c
      <4>1. x = r /\ cur'.res[x] = new
        BY <2>9, <3>2
      <4>2. QED
        BY <2>5, <2>10, <2>11, <4>1
    <3>3. QED
      BY <2>8, <2>10, <2>12, <3>1, <3>2 DEF Writes
  <2>14. /\ \A x \in StockKey : Unposted(c, x) => x = s
         /\ Settled.stock[s] = Before(c, s)
    <3>1. \A x \in StockKey : Unposted(c, x) <=> x = s
      BY <1>1, <2>11 DEF Unposted
    <3>2. QED
      BY <2>11, <3>1, SettledAt
  <2>15. /\ cur.stock[s] \in StockRow
         /\ cur.stock[s].onHand \in Nat /\ cur.stock[s].reserved \in Nat
         /\ cur.stock[s].reserved <= cur.stock[s].onHand
    BY <1>2, RowTypes DEF IInv, Covered
  <2>16. /\ Settled.stock[s].onHand = cur.stock[s].onHand
         /\ Settled.stock[s].reserved = cur.stock[s].reserved - q
    BY <1>1, <2>4, <2>14, <2>15 DEF Before, Adds
  <2> DEFINE e == Reserved(Settled, in)
  <2>17. Sound(e) /\ Extends(Settled, e)
    <3>1. Settled.res[r] = NoRow
      BY <2>7, SettledTables
    <3>2. Available(Settled.stock, s) >= q
      BY <2>15, <2>16 DEF Available
    <3>3. QED
      BY <2>1, <2>5, <3>1, <3>2, ReservedSound DEF IInv
  <2>18. /\ e.res = cur'.res /\ e.mov = cur'.mov
         /\ e.stock = Adjust(Settled.stock, s, 0, q)
    BY <2>5, <2>8, SettledTables DEF Reserved, Put
  <2>19. /\ e.stock[s] = cur'.stock[s]
         /\ \A x \in StockKey : x # s => e.stock[x] = Settled.stock[x]
    <3>1. e.stock[s] = [onHand |-> Settled.stock[s].onHand + 0,
                        reserved |-> Settled.stock[s].reserved + q]
      BY <2>18, SettledTables DEF Adjust
    <3>2. /\ Settled.stock[s].onHand + 0 = cur.stock[s].onHand
          /\ Settled.stock[s].reserved + q = cur.stock[s].reserved
      BY <2>15, <2>16
    <3>3. e.stock[s] = cur.stock[s]
      BY <2>15, <3>1, <3>2 DEF StockRow
    <3>4. QED
      BY <2>8, <2>18, <3>3, SettledTables DEF Adjust
  <2> HIDE DEF e
  <2>20. Covered(cur')
    BY <2>8 DEF IInv, Covered
  <2>21. QED
    BY <2>8, <2>11, <2>12, <2>13, <2>14, <2>17, <2>18, <2>19, <2>20, PostKeeps
<1>5. QED
  BY <1>3, <1>4

\* receiveStock and returnStock insert the movement.
LEMMA InsertMovementKeeps == ASSUME IInv, NEW c \in Clients, InsertMovement(c) PROVE IInv'
<1>1. tx[c].pc = "insert" /\ Adds(c)
  BY DEF InsertMovement
<1>2. TypeOK /\ Ready(c) /\ tx[c].ops # <<>> /\ Holds(c, "stock", Target(c))
  BY <1>1, Inside DEF Ready
<1>3. CASE Rollback(c)
  BY <1>3, RollbackKeeps
<1>4. CASE ~Rollback(c)
  <2> DEFINE in == [branch |-> Op(c).branch, wh |-> Op(c).wh, item |-> Op(c).item,
                    qty |-> Op(c).qty, key |-> Op(c).key]
             new == [branch |-> Op(c).branch, stock |-> StockOf(c), qty |-> Op(c).qty,
                     type |-> Op(c).type, res |-> NoRow]
  <2>1. PICK type \in {"RECEIPT", "RETURN"} : type = Op(c).type
    BY <1>2, <1>1, OpOf DEF Adds
  <2>2. PICK s \in StockKey : s = StockOf(c)
    BY <1>2, OpOf
  <2>3. PICK k \in OpKeys : k = Op(c).key
    BY <1>2, OpOf DEF Operation
  <2>4. PICK q \in Nat : q = Op(c).qty
    BY <1>2, OpOf
  <2>5. in \in AddRequest /\ new \in Movement
    BY <1>2, <2>1, <2>2, OpOf DEF AddRequest, Movement, Operation
  <2>6. /\ <<in.wh, in.item>> = s /\ in.key = k /\ in.qty = q
        /\ new = [branch |-> in.branch, stock |-> <<in.wh, in.item>>, qty |-> in.qty,
                  type |-> type, res |-> NoRow]
        /\ new.stock = s /\ new.type # "ISSUE" /\ new # NoRow
    BY <2>1, <2>2, <2>3, <2>4, <2>5, NoRowAssumption DEF StockOf
  <2>7. /\ CanTake(c, "mov", k) /\ Take(c, "mov", k) /\ Sees(c, "mov", k) = NoRow
        /\ cur' = [cur EXCEPT !["mov"][k] = new]
        /\ Return(c) /\ UNCHANGED <<db, usable>>
    BY <1>4, <2>3 DEF InsertMovement, InsertRow
  <2> HIDE DEF in, new
  <2>8. cur.mov[k] = NoRow
    BY <2>7, SeesCurrent
  <2>9. /\ cur' \in Database /\ cur'.stock = cur.stock /\ cur'.res = cur.res
        /\ cur'.mov = [cur.mov EXCEPT ![k] = new]
    BY <1>2, <2>5, <2>7 DEF TypeOK, Database, MovementRow
  <2>10. cur'.mov[k] = new /\ \A x \in OpKeys : x # k => cur'.mov[x] = cur.mov[x]
    BY <1>2, <2>9 DEF TypeOK, Database
  <2>11. /\ owner' \in [Rows -> Clients \cup {Nobody}]
         /\ \A row \in Rows : owner'[row] = owner[row] \/ (owner[row] = Nobody /\ owner'[row] = c)
         /\ owner'[<<"mov", k>>] = c
         /\ \A row \in Rows : owner[row] = c => owner'[row] = c
    BY <1>2, <2>7, RowsOfTables, TakeDoes
  <2>12. Target(c) = s /\ owner[<<"stock", s>>] = c /\ owner'[<<"stock", s>>] = c
    BY <1>1, <1>2, <2>2, <2>11, RowsOfTables DEF Target, Holds, Adds
  <2>13. /\ tx' \in [Clients -> [pc : PC, ops : Seq(Operation)]]
         /\ \A d \in Clients : d # c => tx'[d] = tx[d]
         /\ tx'[c].pc # "insert" /\ Ready(c)'
    BY <1>2, <2>7, ReturnDoes
  <2>14. Writes(c)
    <3>1. db' = db /\ usable' \subseteq StockKey
      BY <1>2, <2>7 DEF TypeOK
    <3>2. ASSUME NEW x \in OpKeys, cur'.mov[x] # cur.mov[x]
          PROVE  /\ cur'.mov[x] # NoRow /\ owner'[<<"mov", x>>] = c
                 /\ owner'[<<"stock", cur'.mov[x].stock>>] = c
                 /\ \A r \in ResKey : ~IsIssueOf(cur'.mov, x, r)
      <4>1. x = k /\ cur'.mov[x] = new
        BY <2>10, <3>2
      <4>2. QED
        BY <2>6, <2>11, <2>12, <4>1 DEF IsIssueOf
    <3>3. QED
      BY <2>9, <2>11, <2>13, <3>1, <3>2 DEF Writes
  <2>15. /\ \A x \in StockKey : Unposted(c, x) => x = s
         /\ Settled.stock[s] = Before(c, s)
    <3>1. \A x \in StockKey : Unposted(c, x) <=> x = s
      BY <1>1, <2>12 DEF Unposted
    <3>2. QED
      BY <2>12, <3>1, SettledAt
  <2>16. /\ cur.stock[s] \in StockRow
         /\ cur.stock[s].onHand \in Nat /\ cur.stock[s].reserved \in Nat
    BY <1>2, RowTypes
  <2>17. /\ Settled.stock[s].onHand = cur.stock[s].onHand - q
         /\ Settled.stock[s].reserved = cur.stock[s].reserved
    <3>1. Op(c).type \notin {"RESERVE", "FULFIL"}
      BY <1>1 DEF Adds
    <3>2. QED
      BY <1>1, <2>4, <2>15, <2>16, <3>1 DEF Before
  <2> DEFINE e == Added(Settled, in, type)
  <2>18. Sound(e) /\ Extends(Settled, e)
    <3>1. Settled.mov[k] = NoRow
      BY <2>8, SettledTables
    <3>2. QED
      BY <2>5, <2>6, <3>1, AddedSound DEF IInv
  <2>19. /\ e.res = cur'.res /\ e.mov = cur'.mov
         /\ e.stock = Adjust(Settled.stock, s, q, 0)
    BY <2>6, <2>9, SettledTables DEF Added, Put
  <2>20. /\ e.stock[s] = cur'.stock[s]
         /\ \A x \in StockKey : x # s => e.stock[x] = Settled.stock[x]
    <3>1. e.stock[s] = [onHand |-> Settled.stock[s].onHand + q,
                        reserved |-> Settled.stock[s].reserved + 0]
      BY <2>19, SettledTables DEF Adjust
    <3>2. /\ Settled.stock[s].onHand + q = cur.stock[s].onHand
          /\ Settled.stock[s].reserved + 0 = cur.stock[s].reserved
      BY <2>16, <2>17
    <3>3. e.stock[s] = cur.stock[s]
      BY <2>16, <3>1, <3>2 DEF StockRow
    <3>4. QED
      BY <2>9, <2>19, <3>3, SettledTables DEF Adjust
  <2> HIDE DEF e
  <2>21. Covered(cur')
    BY <2>9 DEF IInv, Covered
  <2>22. QED
    BY <2>9, <2>12, <2>13, <2>14, <2>15, <2>18, <2>19, <2>20, <2>21, PostKeeps
<1>5. QED
  BY <1>3, <1>4

\* releaseReservation.
LEMMA ReleaseStockKeeps == ASSUME IInv, NEW c \in Clients, ReleaseStock(c) PROVE IInv'
<1>1. tx[c].pc = "write" /\ Op(c).type = "RELEASE"
  BY DEF ReleaseStock
<1>2. TypeOK /\ Ready(c) /\ tx[c].ops # <<>> /\ HoldsOpen(c)
  BY <1>1, Inside DEF Ready, Ends
<1>3. PICK r \in ResKey : r = ResOf(c)
  BY <1>2, OpOf
<1>4. PICK s \in StockKey : s = HeldRow(c) /\ s = <<cur.res[r].wh, r[2]>>
  BY <1>2, <1>3, OpenRow
<1>5. PICK q \in Nat : q = HeldQty(c) /\ q = cur.res[r].qty
  BY <1>2, <1>3, OpenRow DEF HeldQty
<1>6. /\ cur.res[r] # NoRow /\ cur.res[r].status = "RESERVED" /\ cur.res[r] \in Reservation
      /\ owner[<<"res", r>>] = c
  BY <1>2, <1>3, RowTypes DEF HoldsOpen, Holds
<1>7. /\ CanTake(c, "stock", s) /\ Take(c, "stock", s)
      /\ cur' = [cur EXCEPT !.stock[s].reserved = @ - q, !.res[r].status = "RELEASED"]
      /\ Return(c) /\ UNCHANGED <<db, usable>>
  BY <1>3, <1>4, <1>5 DEF ReleaseStock
<1>8. /\ owner' \in [Rows -> Clients \cup {Nobody}]
      /\ \A row \in Rows : owner'[row] = owner[row] \/ (owner[row] = Nobody /\ owner'[row] = c)
      /\ owner'[<<"stock", s>>] = c
      /\ \A row \in Rows : owner[row] = c => owner'[row] = c
  BY <1>2, <1>7, RowsOfTables, TakeDoes
<1>9. /\ tx' \in [Clients -> [pc : PC, ops : Seq(Operation)]]
      /\ \A d \in Clients : d # c => tx'[d] = tx[d]
      /\ tx'[c].pc # "insert" /\ Ready(c)'
  BY <1>2, <1>7, ReturnDoes
<1>10. /\ \A x \in StockKey : ~Unposted(c, x)
       /\ Settled.stock[s] = cur.stock[s]
  <2>1. \A x \in StockKey : ~Unposted(c, x)
    BY <1>1 DEF Unposted
  <2>2. owner[<<"stock", s>>] \in {c, Nobody}
    BY <1>7 DEF CanTake
  <2>3. QED
    BY <2>1, <2>2, SettledAt
<1>11. Settled.res[r] = cur.res[r] /\ RowOf(Settled, r) = s
  BY <1>4, SettledTables DEF RowOf
<1>12. /\ cur.stock[s] \in StockRow
       /\ cur.stock[s].onHand \in Nat /\ cur.stock[s].reserved \in Nat
       /\ cur.stock[s].reserved >= q
  BY <1>2, <1>5, <1>6, <1>10, <1>11, RowTypes, OpenReservation DEF IInv
<1> DEFINE row == [onHand |-> cur.stock[s].onHand, reserved |-> cur.stock[s].reserved - q]
           ended == [cur.res[r] EXCEPT !.status = "RELEASED"]
<1>13. row \in StockRow /\ row = [cur.stock[s] EXCEPT !.reserved = cur.stock[s].reserved - q]
  BY <1>12 DEF StockRow
<1>14. ended \in Reservation /\ ended # NoRow /\ ended.wh = cur.res[r].wh
  BY <1>6, NoRowAssumption DEF Reservation
<1>15. cur' = [cur EXCEPT !.stock[s] = row, !.res[r] = ended]
  BY <1>7, <1>13
<1>16. row = [onHand |-> cur.stock[s].onHand, reserved |-> cur.stock[s].reserved - q]
       /\ ended = [cur.res[r] EXCEPT !.status = "RELEASED"]
  OBVIOUS
<1> HIDE DEF row, ended
<1>17. /\ cur' \in Database /\ cur'.mov = cur.mov
       /\ cur'.stock = [cur.stock EXCEPT ![s] = row]
       /\ cur'.res = [cur.res EXCEPT ![r] = ended]
  BY <1>2, <1>13, <1>14, <1>15 DEF TypeOK, Database, ReservationRow
<1>18. /\ cur'.stock[s] = row /\ \A x \in StockKey : x # s => cur'.stock[x] = cur.stock[x]
       /\ cur'.res[r] = ended /\ \A x \in ResKey : x # r => cur'.res[x] = cur.res[x]
  BY <1>2, <1>17 DEF TypeOK, Database
<1>19. Writes(c)
  <2>1. db' = db /\ usable' \subseteq StockKey
    BY <1>2, <1>7 DEF TypeOK
  <2>2. ASSUME NEW x \in ResKey, cur'.res[x] # cur.res[x]
        PROVE  /\ cur'.res[x] # NoRow /\ owner'[<<"res", x>>] = c
               /\ owner'[<<"stock", <<cur'.res[x].wh, x[2]>>>>] = c
    <3>1. x = r /\ cur'.res[x] = ended
      BY <1>18, <2>2
    <3>2. owner'[<<"res", r>>] = c
      BY <1>6, <1>8, RowsOfTables
    <3>3. QED
      BY <1>4, <1>8, <1>14, <3>1, <3>2
  <2>3. \A x \in StockKey : cur'.stock[x] # cur.stock[x] => owner'[<<"stock", x>>] = c
    BY <1>8, <1>18
  <2>4. QED
    BY <1>8, <1>9, <1>17, <2>1, <2>2, <2>3 DEF Writes
<1> DEFINE e == Released(Settled, r)
<1>20. Sound(e) /\ Extends(Settled, e)
  BY <1>6, <1>11, ReleasedSound DEF IInv
<1>21. /\ e.res = cur'.res /\ e.mov = cur'.mov
       /\ e.stock = Adjust(Settled.stock, s, 0, -q)
  BY <1>5, <1>11, <1>16, <1>17, SettledTables DEF Released, SetStatus
<1>22. /\ e.stock[s] = cur'.stock[s]
       /\ \A x \in StockKey : x # s => e.stock[x] = Settled.stock[x]
  <2>1. e.stock[s] = [onHand |-> Settled.stock[s].onHand + 0,
                      reserved |-> Settled.stock[s].reserved + (-q)]
    BY <1>21, SettledTables DEF Adjust
  <2>2. /\ Settled.stock[s].onHand + 0 = cur.stock[s].onHand
        /\ Settled.stock[s].reserved + (-q) = cur.stock[s].reserved - q
    BY <1>10, <1>12
  <2>3. e.stock[s] = row
    BY <1>16, <2>1, <2>2
  <2>4. QED
    BY <1>18, <1>21, <2>3, SettledTables DEF Adjust
<1> HIDE DEF e
<1>23. Covered(cur')
  <2>1. Covered(cur)
    BY DEF IInv
  <2>2. row.reserved <= row.onHand
    BY <1>12, <1>16, <2>1 DEF Covered
  <2>3. QED
    BY <1>18, <2>1, <2>2 DEF Covered
<1>24. QED
  BY <1>8, <1>9, <1>10, <1>18, <1>19, <1>20, <1>21, <1>22, <1>23, PostKeeps

\* fulfillReservation inserts the issue and ends the reservation.
LEMMA InsertIssueKeeps == ASSUME IInv, NEW c \in Clients, InsertIssue(c) PROVE IInv'
<1>1. tx[c].pc = "insert" /\ Op(c).type = "FULFIL"
  BY DEF InsertIssue
<1>2. TypeOK /\ Ready(c) /\ tx[c].ops # <<>> /\ HoldsOpen(c) /\ Holds(c, "stock", Target(c))
  BY <1>1, Inside DEF Ready
<1>3. CASE Rollback(c)
  BY <1>3, RollbackKeeps
<1>4. CASE ~Rollback(c)
  <2>1. PICK r \in ResKey : r = ResOf(c)
    BY <1>2, OpOf
  <2>2. PICK s \in StockKey : s = HeldRow(c) /\ s = <<cur.res[r].wh, r[2]>>
    BY <1>2, <2>1, OpenRow
  <2>3. PICK q \in Nat : q = HeldQty(c) /\ q = cur.res[r].qty
    BY <1>2, <2>1, OpenRow DEF HeldQty
  <2>4. PICK k \in OpKeys : k = Op(c).key
    BY <1>2, OpOf DEF Operation
  <2>5. /\ cur.res[r] # NoRow /\ cur.res[r].status = "RESERVED" /\ cur.res[r] \in Reservation
        /\ owner[<<"res", r>>] = c /\ cur.res[r].branch = Op(c).branch
    BY <1>2, <2>1, RowTypes DEF HoldsOpen, Holds
  <2> DEFINE issue == [branch |-> cur.res[r].branch, stock |-> s, qty |-> q,
                       type |-> "ISSUE", res |-> r]
             ended == [cur.res[r] EXCEPT !.status = "FULFILLED"]
  <2>6. /\ CanTake(c, "mov", k) /\ Take(c, "mov", k) /\ Sees(c, "mov", k) = NoRow
        /\ cur' = [cur EXCEPT !.mov[k] = issue, !.res[r].status = "FULFILLED"]
        /\ Return(c) /\ UNCHANGED <<db, usable>>
    BY <1>4, <2>1, <2>2, <2>3, <2>4, <2>5 DEF InsertIssue
  <2>7. cur.mov[k] = NoRow
    BY <2>6, SeesCurrent
  <2>8. issue \in Movement /\ issue # NoRow /\ issue.stock = s /\ issue.res = r
    <3>1. q \in Qty
      BY <2>3, <2>5 DEF Reservation
    <3>2. issue \in Movement
      BY <2>5, <3>1 DEF Movement, Reservation
    <3>3. QED
      BY <3>2, NoRowAssumption
  <2>9. ended \in Reservation /\ ended # NoRow /\ ended.wh = cur.res[r].wh
    BY <2>5, NoRowAssumption DEF Reservation
  <2>10. cur' = [cur EXCEPT !.mov[k] = issue, !.res[r] = ended]
    BY <2>6
  <2>11. /\ issue = [branch |-> cur.res[r].branch, stock |-> s, qty |-> q,
                     type |-> "ISSUE", res |-> r]
         /\ ended = [cur.res[r] EXCEPT !.status = "FULFILLED"]
    OBVIOUS
  <2> HIDE DEF issue, ended
  <2>12. /\ cur' \in Database /\ cur'.stock = cur.stock
         /\ cur'.mov = [cur.mov EXCEPT ![k] = issue]
         /\ cur'.res = [cur.res EXCEPT ![r] = ended]
    BY <1>2, <2>8, <2>9, <2>10 DEF TypeOK, Database, ReservationRow, MovementRow
  <2>13. /\ cur'.mov[k] = issue /\ \A x \in OpKeys : x # k => cur'.mov[x] = cur.mov[x]
         /\ cur'.res[r] = ended /\ \A x \in ResKey : x # r => cur'.res[x] = cur.res[x]
    BY <1>2, <2>12 DEF TypeOK, Database
  <2>14. /\ owner' \in [Rows -> Clients \cup {Nobody}]
         /\ \A row \in Rows : owner'[row] = owner[row] \/ (owner[row] = Nobody /\ owner'[row] = c)
         /\ owner'[<<"mov", k>>] = c
         /\ \A row \in Rows : owner[row] = c => owner'[row] = c
    BY <1>2, <2>6, RowsOfTables, TakeDoes
  <2>15. /\ Target(c) = s /\ owner[<<"stock", s>>] = c /\ owner'[<<"stock", s>>] = c
         /\ owner'[<<"res", r>>] = c
    BY <1>1, <1>2, <2>2, <2>5, <2>14, RowsOfTables DEF Target, Holds
  <2>16. /\ tx' \in [Clients -> [pc : PC, ops : Seq(Operation)]]
         /\ \A d \in Clients : d # c => tx'[d] = tx[d]
         /\ tx'[c].pc # "insert" /\ Ready(c)'
    BY <1>2, <2>6, ReturnDoes
  <2>17. Writes(c)
    <3>1. db' = db /\ usable' \subseteq StockKey
      BY <1>2, <2>6 DEF TypeOK
    <3>2. ASSUME NEW x \in ResKey, cur'.res[x] # cur.res[x]
          PROVE  /\ cur'.res[x] # NoRow /\ owner'[<<"res", x>>] = c
                 /\ owner'[<<"stock", <<cur'.res[x].wh, x[2]>>>>] = c
      <4>1. x = r /\ cur'.res[x] = ended
        BY <2>13, <3>2
      <4>2. QED
        BY <2>2, <2>9, <2>15, <4>1
    <3>3. ASSUME NEW x \in OpKeys, cur'.mov[x] # cur.mov[x]
          PROVE  /\ cur'.mov[x] # NoRow /\ owner'[<<"mov", x>>] = c
                 /\ owner'[<<"stock", cur'.mov[x].stock>>] = c
                 /\ \A y \in ResKey : IsIssueOf(cur'.mov, x, y) => owner'[<<"res", y>>] = c
      <4>1. x = k /\ cur'.mov[x] = issue
        BY <2>13, <3>3
      <4>2. QED
        BY <2>8, <2>14, <2>15, <4>1 DEF IsIssueOf
    <3>4. QED
      BY <2>12, <2>14, <2>16, <3>1, <3>2, <3>3 DEF Writes
  <2>18. /\ \A x \in StockKey : Unposted(c, x) => x = s
         /\ Settled.stock[s] = Before(c, s)
    <3>1. \A x \in StockKey : Unposted(c, x) <=> x = s
      BY <1>1, <2>15 DEF Unposted
    <3>2. QED
      BY <2>15, <3>1, SettledAt
  <2>19. /\ cur.stock[s] \in StockRow
         /\ cur.stock[s].onHand \in Nat /\ cur.stock[s].reserved \in Nat
    BY <1>2, RowTypes
  <2>20. /\ Settled.stock[s].onHand = cur.stock[s].onHand + q
         /\ Settled.stock[s].reserved = cur.stock[s].reserved + q
    <3>1. ~Adds(c)
      BY <1>1 DEF Adds
    <3>2. Before(c, s) = [onHand   |-> cur.stock[s].onHand - (0 - q),
                          reserved |-> cur.stock[s].reserved - (0 - q)]
      BY <1>1, <2>3, <3>1 DEF Before
    <3>3. QED
      BY <2>18, <2>19, <3>2
  <2>21. /\ Settled.res[r] = cur.res[r] /\ Settled.mov[k] = NoRow /\ RowOf(Settled, r) = s
    BY <2>2, <2>7, SettledTables DEF RowOf
  <2> DEFINE e == Fulfilled(Settled, r, k)
  <2>22. Sound(e) /\ Extends(Settled, e)
    <3>1. Issuable(Settled, r)
      BY <2>3, <2>19, <2>20, <2>21 DEF Issuable
    <3>2. QED
      BY <2>5, <2>21, <3>1, FulfilledSound DEF IInv
  <2>23. /\ e.res = cur'.res /\ e.mov = cur'.mov
         /\ e.stock = Adjust(Settled.stock, s, -q, -q)
    BY <2>3, <2>11, <2>12, <2>21, SettledTables DEF Fulfilled, SetStatus, Put
  <2>24. /\ e.stock[s] = cur'.stock[s]
         /\ \A x \in StockKey : x # s => e.stock[x] = Settled.stock[x]
    <3>1. e.stock[s] = [onHand |-> Settled.stock[s].onHand + (-q),
                        reserved |-> Settled.stock[s].reserved + (-q)]
      BY <2>23, SettledTables DEF Adjust
    <3>2. /\ Settled.stock[s].onHand + (-q) = cur.stock[s].onHand
          /\ Settled.stock[s].reserved + (-q) = cur.stock[s].reserved
      BY <2>19, <2>20
    <3>3. e.stock[s] = cur.stock[s]
      BY <2>19, <3>1, <3>2 DEF StockRow
    <3>4. QED
      BY <2>12, <2>23, <3>3, SettledTables DEF Adjust
  <2> HIDE DEF e
  <2>25. Covered(cur')
    BY <2>12 DEF IInv, Covered
  <2>26. QED
    BY <2>12, <2>15, <2>16, <2>17, <2>18, <2>22, <2>23, <2>24, <2>25, PostKeeps
<1>5. QED
  BY <1>3, <1>4

-----------------------------------------------------------------------------
(* The theorems.                                                           *)

\* Empty tables that nobody has touched.
LEMMA InitSound == Init => IInv
<1> SUFFICES ASSUME Init PROVE IInv
  OBVIOUS
<1>1. /\ db.stock = [s \in StockKey |-> [onHand |-> 0, reserved |-> 0]]
      /\ db.res = [r \in ResKey |-> NoRow] /\ db.mov = [k \in OpKeys |-> NoRow]
      /\ cur = db
  BY DEF Init
<1>2. Sound(db)
  BY <1>1, EmptySound
<1>3. TypeOK
  <2>1. db \in Database
    BY DEF Init, Database, StockRow, ReservationRow, MovementRow
  <2>2. owner \in [Rows -> Clients \cup {Nobody}] /\ usable \subseteq StockKey
    BY DEF Init
  <2>3. tx \in [Clients -> [pc : PC, ops : Seq(Operation)]]
    BY DEF Init, Idle, PC
  <2>4. QED
    BY <1>1, <2>1, <2>2, <2>3 DEF TypeOK
<1>4. \A s \in StockKey : Settled.stock[s] = cur.stock[s]
  BY RowsOfTables, SettledAt DEF Init
<1>5. Settled.stock = db.stock /\ Settled.res = db.res /\ Settled.mov = db.mov
  <2>1. db.stock = [s \in StockKey |-> db.stock[s]]
    BY <1>1
  <2>2. Settled.stock = db.stock
    BY <1>1, <1>4, <2>1, SettledTables
  <2>3. QED
    BY <1>1, <2>2, SettledTables
<1>6. Sound(Settled)
  BY <1>2, <1>5, SoundTables
<1>7. Extends(db, Settled)
  BY <1>5 DEF Extends, ReservationStep, MovementStep
<1>8. Covered(cur)
  BY <1>1, <1>2 DEF Sound
<1>9. FreeIsCommitted /\ WrittenWithStock
  BY <1>1 DEF FreeIsCommitted, WrittenWithStock
<1>10. \A c \in Clients : Ready(c)
  BY DEF Init, Idle, Ready
<1>11. QED
  BY <1>2, <1>3, <1>6, <1>7, <1>8, <1>9, <1>10 DEF IInv

\* Master data and no stock changes.
LEMMA SameKeeps ==
    ASSUME IInv, UNCHANGED <<db, cur, owner, tx>>, usable' \subseteq StockKey
    PROVE  IInv'
<1>1. TypeOK'
  BY DEF IInv, TypeOK
<1>2. Settled' = Settled
  BY DEF Settled, SettledRow, Unposted, Before, Target, HeldRow, HeldQty, StockOf, ResOf, Op, Adds
<1>3. \A c \in Clients : Ready(c)'
  BY DEF IInv, Ready, HoldsOpen, Target, HeldRow, Holds, StockOf, ResOf, Op, Ends
<1>4. QED
  BY <1>1, <1>2, <1>3 DEF IInv, FreeIsCommitted, WrittenWithStock

\* Every step keeps the invariant.
LEMMA NextKeeps == IInv /\ [Next]_vars => IInv'
<1> SUFFICES ASSUME IInv, [Next]_vars PROVE IInv'
  OBVIOUS
<1>1. CASE UNCHANGED vars
  BY <1>1, SameKeeps DEF vars, IInv, TypeOK
<1>2. CASE MasterDataChange
  BY <1>2, SameKeeps DEF MasterDataChange
<1>3. ASSUME NEW c \in Clients, Begin(c) \/ Step(c) \/ Fail(c) \/ AbortVictim(c)
      PROVE  IInv'
  <2>1. CASE Begin(c)
    BY <2>1, BeginKeeps
  <2>2. CASE Fail(c) \/ AbortVictim(c)
    BY <2>2, RollbackKeeps DEF Fail, AbortVictim
  <2>3. CASE FindMovement(c) \/ FindReservation(c) \/ AssertUsable(c) \/ LockStock(c)
    BY <2>3, FindMovementKeeps, FindReservationKeeps, AssertUsableKeeps, LockStockKeeps
  <2>4. CASE LockReservation(c) \/ FindIssue(c) \/ CommitTx(c)
    BY <2>4, LockReservationKeeps, FindIssueKeeps, CommitKeeps
  <2>5. CASE ReserveUnderLock(c) \/ AddToStock(c) \/ IssueStock(c)
    BY <2>5, ReserveUnderLockKeeps, AddToStockKeeps, IssueStockKeeps
  <2>6. CASE InsertReservation(c) \/ InsertMovement(c)
    BY <2>6, InsertReservationKeeps, InsertMovementKeeps
  <2>7. CASE ReleaseStock(c) \/ InsertIssue(c)
    BY <2>7, ReleaseStockKeeps, InsertIssueKeeps
  <2>8. QED
    BY <1>3, <2>1, <2>2, <2>3, <2>4, <2>5, <2>6, <2>7 DEF Step
<1>4. QED
  BY <1>1, <1>2, <1>3 DEF Next

\* Whatever interleaving of statements, waits, failures and retries led to a state, the
\* committed database and the settled one are sound, and every client stands where the
\* rows it holds allow it to go on.
THEOREM Invariance == Spec => []IInv
  BY InitSound, NextKeeps, PTL DEF Spec

\* Every variable has its type; no counter of a stock row goes below zero, not even
\* between two statements of a transaction.
THEOREM TypeCorrect == Spec => []TypeOK
<1>1. IInv => TypeOK
  BY DEF IInv
<1>2. QED
  BY <1>1, Invariance, PTL

\* The committed counters of every stock row are what the committed reservations and
\* movements add up to, however transactions overlap.
THEOREM CommittedCountersExact == Spec => []CommittedCountersMatchLedger
<1>1. IInv => CommittedCountersMatchLedger
  BY DEF IInv, Sound, Counted, CommittedCountersMatchLedger
<1>2. QED
  BY <1>1, Invariance, PTL

\* Only a commit changes what is committed, and it continues the history.
LEMMA CommittedExtends ==
    ASSUME IInv, [Next]_vars
    PROVE  Extends(db, db')
<1>1. CASE \E c \in Clients : CommitTx(c)
  BY <1>1, CommitKeeps
<1>2. CASE ~\E c \in Clients : CommitTx(c)
  <2>1. db' = db
    <3>1. \A c \in Clients : Rollback(c) => db' = db
      BY DEF Rollback
    <3>2. ASSUME NEW c \in Clients, Step(c) PROVE db' = db
      BY <1>2, <3>1, <3>2 DEF Step, FindMovement, FindReservation, AssertUsable, LockStock,
         ReserveUnderLock, AddToStock, InsertReservation, InsertMovement, InsertRow,
         AnswerFromPrior, LockReservation, FindIssue, ReleaseStock, IssueStock, InsertIssue
    <3>3. QED
      BY <3>1, <3>2 DEF Next, vars, Begin, Fail, AbortVictim, MasterDataChange
  <2>2. QED
    BY <2>1, ExtendsItself
<1>3. QED
  BY <1>1, <1>2

\* The ledger's rows and totals, under the names they have here.
LEMMA SameRows ==
    /\ Ledger!ResKey = ResKey /\ Ledger!ReservationRow = ReservationRow
    /\ Ledger!MovementRow = MovementRow
    /\ \A a, b : Ledger!ReservationStep(a, b) <=> ReservationStep(a, b)
    /\ \A a, b : Ledger!MovementStep(a, b) <=> MovementStep(a, b)
    /\ Ledger!Solvent(db.res', db.mov') <=> Solvent(db.res', db.mov')
    /\ Ledger!IssuedOnce(db.res', db.mov') <=> IssuedOnce(db.res', db.mov')
<1>1. Ledger!ResKey = ResKey /\ Ledger!StockKey = StockKey /\ Ledger!Qty = Qty
  BY DEF ResKey, Ledger!ResKey, StockKey, Ledger!StockKey, Qty, Ledger!Qty
<1>2. Ledger!ReservationRow = ReservationRow
  BY <1>1 DEF ReservationRow, Ledger!ReservationRow, Reservation, Ledger!Reservation
<1>3. Ledger!MovementRow = MovementRow
  BY <1>1 DEF MovementRow, Ledger!MovementRow, Movement, Ledger!Movement
<1>4. \A a, b : Ledger!ReservationStep(a, b) <=> ReservationStep(a, b)
  BY DEF ReservationStep, Ledger!ReservationStep
<1>5. \A a, b : Ledger!MovementStep(a, b) <=> MovementStep(a, b)
  BY DEF MovementStep, Ledger!MovementStep
<1>0. \A S : Ledger!Cardinality(S) = Cardinality(S)
  BY DEF Ledger!Cardinality, Cardinality, Ledger!IsFiniteSet, IsFiniteSet
<1>6. \A s : Ledger!Held(db.res', s) = Held(db.res', s)
  <2>1. \A s : Ledger!HeldUnits(db.res', s) = HeldUnits(db.res', s)
    BY <1>1 DEF HeldUnits, Ledger!HeldUnits
  <2>2. QED
    BY <1>0, <2>1 DEF Held, Ledger!Held
<1>7. \A s : /\ Ledger!Issued(db.mov', s) = Issued(db.mov', s)
             /\ Ledger!Incoming(db.mov', s) = Incoming(db.mov', s)
  <2>1. \A s, types : Ledger!MovedUnits(db.mov', s, types) = MovedUnits(db.mov', s, types)
    BY <1>1 DEF MovedUnits, Ledger!MovedUnits
  <2>2. QED
    BY <1>0, <2>1 DEF Issued, Ledger!Issued, Incoming, Ledger!Incoming
<1>8. Ledger!Solvent(db.res', db.mov') <=> Solvent(db.res', db.mov')
  BY <1>1, <1>6, <1>7 DEF Solvent, Ledger!Solvent
<1>9. Ledger!IssuedOnce(db.res', db.mov') <=> IssuedOnce(db.res', db.mov')
  BY <1>1 DEF IssuedOnce, Ledger!IssuedOnce, IsIssueOf, Ledger!IsIssueOf
<1>10. QED
  BY <1>1, <1>2, <1>3, <1>4, <1>5, <1>8, <1>9

\* Concurrent transactions implement the ledger: every commit adds to the history of
\* reservations and movements, rewrites none of it, issues a reservation once and leaves
\* no more stock held than there is.
THEOREM LedgerRefinement == Spec => ImplementsLedger
<1>1. Init => Ledger!LedgerInit
  BY SameRows DEF Init, Ledger!LedgerInit
<1>2. IInv /\ IInv' /\ [Next]_vars => [Ledger!Post]_(Ledger!ledgerVars)
  <2> SUFFICES ASSUME IInv, IInv', [Next]_vars PROVE Ledger!Post
    OBVIOUS
  <2>1. Extends(db, db')
    BY CommittedExtends
  <2>2. Sound(db')
    BY DEF IInv
  <2>3. Solvent(db.res', db.mov')
    BY <2>2, SoundIsSolvent
  <2>4. /\ \A r \in ResKey : ReservationStep(db.res[r], db.res'[r])
        /\ \A k \in OpKeys : MovementStep(db.mov[k], db.mov'[k])
    BY <2>1 DEF Extends
  <2>5. /\ db.res' \in [ResKey -> ReservationRow] /\ db.mov' \in [OpKeys -> MovementRow]
        /\ IssuedOnce(db.res', db.mov')
    BY <2>2 DEF Sound, Typed
  <2>6. QED
    BY <2>3, <2>4, <2>5, SameRows DEF Ledger!Post
<1>3. QED
  BY <1>1, <1>2, Invariance, PTL DEF Spec, ImplementsLedger, Ledger!LedgerSpec

=============================================================================
