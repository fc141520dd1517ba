------------------------- MODULE PayrollRulesProofs -------------------------
(***************************************************************************)
(* Lemmas about the operators of PayrollRules: what handlers insert, what  *)
(* their writes do to an employee's rows, and which row is current then.   *)
(***************************************************************************)
EXTENDS PayrollRules, SequenceTheorems, WellFoundedInduction, TLAPS

\* What a handler inserts: no row or one.
Insertion == {<<>>} \cup {<<row>> : row \in PayRate}

LEMMA RowInserted ==
  ASSUME NEW row
  PROVE  /\ <<row>> # <<>> /\ Len(<<row>>) = 1 /\ <<row>>[1] = row
         /\ <<row>> \in Insertion <=> row \in PayRate
<1>1. <<row>> # <<>> /\ Len(<<row>>) = 1 /\ <<row>>[1] = row
  OBVIOUS
<1>2. ASSUME <<row>> \in Insertion PROVE row \in PayRate
  <2>1. PICK found \in PayRate : <<row>> = <<found>>
    BY <1>1, <1>2 DEF Insertion
  <2>2. <<found>>[1] = found
    OBVIOUS
  <2>. QED
    BY <1>1, <2>1, <2>2
<1>3. ASSUME row \in PayRate PROVE <<row>> \in Insertion
  BY <1>3 DEF Insertion
<1>. QED
  BY <1>1, <1>2, <1>3

LEMMA FoundRowType ==
  ASSUME NEW rows \in Seq(PayRate)
  PROVE  /\ CurrentRate(rows) \subseteq PayRate
         /\ LatestRate(rows) \subseteq PayRate
<1>1. \A i \in DOMAIN rows : rows[i] \in PayRate
  BY ElementOfSeq
<1>2. rows # <<>> => Len(rows) \in DOMAIN rows
  BY EmptySeq, LenProperties
<1>. QED
  BY <1>1, <1>2 DEF CurrentRate, LatestRate, Active

\* What the column holds is a number, and it keeps it.
LEMMA StoredFacts ==
  /\ StoredRates \subseteq Rates /\ 0 \in StoredRates
  /\ \A r \in Rates : Stored[r] \in StoredRates
  /\ \A r \in StoredRates : Stored[r] = r
<1>1. StoredRates \subseteq Rates /\ 0 \in StoredRates
  BY StorageAssumption, PayloadAssumption DEF StoredRates
<1>2. \A r \in Rates : Stored[r] \in StoredRates
  BY DEF StoredRates
<1>3. \A r \in StoredRates : Stored[r] = r
  BY StorageAssumption DEF StoredRates
<1>. QED
  BY <1>1, <1>2, <1>3

LEMMA TakenRowType ==
  ASSUME NEW found \in SUBSET PayRate
  PROVE  /\ RateOr0(found) \in StoredRates
         /\ TypeOrHourly(found) \in PayTypes
<1>1. CASE found = {}
  BY <1>1, StoredFacts DEF RateOr0, TypeOrHourly, PayTypes
<1>2. CASE found # {}
  <2>1. TheRow(found) \in PayRate
    BY <1>2 DEF TheRow
  <2>. QED
    BY <1>2, <2>1 DEF RateOr0, TypeOrHourly, PayRate
<1>. QED
  BY <1>1, <1>2

\* Every handler inserts at most one row, and a well-formed one.
LEMMA HandleType ==
  ASSUME NEW action \in {"CREATE", "UPDATE", "DELETE"},
         NEW k \in Keys, NEW payload \in Payloads, NEW rows \in Seq(PayRate)
  PROVE  Handle(action, k, payload, rows) \in Insertion
<1>. USE DEF Insertion
<1>1. /\ payload.rate \in Rates \cup {Absent}
      /\ payload.type \in PayTypes \cup {Absent}
  BY PayloadAssumption
<1>2. HandleCreate(k, payload, rows) \in Insertion
  <2>. DEFINE rate == IF payload.rate = Absent THEN 0 ELSE Stored[payload.rate]
              type == NormalizePayType(payload.type)
              row == [rate |-> rate, type |-> type, active |-> TRUE, by |-> k]
  <2>1. rate \in StoredRates /\ type \in PayTypes
    BY <1>1, StoredFacts, PayloadAssumption DEF NormalizePayType, PayTypes
  <2>2. row \in PayRate
    BY <2>1 DEF PayRate
  <2>3. HandleCreate(k, payload, rows) \in {<<>>, <<row>>}
    BY DEF HandleCreate
  <2>. QED
    BY <2>2, <2>3
<1>3. HandleUpdate(k, payload, rows) \in Insertion
  <2>. DEFINE current == CurrentRate(rows)
              rate == IF payload.rate = Absent THEN RateOr0(current)
                      ELSE payload.rate
              type == IF payload.type = Absent THEN TypeOrHourly(current)
                      ELSE payload.type
              row == [rate |-> Stored[rate], type |-> type, active |-> TRUE, by |-> k]
  <2>1. Stored[rate] \in StoredRates /\ type \in PayTypes
    BY <1>1, FoundRowType, TakenRowType, StoredFacts
  <2>2. row \in PayRate
    BY <2>1 DEF PayRate
  <2>3. HandleUpdate(k, payload, rows) \in {<<>>, <<row>>}
    BY DEF HandleUpdate
  <2>. QED
    BY <2>2, <2>3
<1>4. HandleDelete(k, rows) \in Insertion
  <2>. DEFINE current == CurrentRate(rows)
              latest == IF current # {} THEN current ELSE LatestRate(rows)
              row == [rate |-> RateOr0(latest), type |-> "TERMINATED",
                      active |-> FALSE, by |-> k]
  <2>1. RateOr0(latest) \in StoredRates
    BY FoundRowType, TakenRowType
  <2>2. row \in PayRate
    BY <2>1 DEF PayRate, PayTypes
  <2>3. HandleDelete(k, rows) \in {<<>>, <<row>>}
    BY DEF HandleDelete
  <2>. QED
    BY <2>2, <2>3
<1>. QED
  BY <1>2, <1>3, <1>4 DEF Handle

\* Deactivation keeps every row but for its flag.
LEMMA DeactivateRows ==
  ASSUME NEW rows \in Seq(PayRate)
  PROVE  /\ Deactivate(rows) \in Seq(PayRate)
         /\ Len(Deactivate(rows)) = Len(rows)
         /\ \A i \in 1 .. Len(rows) :
              Deactivate(rows)[i] = Closed(rows[i])
<1>1. ASSUME NEW row \in PayRate
      PROVE  Closed(row) \in PayRate
  BY DEF PayRate, Closed
<1>2. Deactivate(rows) \in [1 .. Len(rows) -> PayRate]
  BY <1>1, ElementOfSeq, LenProperties DEF Deactivate
<1>3. Deactivate(rows) \in Seq(PayRate) /\ Len(Deactivate(rows)) = Len(rows)
  BY <1>2, LenProperties, SeqDef
<1>. QED
  BY <1>3, LenProperties DEF Deactivate

LEMMA AppendedRow ==
  ASSUME NEW S, NEW s \in Seq(S), NEW t \in Seq(S), Len(t) = 1
  PROVE  /\ s \o t \in Seq(S)
         /\ Len(s \o t) = Len(s) + 1
         /\ \A i \in 1 .. Len(s) : (s \o t)[i] = s[i]
         /\ (s \o t)[Len(s) + 1] = t[1]
<1>1. Len(s) \in Nat
  BY LenProperties
<1>2. /\ s \o t \in Seq(S)
      /\ Len(s \o t) = Len(s) + Len(t)
      /\ \A i \in 1 .. Len(s) + Len(t) :
           (s \o t)[i] = IF i <= Len(s) THEN s[i] ELSE t[i - Len(s)]
  BY ConcatProperties
<1>. QED
  BY <1>1, <1>2

(***************************************************************************)
(* A write keeps the rows that are there, in place, but may deactivate     *)
(* them, and adds as many rows as the handler inserts.                     *)
(***************************************************************************)
LEMMA WriteRows ==
  ASSUME NEW action, NEW rows \in Seq(PayRate), NEW inserted \in Insertion
  PROVE  /\ Write(action, rows, inserted) \in Seq(PayRate)
         /\ Len(Write(action, rows, inserted)) = Len(rows) + Len(inserted)
         /\ \A i \in 1 .. Len(rows) :
              Write(action, rows, inserted)[i] =
                IF inserted = <<>> \/ action = "CREATE" THEN rows[i]
                ELSE Closed(rows[i])
         /\ inserted # <<>> =>
              Write(action, rows, inserted)[Len(rows) + 1] = inserted[1]
<1>1. CASE inserted = <<>>
  BY <1>1 DEF Write
<1>2. CASE inserted # <<>>
  <2>. DEFINE kept == IF action = "CREATE" THEN rows ELSE Deactivate(rows)
  <2>1. /\ inserted \in Seq(PayRate)
        /\ Len(inserted) = 1
    <3>1. PICK row \in PayRate : inserted = <<row>>
      BY <1>2 DEF Insertion
    <3>. QED
      BY <3>1
  <2>2. /\ kept \in Seq(PayRate)
        /\ Len(kept) = Len(rows)
        /\ \A i \in 1 .. Len(rows) :
             kept[i] = IF action = "CREATE" THEN rows[i]
                       ELSE Closed(rows[i])
    BY DeactivateRows
  <2>3. Write(action, rows, inserted) = kept \o inserted
    BY <1>2 DEF Write
  <2>. HIDE DEF kept
  <2>4. /\ kept \o inserted \in Seq(PayRate)
        /\ Len(kept \o inserted) = Len(rows) + 1
        /\ \A i \in 1 .. Len(rows) : (kept \o inserted)[i] = kept[i]
        /\ (kept \o inserted)[Len(rows) + 1] = inserted[1]
    BY <2>1, <2>2, AppendedRow
  <2>. QED
    BY <1>2, <2>1, <2>2, <2>3, <2>4
<1>. QED
  BY <1>1, <1>2

LEMMA WriteRow ==
  ASSUME NEW action, NEW rows \in Seq(PayRate), NEW row \in PayRate
  PROVE  /\ Write(action, rows, <<row>>) \in Seq(PayRate)
         /\ Len(Write(action, rows, <<row>>)) = Len(rows) + 1
         /\ \A i \in 1 .. Len(rows) :
              Write(action, rows, <<row>>)[i] =
                IF action = "CREATE" THEN rows[i] ELSE Closed(rows[i])
         /\ Write(action, rows, <<row>>)[Len(rows) + 1] = row
<1>. DEFINE inserted == <<row>>
<1>1. inserted \in Insertion /\ inserted # <<>> /\ Len(inserted) = 1 /\ inserted[1] = row
  BY RowInserted
<1>. HIDE DEF inserted
<1>2. /\ Write(action, rows, inserted) \in Seq(PayRate)
      /\ Len(Write(action, rows, inserted)) = Len(rows) + Len(inserted)
      /\ \A i \in 1 .. Len(rows) :
           Write(action, rows, inserted)[i] =
             IF inserted = <<>> \/ action = "CREATE" THEN rows[i] ELSE Closed(rows[i])
      /\ inserted # <<>> => Write(action, rows, inserted)[Len(rows) + 1] = inserted[1]
  BY <1>1, WriteRows
<1>3. /\ Write(action, rows, inserted) \in Seq(PayRate)
      /\ Len(Write(action, rows, inserted)) = Len(rows) + 1
      /\ \A i \in 1 .. Len(rows) :
           Write(action, rows, inserted)[i] =
             IF action = "CREATE" THEN rows[i] ELSE Closed(rows[i])
      /\ Write(action, rows, inserted)[Len(rows) + 1] = row
  BY <1>1, <1>2
<1>. QED
  BY <1>3 DEF inserted

-----------------------------------------------------------------------------
(***************************************************************************)
(* The current row.                                                        *)
(***************************************************************************)
LEMMA Highest ==
  ASSUME NEW n \in Nat, NEW S, S \subseteq 1 .. n, S # {}
  PROVE  \E x \in S : \A y \in S : y <= x
<1>. DEFINE R == {ss \in Nat \X Nat : ss[1] < ss[2]}
            T == {n - x : x \in S}
<1>1. IsWellFoundedOn(R, Nat)
  BY NatLessThanWellFounded DEF OpToRel
<1>2. \A x, y \in Nat : x < y => <<x, y>> \in R
  OBVIOUS
<1>3. T \subseteq Nat /\ T # {}
  <2>1. \A x \in S : x \in Nat /\ n - x \in Nat
    OBVIOUS
  <2>. QED
    BY <2>1
<1>. HIDE DEF R, T
<1>4. PICK t \in T : \A u \in T : ~ (<<u, t>> \in R)
  BY <1>1, <1>3, WFMin
<1>5. PICK x \in S : t = n - x
  BY DEF T
<1>6. ASSUME NEW y \in S PROVE y <= x
  <2>1. n - y \in T /\ n - y \in Nat /\ t \in Nat
    BY <1>3 DEF T
  <2>2. ~ (n - y < t)
    BY <1>2, <1>4, <2>1
  <2>3. x \in Nat /\ y \in Nat /\ n \in Nat
    OBVIOUS
  <2>. QED
    BY <1>5, <2>2, <2>3
<1>. QED
  BY <1>6

\* There is a current row as soon as there is an active one.
LEMMA CurrentExists ==
  ASSUME NEW rows \in Seq(PayRate)
  PROVE  CurrentRate(rows) = {} <=> Active(rows) = {}
<1>1. Len(rows) \in Nat /\ Active(rows) \subseteq 1 .. Len(rows)
  BY LenProperties DEF Active
<1>. DEFINE newest == {j \in Active(rows) : \A k \in Active(rows) : k <= j}
<1>2. Active(rows) # {} => newest # {}
  BY <1>1, Highest
<1>3. newest \subseteq Active(rows)
  OBVIOUS
<1>4. CurrentRate(rows) = {rows[i] : i \in newest}
  BY DEF CurrentRate
<1>. HIDE DEF newest
<1>5. CurrentRate(rows) = {} <=> newest = {}
  BY <1>4
<1>. QED
  BY <1>2, <1>3, <1>5

(***************************************************************************)
(* An active row written last is the current one; an inactive one written  *)
(* after all others were deactivated leaves none active.                   *)
(***************************************************************************)
LEMMA InsertedIsCurrent ==
  ASSUME NEW action, NEW rows \in Seq(PayRate), NEW row \in PayRate, row.active
  PROVE  row \in CurrentRate(Write(action, rows, <<row>>))
<1>. DEFINE after == Write(action, rows, <<row>>)
            n == Len(rows)
<1>2. after \in Seq(PayRate) /\ Len(after) = n + 1 /\ after[n + 1] = row
  BY WriteRow
<1>3. n \in Nat /\ DOMAIN after = 1 .. n + 1
  BY <1>2, LenProperties
<1>. HIDE DEF after, n
<1>4. n + 1 \in 1 .. n + 1 /\ \A k \in 1 .. n + 1 : k <= n + 1
  <2>1. \A m \in Nat : m + 1 \in 1 .. m + 1 /\ \A k \in 1 .. m + 1 : k <= m + 1
    OBVIOUS
  <2>. QED
    BY <1>3, <2>1, Zenon
<1>5. n + 1 \in Active(after) /\ \A k \in Active(after) : k <= n + 1
  BY <1>2, <1>3, <1>4 DEF Active
<1>6. row \in CurrentRate(after)
  BY <1>2, <1>5 DEF CurrentRate
<1>. QED
  BY <1>6 DEF after

LEMMA InactiveLeavesNone ==
  ASSUME NEW action, action # "CREATE", NEW rows \in Seq(PayRate),
         NEW row \in PayRate, ~row.active
  PROVE  Active(Write(action, rows, <<row>>)) = {}
<1>. DEFINE after == Write(action, rows, <<row>>)
            n == Len(rows)
<1>2. /\ after \in Seq(PayRate) /\ Len(after) = n + 1 /\ after[n + 1] = row
      /\ \A i \in 1 .. n : after[i] = Closed(rows[i])
  BY WriteRow
<1>3. n \in Nat /\ DOMAIN after = 1 .. n + 1
  BY <1>2, LenProperties
<1>4. \A i \in 1 .. n : rows[i] \in PayRate
  BY ElementOfSeq
<1>5. \A r \in PayRate : ~Closed(r).active
  BY DEF Closed, PayRate
<1>. HIDE DEF after, n
<1>6. \A i \in 1 .. n + 1 : i \in 1 .. n \/ i = n + 1
  BY <1>3
<1>7. \A i \in DOMAIN after : ~after[i].active
  BY <1>2, <1>3, <1>4, <1>5, <1>6
<1>. QED
  BY <1>7 DEF Active, after

(***************************************************************************)
(* A mutation that carries a rate and is applied to the rows it was read   *)
(* from leaves a current row of what the column makes of the rate, a       *)
(* DELETE leaves none active.                                              *)
(***************************************************************************)
LEMMA HandledIsCurrent ==
  ASSUME NEW action \in {"CREATE", "UPDATE", "DELETE"}, NEW k \in Keys,
         NEW payload \in Payloads, payload.rate # Absent, NEW rows \in Seq(PayRate),
         action = "CREATE" => Active(rows) = {}
  PROVE  LET after == Write(action, rows, Handle(action, k, payload, rows))
         IN IF action = "DELETE" THEN Active(after) = {}
            ELSE \E row \in CurrentRate(after) : row.rate = Stored[payload.rate]
<1>. DEFINE inserted == Handle(action, k, payload, rows)
            after == Write(action, rows, inserted)
<1>1. inserted \in Insertion
  BY HandleType
<1>2. CASE action = "CREATE"
  <2>. DEFINE row == [rate |-> Stored[payload.rate], type |-> NormalizePayType(payload.type),
                      active |-> TRUE, by |-> k]
  <2>1. inserted = <<row>>
    BY <1>2 DEF Handle, HandleCreate
  <2>2. row \in PayRate /\ row.active /\ row.rate = Stored[payload.rate]
    BY <1>1, <2>1, RowInserted
  <2>. QED
    BY <1>2, <2>1, <2>2, InsertedIsCurrent
<1>3. CASE action = "UPDATE"
  <2>. DEFINE current == CurrentRate(rows)
              type == IF payload.type = Absent THEN TypeOrHourly(current) ELSE payload.type
              row == [rate |-> Stored[payload.rate], type |-> type, active |-> TRUE, by |-> k]
              unchanged == \E found \in current :
                             found.rate = payload.rate /\ found.type = type
  <2>1. inserted = IF unchanged THEN <<>> ELSE <<row>>
    BY <1>3 DEF Handle, HandleUpdate
  <2>2. CASE unchanged
    <3>1. after = rows
      BY <2>1, <2>2 DEF Write
    <3>2. PICK found \in current : found.rate = payload.rate
      BY <2>2
    <3>3. found.rate \in StoredRates
      BY FoundRowType DEF PayRate
    <3>. QED
      BY <1>3, <3>1, <3>2, <3>3, StoredFacts
  <2>3. CASE ~unchanged
    <3>1. inserted = <<row>>
      BY <2>1, <2>3
    <3>2. row \in PayRate /\ row.active /\ row.rate = Stored[payload.rate]
      BY <1>1, <3>1, RowInserted
    <3>. QED
      BY <1>3, <3>1, <3>2, InsertedIsCurrent
  <2>. QED
    BY <2>2, <2>3
<1>4. CASE action = "DELETE"
  <2>. DEFINE current == CurrentRate(rows)
              latest == IF current # {} THEN current ELSE LatestRate(rows)
              row == [rate |-> RateOr0(latest), type |-> "TERMINATED",
                      active |-> FALSE, by |-> k]
              closed == current = {} /\ TypeOrHourly(latest) = "TERMINATED"
  <2>1. inserted = IF closed THEN <<>> ELSE <<row>>
    BY <1>4 DEF Handle, HandleDelete
  <2>2. CASE closed
    <3>1. after = rows
      BY <2>1, <2>2 DEF Write
    <3>. QED
      BY <1>4, <2>2, <3>1, CurrentExists
  <2>3. CASE ~closed
    <3>1. inserted = <<row>>
      BY <2>1, <2>3
    <3>2. row \in PayRate /\ ~row.active
      BY <1>1, <3>1, RowInserted
    <3>. QED
      BY <1>4, <3>1, <3>2, InactiveLeavesNone
  <2>. QED
    BY <2>2, <2>3
<1>. QED
  BY <1>2, <1>3, <1>4

(***************************************************************************)
(* Of the rows of an employee, none that is active says TERMINATED, and    *)
(* one that says so is there only once it may be.                          *)
(***************************************************************************)
RowsAreRight(rows, mayEnd) ==
  \A i \in DOMAIN rows : rows[i].type = "TERMINATED" => ~rows[i].active /\ mayEnd

LEMMA HandledRowsAreRight ==
  ASSUME NEW action \in {"CREATE", "UPDATE", "DELETE"}, NEW k \in Keys,
         NEW payload \in Payloads, NEW rows \in Seq(PayRate), NEW mayEnd,
         RowsAreRight(rows, mayEnd), action = "DELETE" => mayEnd
  PROVE  RowsAreRight(Write(action, rows, Handle(action, k, payload, rows)), mayEnd)
<1>. DEFINE inserted == Handle(action, k, payload, rows)
            after == Write(action, rows, inserted)
            n == Len(rows)
<1>1. inserted \in Insertion
  BY HandleType
<1>2. \A row \in CurrentRate(rows) : row.type # "TERMINATED"
  BY DEF CurrentRate, Active, RowsAreRight
<1>3. TypeOrHourly(CurrentRate(rows)) # "TERMINATED"
  BY <1>2 DEF TypeOrHourly, TheRow
<1>4. payload.type # "TERMINATED"
  BY PayloadAssumption DEF PayTypes
<1>5. inserted # <<>> /\ inserted[1].type = "TERMINATED" => ~inserted[1].active /\ mayEnd
  <2>1. CASE action = "CREATE"
    BY <1>4, <2>1 DEF Handle, HandleCreate, NormalizePayType
  <2>2. CASE action = "UPDATE"
    BY <1>3, <1>4, <2>2 DEF Handle, HandleUpdate
  <2>3. CASE action = "DELETE"
    BY <2>3 DEF Handle, HandleDelete
  <2>. QED
    BY <2>1, <2>2, <2>3
<1>. HIDE DEF inserted
<1>6. /\ after \in Seq(PayRate) /\ Len(after) = n + Len(inserted)
      /\ \A i \in 1 .. n : after[i] = IF inserted = <<>> \/ action = "CREATE" THEN rows[i]
                                     ELSE Closed(rows[i])
      /\ inserted # <<>> => after[n + 1] = inserted[1]
  BY <1>1, WriteRows
<1>7. n \in Nat /\ DOMAIN rows = 1 .. n /\ DOMAIN after = 1 .. n + Len(inserted)
  BY <1>6, LenProperties
<1>8. IF inserted = <<>> THEN Len(inserted) = 0 ELSE Len(inserted) = 1
  BY <1>1 DEF Insertion
<1>9. \A i \in 1 .. n : rows[i] \in PayRate
  BY ElementOfSeq
<1>10. \A r \in PayRate : ~Closed(r).active /\ Closed(r).type = r.type
  BY DEF Closed, PayRate
<1>. HIDE DEF after, n
<1>11. ASSUME NEW i \in 1 .. n + Len(inserted), i \notin 1 .. n
       PROVE  i = n + 1 /\ inserted # <<>>
  <2>1. \A m, l \in Nat : \A j \in 1 .. m + l :
          l \in {0, 1} => j \in 1 .. m \/ (j = m + 1 /\ l = 1)
    OBVIOUS
  <2>2. Len(inserted) \in Nat /\ Len(inserted) \in {0, 1}
    BY <1>8
  <2>3. i = n + 1 /\ Len(inserted) = 1
    BY <1>7, <1>11, <2>1, <2>2, Zenon
  <2>. QED
    BY <1>8, <2>3
<1>12. ASSUME NEW i \in 1 .. n, after[i].type = "TERMINATED"
       PROVE  ~after[i].active /\ mayEnd
  BY <1>6, <1>7, <1>9, <1>10, <1>12 DEF RowsAreRight
<1>13. RowsAreRight(after, mayEnd)
  BY <1>5, <1>6, <1>7, <1>11, <1>12 DEF RowsAreRight
<1>. QED
  BY <1>13 DEF after, inserted
=============================================================================
