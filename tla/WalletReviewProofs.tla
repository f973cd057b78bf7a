------------------------- MODULE WalletReviewProofs -------------------------
(***************************************************************************)
(* Theorems about the wallet review, for every number of bars on a page    *)
(* and every set of transactions the deserialisers accept: the tables show *)
(* the records of their page, the details those of the tapped bar, and the *)
(* review implements FullReview.                                           *)
(***************************************************************************)
EXTENDS WalletReview, SequenceTheorems, TLAPS

-----------------------------------------------------------------------------
(* Arithmetic.                                                             *)

LEMMA SmallMod ==
  ASSUME NEW a \in Nat, NEW m \in Nat, a < m
  PROVE  a % m = a
BY SMT

LEMMA DivMod ==
  ASSUME NEW a \in Int, NEW m \in Nat \ {0}
  PROVE  /\ a % m \in 0..m - 1 /\ a \div m \in Int
         /\ a = (m * (a \div m)) + (a % m)
BY SMT

\* A whole number of turns does not move a slot.
LEMMA ShiftMod ==
  ASSUME NEW s \in Nat, NEW k \in Nat, NEW m \in Nat, s < m
  PROVE  (s - k * m) % m = s
<1> DEFINE a == s - k * m
           q == a \div m
           r == a % m
<1>1. a \in Int /\ m \in Nat \ {0}
  BY SMT
<1>2. r \in 0..m - 1 /\ a = m * q + r /\ q \in Int
  BY <1>1, DivMod
<1> HIDE DEF q, r
<1>3. m * (q + k) = s - r
  BY <1>2, SMT
<1>4. CASE q + k >= 1
  <2>1. m * (q + k) >= m
    BY <1>4, <1>2, <1>1, SMT
  <2> QED  BY <2>1, <1>2, <1>3
<1>5. CASE q + k <= -1
  <2>1. m * (q + k) <= -m
    BY <1>5, <1>2, <1>1, SMT
  <2> QED  BY <2>1, <1>2, <1>3
<1>6. CASE q + k = 0
  <2>1. m * (q + k) = 0
    BY <1>6, <1>1
  <2>2. s = r
    BY <2>1, <1>2, <1>3
  <2> QED  BY <2>2 DEF r
<1> QED  BY <1>2, <1>4, <1>5, <1>6

LEMMA ByteSmall ==
  ASSUME NEW n \in Nat, n <= ByteMax
  PROVE  Byte(n) = n
BY SmallMod, WalletAssumption DEF Byte

-----------------------------------------------------------------------------
(* The table.                                                              *)

\* A page with a bar lies within the records, and its numbers within a byte.
LEMMA PageWithinRecords ==
  ASSUME NEW t \in Transactions, NEW p \in Nat, BarCount(t, p) > 0
  PROVE  /\ BarCount(t, p) \in 1..Bars
         /\ p * Bars \in Nat /\ Byte(p * Bars) = p * Bars
         /\ p * Bars + BarCount(t, p) <= t.count
<1>1. /\ t.count \in Nat /\ 2 * t.count + 1 <= ByteMax
      /\ Bars \in Nat \ {0} /\ ByteMax \in Nat
  BY WalletAssumption
<1>2. p * Bars \in Nat
  BY <1>1, SMT
<1>3. BarCount(t, p) \in 1..Bars /\ p * Bars + BarCount(t, p) <= t.count
  BY <1>1, <1>2 DEF BarCount
<1>4. Byte(p * Bars) = p * Bars
  BY <1>1, <1>2, <1>3, ByteSmall
<1> QED  BY <1>2, <1>3, <1>4

\* The first slots of a page hold the parts of its records.
LEMMA FilledSlots ==
  ASSUME NEW p \in Nat, NEW count \in 1..Bars,
         p * Bars \in Nat, Byte(p * Bars) = p * Bars,
         NEW s \in Nat, s < 2 * count
  PROVE  Filled(p, count)[s] = 2 * (p * Bars) + s
<1>1. Bars \in Nat \ {0}
  BY WalletAssumption
<1> DEFINE first == 2 * (p * Bars)
           width == 2 * Bars
<1>2. first = p * width
  BY <1>1, SMT
<1>3. s \in Slots /\ width \in Nat /\ s < width
  BY <1>1 DEF Slots
<1> HIDE DEF width
<1>4. (s - first) % width = s
  <2>1. (s - p * width) % width = s
    BY <1>3, ShiftMod
  <2> QED  BY <2>1, <1>2
<1>5. first + ((s - first) % width) < first + 2 * count
  BY <1>4
<1> QED  BY <1>3, <1>4, <1>5 DEF Filled, width

\* The table on the display is the one of the current page.
TableOfPage ==
  layer = "table" =>
    LET count == BarCount(subject, modalPage)
    IN  /\ count > 0
        /\ rows = [i \in 1..count |-> Row(modalPage, i)]
        /\ \A s \in Nat : s < 2 * count => slots[s] = 2 * (modalPage * Bars) + s

\* The context is that of the transaction under review until it is cleared.
TableInv ==
  /\ subject \in Transactions
  /\ modalPage \in Nat
  /\ slots = [s \in Slots |-> slots[s]]
  /\ layer \notin {"error", "undefined"} => tx = subject
  /\ TableOfPage
  /\ DetailsShowTapped

LEMMA TableFacts ==
  ASSUME TableInv
  PROVE  TableShowsItsPage
<1> SUFFICES ASSUME layer = "table", NEW i \in DOMAIN rows
             PROVE  /\ rows[i].no \in 1..subject.count
                    /\ rows[i].item = 2 * (rows[i].no - 1)
                    /\ slots[2 * i - 2] = rows[i].item
                    /\ slots[2 * i - 1] = rows[i].item + 1
  BY DEF TableShowsItsPage
<1> DEFINE count == BarCount(subject, modalPage)
           before == modalPage * Bars
<1>1. /\ count > 0 /\ rows = [b \in 1..count |-> Row(modalPage, b)]
      /\ \A s \in Nat : s < 2 * count => slots[s] = 2 * before + s
      /\ subject \in Transactions /\ modalPage \in Nat
  BY DEF TableInv, TableOfPage
<1>2. /\ count \in 1..Bars /\ before \in Nat /\ Byte(before) = before
      /\ before + count <= subject.count
  BY <1>1, PageWithinRecords
<1>3. Bars \in Nat /\ subject.count \in Nat
  BY <1>1, WalletAssumption
<1>4. i \in 1..count /\ rows[i] = Row(modalPage, i)
  BY <1>1
<1>5. rows[i].no = before + i /\ rows[i].item = 2 * (before + i - 1)
  BY <1>2, <1>4 DEF Row
<1> HIDE DEF count, before
<1>6. 2 * i - 2 \in Nat /\ 2 * i - 2 < 2 * count /\ 2 * i - 1 \in Nat /\ 2 * i - 1 < 2 * count
  BY <1>2, <1>3, <1>4
<1>7. slots[2 * i - 2] = 2 * before + (2 * i - 2) /\ slots[2 * i - 1] = 2 * before + (2 * i - 1)
  BY <1>1, <1>6
<1> QED  BY <1>2, <1>3, <1>4, <1>5, <1>7

LEMMA InitTable == Init => TableInv
<1> SUFFICES ASSUME Init PROVE TableInv
  OBVIOUS
<1> QED  BY DEF Init, TableInv, TableOfPage, DetailsShowTapped, NoSlots

\* Displaying a table of the transaction keeps the invariant.
LEMMA DisplayTableKeeps ==
  ASSUME TableInv, tx = subject, NEW p \in Nat, DisplayTable(p)
  PROVE  TableInv'
<1> DEFINE count == BarCount(tx, p)
<1>1. CASE /\ count > 0
           /\ modalPage' = p
           /\ layer' = "table"
           /\ rows' = [i \in 1..count |-> Row(p, i)]
           /\ slots' = Filled(p, count)
           /\ UNCHANGED <<tx, subject>>
  <2>1. tx \in Transactions
    BY DEF TableInv
  <2>2. /\ count \in 1..Bars
        /\ p * Bars \in Nat /\ Byte(p * Bars) = p * Bars
    BY <1>1, <2>1, PageWithinRecords
  <2> HIDE DEF count
  <2>3. \A s \in Nat : s < 2 * count => slots'[s] = 2 * (p * Bars) + s
    BY <1>1, <2>2, FilledSlots
  <2>4. slots' = [s \in Slots |-> slots'[s]]
    BY <1>1 DEF Filled
  <2>5. TableOfPage'
    BY <1>1, <2>3 DEF TableOfPage, count, Row, Byte, BarCount
  <2> QED
    BY <1>1, <2>1, <2>4, <2>5 DEF TableInv, DetailsShowTapped
<1>2. ASSUME NEW to \in {"undefined", "error"}, ModalError(to) PROVE TableInv'
  BY <1>2 DEF ModalError, Fail, NoSlots, TableInv, TableOfPage, DetailsShowTapped
<1>3. \/ /\ count > 0
         /\ modalPage' = p
         /\ layer' = "table"
         /\ rows' = [i \in 1..count |-> Row(p, i)]
         /\ slots' = Filled(p, count)
         /\ UNCHANGED <<tx, subject>>
      \/ \E to \in {"undefined", "error"} : ModalError(to)
  BY DEF DisplayTable
<1> HIDE DEF count
<1> QED  BY <1>1, <1>2, <1>3

\* A step to a screen that is neither a table, details nor a memo.
LEMMA ElsewhereKeeps ==
  ASSUME TableInv, UNCHANGED <<subject, slots>>, modalPage' \in Nat,
         layer' \in {"page", "dialog", "status"}, tx = subject, tx' = tx
  PROVE  TableInv'
BY DEF TableInv, TableOfPage, DetailsShowTapped

LEMMA TapMemoKeeps ==
  ASSUME TableInv, TapMemo
  PROVE  TableInv'
<1>1. CASE /\ layer = "page" /\ layer' = "memo"
           /\ slots' = [slots EXCEPT ![MemoOf(tx) % (2 * Bars)] = MemoOf(tx)]
           /\ UNCHANGED <<tx, subject, modalPage>>
  <2> DEFINE slot == MemoOf(tx) % (2 * Bars)
  <2>1. tx = subject /\ tx \in Transactions
    BY <1>1 DEF TableInv
  <2>2. MemoOf(tx) \in Int /\ 2 * Bars \in Nat \ {0}
    <3>1. tx.count \in Nat /\ ByteMax \in Nat /\ Bars \in Nat \ {0}
      BY <2>1, WalletAssumption
    <3>2. tx.count % (ByteMax + 1) \in Int /\ (2 * tx.count) % (ByteMax + 1) \in Int
      BY <3>1, DivMod
    <3> QED  BY <3>1, <3>2 DEF MemoOf, Bounds, Byte
  <2>3. slot \in Slots
    BY <2>2, DivMod DEF Slots
  <2> HIDE DEF slot
  <2>4. slots' = [slots EXCEPT ![slot] = MemoOf(tx)]
    BY <1>1 DEF slot
  <2>5. slots'[slot] = MemoOf(tx) /\ slots' = [s \in Slots |-> slots'[s]]
    BY <2>3, <2>4 DEF TableInv
  <2>6. (MemoOf(subject) % (2 * Bars))' = slot /\ MemoOf(subject)' = MemoOf(tx)
    BY <1>1, <2>1 DEF slot, MemoOf, Bounds, Byte
  <2>7. DetailsShowTapped'
    BY <1>1, <2>5, <2>6 DEF DetailsShowTapped
  <2> QED  BY <1>1, <2>5, <2>7 DEF TableInv, TableOfPage
<1>2. CASE ModalError("error")
  BY <1>2 DEF ModalError, Fail, NoSlots, TableInv, TableOfPage, DetailsShowTapped
<1> QED  BY <1>1, <1>2 DEF TapMemo

LEMMA TapBarKeeps ==
  ASSUME TableInv, TapBar
  PROVE  TableInv'
<1>1. TableShowsItsPage
  BY TableFacts
<1>2. layer = "table" /\ tx = subject
  BY DEF TapBar, TableInv
<1>3. PICK b \in DOMAIN rows :
        \/ /\ layer' = "details"
           /\ detail' = [no |-> Byte(modalPage * Bars) + b,
                         items |-> <<slots[2 * b - 2], slots[2 * b - 1]>>]
           /\ tapped' = rows[b]
           /\ UNCHANGED <<tx, page, fields, decision, subject, screens, failed,
                          modalPage, slots, rows>>
        \/ FALSE \in Outcomes /\ ModalError("error")
  BY DEF TapBar
<1>4. CASE ModalError("error")
  BY <1>4 DEF ModalError, Fail, NoSlots, TableInv, TableOfPage, DetailsShowTapped
<1>5. CASE /\ layer' = "details"
           /\ detail' = [no |-> Byte(modalPage * Bars) + b,
                         items |-> <<slots[2 * b - 2], slots[2 * b - 1]>>]
           /\ tapped' = rows[b]
           /\ UNCHANGED <<tx, subject, modalPage, slots, rows>>
  <2>1. /\ rows[b].item = 2 * (rows[b].no - 1)
        /\ slots[2 * b - 2] = rows[b].item /\ slots[2 * b - 1] = rows[b].item + 1
    BY <1>1, <1>2 DEF TableShowsItsPage
  <2>2. rows[b].no = Byte(modalPage * Bars) + b
    BY <1>2 DEF TableInv, TableOfPage, Row
  <2>3. DetailsShowTapped'
    BY <1>5, <2>1, <2>2 DEF DetailsShowTapped
  <2> QED  BY <1>2, <1>5, <2>3 DEF TableInv, TableOfPage
<1> QED  BY <1>3, <1>4, <1>5

LEMMA TableStep == TableInv /\ [Next]_vars => TableInv'
<1> SUFFICES ASSUME TableInv, [Next]_vars PROVE TableInv'
  OBVIOUS
<1>1. CASE Swipe
  BY <1>1, ElsewhereKeeps DEF Swipe, ShowPage, modal, TableInv
<1>2. CASE SwipeToLongRecipient
  BY <1>2 DEF SwipeToLongRecipient, ReviewError, Fail, TableInv, TableOfPage, DetailsShowTapped
<1>3. CASE TapSummary
  BY <1>3, DisplayTableKeeps DEF TapSummary, TableInv
<1>4. CASE TapMemo
  BY <1>4, TapMemoKeeps
<1>5. CASE DismissMemo
  BY <1>5, ElsewhereKeeps DEF DismissMemo, Turn, TableInv
<1>6. CASE Navigate
  <2>1. PICK p \in 0..PageCount(tx) - 1 : DisplayTable(p)
    BY <1>6 DEF Navigate
  <2>2. p \in Nat
    OBVIOUS
  <2>3. tx = subject
    BY <1>6 DEF Navigate, TableInv
  <2> QED  BY <2>1, <2>2, <2>3, DisplayTableKeeps
<1>7. CASE CloseTable
  BY <1>7, ElsewhereKeeps DEF CloseTable, Turn, TableInv
<1>8. CASE TapBar
  BY <1>8, TapBarKeeps
<1>9. CASE DismissDetails
  BY <1>9, DisplayTableKeeps DEF DismissDetails, TableInv
<1>10. CASE Sign \/ ConfirmReject
  BY <1>10, ElsewhereKeeps DEF Sign, ConfirmReject, Decide, modal, TableInv
<1>11. CASE AskReject \/ ResumeReview
  BY <1>11, ElsewhereKeeps DEF AskReject, ResumeReview, Turn, TableInv
<1>12. CASE UNCHANGED vars
  BY <1>12 DEF vars, modal, TableInv, TableOfPage, DetailsShowTapped,
               Row, Byte, BarCount, MemoOf, Bounds
<1> QED
  BY <1>1, <1>2, <1>3, <1>4, <1>5, <1>6, <1>7, <1>8, <1>9, <1>10, <1>11, <1>12 DEF Next

\* modals.c: bars, their numbers, their texts and the slots their details come from
\* belong to one record of the table, however the slots were used before.
THEOREM TablesShowTheirRecords == Spec => []TableShowsItsPage
<1>1. TableInv => TableShowsItsPage
  BY TableFacts DEF TableInv
<1> QED  BY <1>1, InitTable, TableStep, PTL DEF Spec

\* modals.c: tapping a bar shows its record, and the memo's modal the memo.
THEOREM DetailsShowTheirRecord == Spec => []DetailsShowTapped
<1>1. TableInv => DetailsShowTapped
  BY TableFacts DEF TableInv
<1> QED  BY <1>1, InitTable, TableStep, PTL DEF Spec

\* A record is on the page its number falls on, at a bar of that page.
LEMMA RecordHasBar ==
  ASSUME NEW t \in Transactions, NEW n \in 1..t.count
  PROVE  \E p \in 0..PageCount(t), i \in 1..Bars :
           i <= BarCount(t, p) /\ p * Bars + i = n
<1>1. t.count \in Nat /\ Bars \in Nat \ {0}
  BY WalletAssumption
<1> DEFINE p == (n - 1) \div Bars
           r == (n - 1) % Bars
           last == (t.count + Bars - 1) \div Bars
           rest == (t.count + Bars - 1) % Bars
<1>2. p \in Int /\ r \in 0..Bars - 1 /\ n - 1 = (Bars * p) + r
  <2>1. n - 1 \in Int
    BY <1>1
  <2> QED  BY <1>1, <2>1, DivMod
<1>3. last \in Int /\ rest \in 0..Bars - 1 /\ t.count + Bars - 1 = (Bars * last) + rest
  <2>1. t.count + Bars - 1 \in Int
    BY <1>1
  <2> QED  BY <1>1, <2>1, DivMod
<1>4. PageCount(t) = last
  BY DEF PageCount
<1> HIDE DEF p, r, last, rest
<1>5. p >= 0
  <2> SUFFICES ASSUME p <= -1 PROVE FALSE
    BY <1>2
  <2>1. Bars * p <= -Bars
    BY <1>1, <1>2, SMT
  <2> QED  BY <1>1, <1>2, <2>1
<1>6. p <= last
  <2> SUFFICES ASSUME p >= last + 1 PROVE FALSE
    BY <1>2, <1>3
  <2>1. Bars * p >= (Bars * last) + Bars
    BY <1>1, <1>2, <1>3, SMT
  <2> QED  BY <1>1, <1>2, <1>3, <2>1
<1>7. p * Bars = Bars * p
  BY <1>1, <1>2
<1>8. r + 1 \in 1..Bars /\ p * Bars + (r + 1) = n
  BY <1>1, <1>2, <1>7
<1>9. r + 1 <= BarCount(t, p)
  <2>1. t.count - p * Bars >= r + 1 /\ t.count - p * Bars \in Int
    BY <1>1, <1>2, <1>7
  <2> QED  BY <1>1, <1>2, <2>1 DEF BarCount
<1>10. p \in 0..PageCount(t)
  BY <1>2, <1>3, <1>4, <1>5, <1>6
<1> QED  BY <1>8, <1>9, <1>10

LEMMA RowsCover ==
  ASSUME subject \in Transactions
  PROVE  RowsCoverRecords
<1> DEFINE bars == {<<p, i>> : p \in 0..PageCount(subject), i \in 1..Bars}
           listed == {b \in bars : b[2] <= BarCount(subject, b[1])}
<1>1. Bars \in Nat \ {0} /\ subject.count \in Nat
  BY WalletAssumption
<1>2. ASSUME NEW b \in listed
      PROVE  /\ Row(b[1], b[2]).no = b[1] * Bars + b[2]
             /\ Row(b[1], b[2]).no \in 1..subject.count
  <2>1. PICK p \in 0..PageCount(subject), i \in 1..Bars : b = <<p, i>>
    BY <1>2
  <2>2. p \in Nat /\ i <= BarCount(subject, p)
    BY <1>2, <2>1
  <2>3. BarCount(subject, p) > 0
    <3>1. p * Bars \in Int
      BY <1>1, <2>2
    <3>2. BarCount(subject, p) \in Int
      BY <1>1, <3>1 DEF BarCount
    <3> QED  BY <2>2, <3>2
  <2>4. /\ BarCount(subject, p) \in 1..Bars /\ p * Bars \in Nat
        /\ Byte(p * Bars) = p * Bars /\ p * Bars + BarCount(subject, p) <= subject.count
    BY <2>2, <2>3, PageWithinRecords
  <2>5. Row(p, i).no = p * Bars + i
    BY <2>4 DEF Row
  <2>6. p * Bars + i \in 1..subject.count
    BY <1>1, <2>2, <2>4
  <2> QED  BY <2>1, <2>5, <2>6
<1>3. ASSUME NEW n \in 1..subject.count
      PROVE  \E b \in listed : Row(b[1], b[2]).no = n
  <2>1. PICK p \in 0..PageCount(subject), i \in 1..Bars :
          i <= BarCount(subject, p) /\ p * Bars + i = n
    BY RecordHasBar
  <2>2. <<p, i>> \in listed
    BY <2>1
  <2>3. Row(p, i).no = n
    BY <1>2, <2>1, <2>2
  <2> QED  BY <2>2, <2>3
<1>4. {Row(b[1], b[2]).no : b \in listed} = 1..subject.count
  <2> HIDE DEF listed
  <2> QED  BY <1>2, <1>3
<1> QED  BY <1>2, <1>4 DEF RowsCoverRecords

\* modals.c: the pages that are counted and the bars that are counted on each agree:
\* every record has one number in the table, for every number of bars on a page.
THEOREM TableListsEveryRecord == Spec => []RowsCoverRecords
<1>1. TableInv => RowsCoverRecords
  BY RowsCover DEF TableInv
<1> QED  BY <1>1, InitTable, TableStep, PTL DEF Spec

-----------------------------------------------------------------------------
(* The review.                                                             *)

LEMMA TransactionFacts ==
  ASSUME NEW t \in Transactions
  PROVE  /\ t.type \in RecordTypes
         /\ t.type = "none" => Bounds(t) = 0
         /\ t.type = "single" => Bounds(t) = 1
         /\ t.type = "pair" => t.count \in Nat \ {0} /\ Bounds(t) = 2 * t.count
         /\ Bounds(t) \in Nat
<1>1. /\ t.type \in RecordTypes /\ t.count \in Nat /\ 2 * t.count + 1 <= ByteMax
      /\ t.type = "none" => t.count = 0
      /\ t.type = "single" => t.count = 1
      /\ t.type = "pair" => t.count > 0
  BY WalletAssumption
<1>2. /\ t.count <= ByteMax /\ 2 * t.count \in Nat /\ 2 * t.count <= ByteMax
  BY <1>1, WalletAssumption
<1>3. Byte(t.count) = t.count /\ Byte(2 * t.count) = 2 * t.count
  BY <1>1, <1>2, ByteSmall
<1> QED  BY <1>1, <1>3 DEF Bounds

\* The fields there are.
TextOf(i) == Field(i, FALSE)
NoText == Field(None, FALSE)
SummaryField == Field(Summary, TRUE)
MemoText(t) == Field(MemoOf(t), t.memo = "long")
ProperFields == [item : Int \cup {Summary}, icon : BOOLEAN]

LEMMA FieldParts ==
  /\ \A i : TextOf(i).item = i
  /\ NoText.item = None /\ SummaryField.item = Summary
  /\ \A t : MemoText(t).item = MemoOf(t)
  /\ \A i \in Int : TextOf(i) \in ProperFields
  /\ \A i \in AllItems : TextOf(i) \in FieldTypes
  /\ SummaryField \in ProperFields /\ SummaryField \in FieldTypes /\ NoText \in FieldTypes
  /\ \A t : MemoOf(t) \in AllItems => MemoText(t) \in FieldTypes
BY DEF TextOf, NoText, SummaryField, MemoText, ProperFields, FieldTypes, Field

LEMMA SomeItems ==
  ASSUME NEW t \in Transactions
  PROVE  /\ FeeOf(t) \in Int /\ MemoOf(t) \in Int /\ MemoOf(t) # FeeOf(t)
         /\ {0, 1, FeeOf(t), MemoOf(t)} \subseteq AllItems
<1>1. FeeOf(t) \in Nat /\ MemoOf(t) = FeeOf(t) + 1
  BY TransactionFacts DEF FeeOf, MemoOf
<1>2. {0, 1, FeeOf(t), MemoOf(t)} \subseteq Items(t)
  BY <1>1 DEF Items
<1> QED  BY <1>1, <1>2 DEF AllItems

\* Short sequences.
LEMMA FunctionIsSeq ==
  ASSUME NEW S, NEW n \in Nat, NEW f \in [1..n -> S]
  PROVE  f \in Seq(S) /\ Len(f) = n
BY SeqDef

LEMMA OneElement ==
  ASSUME NEW S, NEW a \in S
  PROVE  /\ <<a>> \in Seq(S) /\ DOMAIN <<a>> = 1..1 /\ <<a>>[1] = a
         /\ \A s \in Seq(S) : Len(s) = 1 /\ s[1] = a => s = <<a>>
<1>1. <<a>> \in Seq(S) /\ Len(<<a>>) = 1 /\ <<a>>[1] = a
  OBVIOUS
<1> QED  BY <1>1, SeqEqual

LEMMA TwoElements ==
  ASSUME NEW S, NEW a \in S, NEW b \in S
  PROVE  /\ <<a, b>> \in Seq(S) /\ DOMAIN <<a, b>> = 1..2
         /\ <<a, b>>[1] = a /\ <<a, b>>[2] = b
         /\ \A s \in Seq(S) : Len(s) = 2 /\ s[1] = a /\ s[2] = b => s = <<a, b>>
<1>1. <<a, b>> \in Seq(S) /\ Len(<<a, b>>) = 2 /\ <<a, b>>[1] = a /\ <<a, b>>[2] = b
  OBVIOUS
<1> QED  BY <1>1, SeqEqual

\* Complete's first part, and the fields the providers make when none fails.
CompleteAssets(t) ==
  IF HasTable(t) THEN <<SummaryField>> ELSE [i \in 1..Bounds(t) |-> TextOf(i - 1)]

LEMMA AssetShapes ==
  ASSUME NEW t \in Transactions, NEW asset \in AssetFields(t)
  PROVE  \/ HasTable(t) /\ asset = <<SummaryField>>
         \/ ~HasTable(t) /\ t.type = "none" /\ asset = <<>>
         \/ /\ ~HasTable(t) /\ t.type = "single"
            /\ \E f \in {TextOf(0), NoText} : asset = <<f>>
         \/ /\ ~HasTable(t) /\ t.type = "pair"
            /\ \E f \in {TextOf(0), NoText}, g \in {TextOf(1), NoText} : asset = <<f, g>>
<1> DEFINE text(i) == {TextOf(i)} \cup (IF i \in t.fallible THEN {NoText} ELSE {})
<1>1. \A i : text(i) \subseteq {TextOf(i), NoText}
  OBVIOUS
<1>2. t.type \in RecordTypes
  BY WalletAssumption
<1>3. CASE HasTable(t)
  BY <1>3 DEF AssetFields, SummaryField
<1>4. CASE ~HasTable(t) /\ t.type = "none"
  BY <1>4 DEF AssetFields
<1>5. CASE ~HasTable(t) /\ t.type = "single"
  <2>1. AssetFields(t) = {<<f>> : f \in text(0)}
    BY <1>5 DEF AssetFields, TextOf, NoText
  <2> HIDE DEF text
  <2>2. PICK f \in text(0) : asset = <<f>>
    BY <2>1
  <2>3. f \in {TextOf(0), NoText}
    BY <1>1, <2>2
  <2> QED  BY <1>5, <2>2, <2>3
<1>6. CASE ~HasTable(t) /\ t.type = "pair"
  <2>1. AssetFields(t) = text(0) \X text(1)
    BY <1>6 DEF AssetFields, TextOf, NoText
  <2> HIDE DEF text
  <2>2. PICK f \in text(0), g \in text(1) : asset = <<f, g>>
    BY <2>1
  <2>3. f \in {TextOf(0), NoText} /\ g \in {TextOf(1), NoText}
    BY <1>1, <2>2
  <2> QED  BY <1>6, <2>2, <2>3
<1> QED  BY <1>2, <1>3, <1>4, <1>5, <1>6 DEF RecordTypes

LEMMA AssetFieldsComplete ==
  ASSUME NEW t \in Transactions, NEW asset \in AssetFields(t),
         \A i \in DOMAIN asset : asset[i].item # None
  PROVE  /\ asset = CompleteAssets(t)
         /\ asset \in Seq(ProperFields)
         /\ \A i \in DOMAIN asset : asset[i].item # FeeOf(t)
<1>1. /\ t.type \in RecordTypes
      /\ t.type = "none" => Bounds(t) = 0
      /\ t.type = "single" => Bounds(t) = 1
      /\ t.type = "pair" => t.count \in Nat \ {0} /\ Bounds(t) = 2 * t.count
  BY TransactionFacts
<1>2. Summary \notin Int
  BY WalletAssumption
<1>3. /\ SummaryField \in ProperFields
      /\ TextOf(0) \in ProperFields /\ TextOf(1) \in ProperFields
  BY FieldParts
<1>4. CASE HasTable(t) /\ asset = <<SummaryField>>
  <2>1. FeeOf(t) \in Int
    BY <1>1, <1>4 DEF FeeOf, HasTable
  <2>2. SummaryField.item # FeeOf(t)
    BY <1>2, <2>1, FieldParts
  <2>3. asset \in Seq(ProperFields) /\ DOMAIN asset = 1..1 /\ asset[1] = SummaryField
    BY <1>3, <1>4, OneElement
  <2>4. \A i \in DOMAIN asset : i = 1
    BY <2>3
  <2> QED  BY <1>4, <2>2, <2>3, <2>4 DEF CompleteAssets
<1>5. CASE ~HasTable(t) /\ t.type = "none" /\ asset = <<>>
  <2>1. [i \in 1..0 |-> TextOf(i - 1)] = <<>>
    BY SMT
  <2>2. asset = CompleteAssets(t)
    BY <1>1, <1>5, <2>1 DEF CompleteAssets
  <2>3. asset \in Seq(ProperFields) /\ DOMAIN asset = {}
    BY <1>5
  <2> QED  BY <2>2, <2>3
<1>6. CASE /\ ~HasTable(t) /\ t.type = "single"
           /\ \E f \in {TextOf(0), NoText} : asset = <<f>>
  <2>1. PICK f \in {TextOf(0), NoText} : asset = <<f>>
    BY <1>6
  <2>2. DOMAIN asset = 1..1 /\ asset[1] = f
    BY <2>1, OneElement
  <2>3. f = TextOf(0)
    BY <2>1, <2>2, FieldParts
  <2> DEFINE single == [i \in 1..1 |-> TextOf(i - 1)]
  <2>4. single[1] = f /\ single \in [1..1 -> {f}]
    BY <2>3
  <2>5. CompleteAssets(t) = single
    BY <1>1, <1>6 DEF CompleteAssets
  <2> HIDE DEF single
  <2>6. single = asset
    BY <2>1, <2>4, FunctionIsSeq, OneElement
  <2>7. asset \in Seq(ProperFields)
    BY <1>3, <2>1, <2>3, OneElement
  <2>8. \A i \in DOMAIN asset : i = 1
    BY <2>2
  <2>9. asset[1].item # FeeOf(t)
    BY <1>1, <1>6, <2>2, <2>3, FieldParts DEF FeeOf
  <2> QED  BY <2>5, <2>6, <2>7, <2>8, <2>9
<1>7. CASE /\ ~HasTable(t) /\ t.type = "pair"
           /\ \E f \in {TextOf(0), NoText},
                 g \in {TextOf(1), NoText} : asset = <<f, g>>
  <2>1. PICK f \in {TextOf(0), NoText},
             g \in {TextOf(1), NoText} : asset = <<f, g>>
    BY <1>7
  <2>2. DOMAIN asset = 1..2 /\ asset[1] = f /\ asset[2] = g
    BY <2>1, TwoElements
  <2>3. f = TextOf(0) /\ g = TextOf(1)
    BY <2>1, <2>2, FieldParts
  <2> DEFINE pair == [i \in 1..2 |-> TextOf(i - 1)]
  <2>4. pair[1] = f /\ pair[2] = g /\ pair \in [1..2 -> {f, g}]
    BY <2>3
  <2>10. Bounds(t) = 2
    BY <1>1, <1>7 DEF HasTable
  <2>5. CompleteAssets(t) = pair
    BY <1>7, <2>10 DEF CompleteAssets
  <2> HIDE DEF pair
  <2>6. pair = asset
    <3>1. pair \in Seq({f, g}) /\ Len(pair) = 2
      BY <2>4, FunctionIsSeq
    <3> QED  BY <2>1, <2>4, <3>1, TwoElements
  <2>7. asset \in Seq(ProperFields)
    BY <1>3, <2>1, <2>3, TwoElements
  <2>8. \A i \in DOMAIN asset : i = 1 \/ i = 2
    BY <2>2
  <2>9. asset[1].item # FeeOf(t) /\ asset[2].item # FeeOf(t)
    BY <2>2, <2>3, <2>10, FieldParts DEF FeeOf
  <2> QED  BY <2>5, <2>6, <2>7, <2>8, <2>9
<1> QED  BY <1>4, <1>5, <1>6, <1>7, AssetShapes

\* Without a failure page 1 has every item.
LEMMA ShownParts ==
  ASSUME NEW t \in Transactions
  PROVE  /\ \A asset \in AssetFields(t) : asset \in Seq(FieldTypes) /\ Len(asset) <= 2
         /\ \A fee \in FeeField(t) : fee \in Seq(FieldTypes) /\ Len(fee) <= 1
         /\ MemoField(t) \in Seq(FieldTypes) /\ Len(MemoField(t)) <= 1
<1>1. /\ SummaryField \in FieldTypes /\ NoText \in FieldTypes
      /\ TextOf(0) \in FieldTypes /\ TextOf(1) \in FieldTypes
      /\ TextOf(FeeOf(t)) \in FieldTypes /\ MemoText(t) \in FieldTypes
  BY SomeItems, FieldParts
<1>3. \A f \in FieldTypes : <<f>> \in Seq(FieldTypes) /\ Len(<<f>>) = 1
  BY OneElement
<1>4. \A f, g \in FieldTypes : <<f, g>> \in Seq(FieldTypes) /\ Len(<<f, g>>) = 2
  BY TwoElements
<1>5. ASSUME NEW asset \in AssetFields(t)
      PROVE  asset \in Seq(FieldTypes) /\ Len(asset) <= 2
  <2>1. CASE asset = <<>>
    BY <2>1
  <2>4. CASE asset = <<SummaryField>>
    BY <1>1, <1>3, <2>4
  <2>2. CASE \E f \in {TextOf(0), NoText} : asset = <<f>>
    <3>1. PICK f \in {TextOf(0), NoText} : asset = <<f>>
      BY <2>2
    <3>2. f \in FieldTypes
      BY <1>1, <3>1
    <3> QED  BY <1>3, <3>1, <3>2
  <2>3. CASE \E f \in {TextOf(0), NoText}, g \in {TextOf(1), NoText} : asset = <<f, g>>
    <3>1. PICK f \in {TextOf(0), NoText}, g \in {TextOf(1), NoText} : asset = <<f, g>>
      BY <2>3
    <3>2. f \in FieldTypes /\ g \in FieldTypes
      BY <1>1, <3>1
    <3> QED  BY <1>4, <3>1, <3>2
  <2> QED  BY <2>1, <2>2, <2>3, <2>4, AssetShapes
<1>6. ASSUME NEW fee \in FeeField(t)
      PROVE  fee \in Seq(FieldTypes) /\ Len(fee) <= 1
  <2>1. fee = <<>> \/ fee = <<TextOf(FeeOf(t))>>
    BY DEF FeeField, TextOf
  <2>2. CASE fee = <<>>
    BY <2>2
  <2>3. CASE fee = <<TextOf(FeeOf(t))>>
    BY <1>1, <1>3, <2>3
  <2> QED  BY <2>1, <2>2, <2>3
<1>7. MemoField(t) \in Seq(FieldTypes) /\ Len(MemoField(t)) <= 1
  <2>1. MemoField(t) = <<>> \/ MemoField(t) = <<MemoText(t)>>
    BY DEF MemoField, MemoText
  <2>2. CASE MemoField(t) = <<>>
    BY <2>2
  <2>3. CASE MemoField(t) = <<MemoText(t)>>
    BY <1>1, <1>3, <2>3
  <2> QED  BY <2>1, <2>2, <2>3
<1> QED  BY <1>5, <1>6, <1>7

LEMMA ShownComplete ==
  ASSUME NEW t \in Transactions, NEW shown \in InfoFields(t), ~Faulty(t, shown)
  PROVE  shown = Complete(t)
<1>1. PICK asset \in AssetFields(t), fee \in FeeField(t) : shown = asset \o fee \o MemoField(t)
  BY DEF InfoFields
<1> DEFINE feeText == TextOf(FeeOf(t))
           memo == MemoField(t)
<1>3. MemoText(t).item # FeeOf(t) /\ MemoText(t) \in FieldTypes
  BY SomeItems, FieldParts
<1>4. fee = <<>> \/ fee = <<feeText>>
  BY DEF FeeField, TextOf
<1>5. memo = <<>> \/ memo = <<MemoText(t)>>
  BY DEF MemoField, MemoText
<1>6. fee \in Seq(FieldTypes) /\ memo \in Seq(FieldTypes) /\ asset \in Seq(FieldTypes)
  BY ShownParts
<1> HIDE DEF feeText, memo
<1>8. \A i \in DOMAIN asset : i \in DOMAIN shown /\ asset[i] = shown[i]
  BY <1>1, <1>6 DEF memo
<1>9. \A i \in DOMAIN asset : asset[i].item # None
  BY <1>8 DEF Faulty
<1>10. asset = CompleteAssets(t) /\ \A i \in DOMAIN asset : asset[i].item # FeeOf(t)
  BY <1>9, AssetFieldsComplete
<1>11. fee # <<>>
  <2> SUFFICES ASSUME fee = <<>> PROVE FALSE
    OBVIOUS
  <2>1. shown = asset \o memo
    BY <1>1, <1>6 DEF memo
  <2>2. \A i \in DOMAIN memo : memo[i].item # FeeOf(t)
    BY <1>3, <1>5
  <2>3. \A i \in DOMAIN shown : shown[i].item # FeeOf(t)
    BY <1>6, <1>10, <2>1, <2>2
  <2> QED  BY <2>3 DEF Faulty
<1>12. Complete(t) = CompleteAssets(t) \o <<feeText>> \o memo
  BY DEF Complete, CompleteAssets, MemoField, feeText, memo, TextOf, SummaryField
<1> QED  BY <1>1, <1>4, <1>10, <1>11, <1>12 DEF memo

\* Whoever is past page 0 saw page 1 complete, unless a formatter failed; a
\* decision closes the review.
ReviewInv ==
  /\ TableInv
  /\ page \in 0..2
  /\ page # 0 /\ ~failed => Complete(subject) \in screens
  /\ layer \notin {"status", "error", "undefined"} => decision = "none"

LEMMA InitReview == Init => ReviewInv
BY InitTable DEF Init, ReviewInv

\* What page 1 shows is complete, or the review is marked as failed.
LEMMA ShowPageMarks ==
  ASSUME TableInv, tx = subject, ShowPage(1)
  PROVE  /\ ~failed' => fields' = Complete(subject)
         /\ screens' = screens \cup {fields'}
<1>1. /\ fields' \in InfoFields(tx) /\ screens' = screens \cup {fields'}
      /\ failed' = (failed \/ Faulty(tx, fields'))
  BY DEF ShowPage
<1>2. tx \in Transactions
  BY DEF TableInv
<1>3. ~failed' => ~Faulty(tx, fields')
  BY <1>1
<1> QED  BY <1>1, <1>2, <1>3, ShownComplete

LEMMA SwipeKeeps ==
  ASSUME ReviewInv, Swipe, TableInv'
  PROVE  ReviewInv'
<1>1. PICK p \in 0..2 : p - page \in {-1, 1} /\ ShowPage(p)
  BY DEF Swipe
<1>2. layer = "page" /\ tx = subject /\ TableInv /\ subject' = subject
  BY DEF Swipe, ReviewInv, TableInv, ShowPage
<1>3. page' = p /\ layer' = layer /\ decision' = decision
  BY <1>1 DEF ShowPage
<1>4. CASE p = 1
  <2>1. ~failed' => Complete(subject) \in screens'
    BY <1>1, <1>2, <1>4, ShowPageMarks
  <2>2. ~failed' => Complete(subject') \in screens'
    BY <1>2, <2>1
  <2> QED  BY <1>2, <1>3, <1>4, <2>2 DEF ReviewInv
<1>5. CASE p # 1
  <2>1. screens' = screens /\ failed' = failed
    BY <1>1, <1>5 DEF ShowPage
  <2>2. page # 0 \/ p = 0
    BY <1>1, <1>5 DEF ReviewInv
  <2> QED  BY <1>2, <1>3, <2>1, <2>2 DEF ReviewInv
<1> QED  BY <1>4, <1>5

\* Every other step leaves page 1 as it was shown, and fails or decides or not.
LEMMA OtherSteps ==
  ASSUME [Next]_vars
  PROVE  \/ Swipe
         \/ /\ UNCHANGED <<page, screens, subject>>
            /\ \/ layer' \in {"error", "undefined"} /\ failed' = TRUE /\ decision' = "rejected"
                  /\ layer \in {"page", "table", "details"}
               \/ layer' = "status" /\ failed' = failed /\ decision' = "rejected" /\ ConfirmReject
               \/ layer' = "status" /\ failed' = failed /\ decision' = "approved" /\ Sign
               \/ failed' = failed /\ decision' = decision
                  /\ (layer \in {"status", "error", "undefined"} => layer' = layer)
<1>1. CASE Swipe
  BY <1>1
<1>2. CASE SwipeToLongRecipient
  BY <1>2 DEF SwipeToLongRecipient, ReviewError, Fail
<1>3. CASE TapSummary
  BY <1>3 DEF TapSummary, DisplayTable, ModalError, Fail
<1>4. CASE TapMemo
  BY <1>4 DEF TapMemo, ModalError, Fail
<1>5. CASE DismissMemo
  BY <1>5 DEF DismissMemo, Turn
<1>6. CASE Navigate
  BY <1>6 DEF Navigate, DisplayTable, ModalError, Fail
<1>7. CASE CloseTable
  BY <1>7 DEF CloseTable, Turn
<1>8. CASE TapBar
  BY <1>8 DEF TapBar, ModalError, Fail
<1>9. CASE DismissDetails
  BY <1>9 DEF DismissDetails, DisplayTable, ModalError, Fail
<1>10. CASE Sign \/ ConfirmReject
  BY <1>10 DEF Sign, ConfirmReject, Decide
<1>11. CASE AskReject \/ ResumeReview
  BY <1>11 DEF AskReject, ResumeReview, Turn
<1>12. CASE UNCHANGED vars
  BY <1>12 DEF vars
<1> QED
  BY <1>1, <1>2, <1>3, <1>4, <1>5, <1>6, <1>7, <1>8, <1>9, <1>10, <1>11, <1>12 DEF Next

LEMMA ReviewStep == ReviewInv /\ [Next]_vars => ReviewInv'
<1> SUFFICES ASSUME ReviewInv, [Next]_vars PROVE ReviewInv'
  OBVIOUS
<1>1. TableInv'
  BY TableStep DEF ReviewInv
<1>2. CASE Swipe
  BY <1>1, <1>2, SwipeKeeps
<1>3. CASE UNCHANGED <<page, screens, subject>> /\ ~Swipe
  <2>1. Complete(subject') = Complete(subject)
    BY <1>3
  <2>2. ~failed' => ~failed
    BY <1>3, OtherSteps
  <2>3. layer' \notin {"status", "error", "undefined"} => decision' = "none"
    BY <1>3, OtherSteps DEF ReviewInv
  <2> QED  BY <1>1, <1>3, <2>1, <2>2, <2>3 DEF ReviewInv
<1> QED  BY <1>2, <1>3, OtherSteps

\* review.c: the signature is on the page after the fields, and every item of the
\* transaction (or the summary that opens their table) is among the fields.
THEOREM SignatureAfterTheFields == Spec => []OfferedWhenComplete
<1>1. ReviewInv => OfferedWhenComplete
  BY DEF ReviewInv, OfferedWhenComplete
<1> QED  BY <1>1, InitReview, ReviewStep, PTL DEF Spec

LEMMA InitPromise == Init => Promise!RInit
BY DEF Init, Promise!RInit, Outcome

LEMMA StepPromise == ReviewInv /\ [Next]_vars => [Promise!RNext]_(Promise!rvars)
<1> SUFFICES ASSUME ReviewInv, [Next]_vars
             PROVE  Promise!RNext \/ UNCHANGED Promise!rvars
  OBVIOUS
<1> DEFINE complete == Complete(subject)
           seen == screens \cap {complete}
<1>1. CASE Swipe
  <2>1. PICK p \in 0..2 : ShowPage(p)
    BY <1>1 DEF Swipe
  <2>2. layer = "page" /\ decision = "none"
    BY <1>1 DEF Swipe, ReviewInv
  <2>3. Outcome = "none" /\ Outcome' = "none" /\ complete' = complete
    BY <2>1, <2>2 DEF Outcome, ShowPage
  <2>4. screens' = screens \/ screens' = screens \cup {fields'}
    BY <2>1 DEF ShowPage
  <2>5. seen' = seen \/ seen' = seen \cup {complete}
    BY <2>3, <2>4
  <2> HIDE DEF complete
  <2>6. CASE seen' = seen
    BY <2>3, <2>6 DEF Promise!rvars, complete
  <2>7. CASE seen' = seen \cup {complete}
    BY <2>3, <2>7 DEF Promise!RNext, Promise!Show, complete
  <2> QED  BY <2>5, <2>6, <2>7
<1>2. CASE UNCHANGED <<page, screens, subject>> /\ ~Swipe
  <2>1. complete' = complete /\ seen' = seen
    BY <1>2
  <2>2. layer \in {"page", "table", "details", "dialog"} => Outcome = "none"
    BY DEF ReviewInv, Outcome
  <2>3. ASSUME decision' = "rejected", layer \in {"page", "table", "details", "dialog"}
        PROVE  Promise!Refuse
    <3>1. Outcome' = "rejected"
      BY <2>3 DEF Outcome
    <3> QED  BY <2>1, <2>2, <2>3, <3>1 DEF Promise!Refuse
  <2>4. CASE layer' \in {"error", "undefined"} /\ decision' = "rejected" /\ layer \in {"page", "table", "details"}
    BY <2>3, <2>4 DEF Promise!RNext
  <2>5. CASE decision' = "rejected" /\ ConfirmReject
    BY <2>3, <2>5 DEF ConfirmReject, Promise!RNext
  <2>6. CASE failed' = failed /\ decision' = "approved" /\ Sign
    <3>1. Outcome = "none" /\ page = 2
      BY <2>2, <2>6 DEF Sign
    <3>2. CASE failed
      <4>1. Outcome' = "none"
        BY <2>6, <3>2 DEF Outcome
      <4> QED  BY <2>1, <3>1, <4>1 DEF Promise!rvars
    <3>3. CASE ~failed
      <4>1. Outcome' = "approved"
        BY <2>6, <3>3 DEF Outcome
      <4>2. seen = {complete}
        BY <3>1, <3>3 DEF ReviewInv
      <4> QED  BY <2>1, <3>1, <4>1, <4>2 DEF Promise!RNext, Promise!Agree
    <3> QED  BY <3>2, <3>3
  <2>7. CASE failed' = failed /\ decision' = decision
    BY <2>1, <2>7 DEF Outcome, Promise!rvars
  <2> QED  BY <1>2, <2>4, <2>5, <2>6, <2>7, OtherSteps
<1> QED  BY <1>1, <1>2, OtherSteps

\* review.c, modals.c: whatever is swiped, tapped or fails, the review implements
\* FullReview: refused at any time, approved only after everything was shown.
THEOREM WalletReviewImplementsPromise == Spec => ImplementsFullReview
<1>1. Spec => []ReviewInv
  BY InitReview, ReviewStep, PTL DEF Spec
<1> QED  BY <1>1, InitPromise, StepPromise, PTL DEF Spec, ImplementsFullReview, Promise!RSpec

-----------------------------------------------------------------------------
(* Types.                                                                  *)

\* The parts of a table's records are items of the transaction.
LEMMA RecordItems ==
  ASSUME NEW t \in Transactions, t.type = "pair", NEW i \in 0..2 * t.count - 1
  PROVE  i \in Items(t) /\ i \in AllItems
<1>1. t.count \in Nat /\ MemoOf(t) = 2 * t.count + 1
  BY TransactionFacts DEF MemoOf
<1>2. i \in Items(t)
  BY <1>1 DEF Items
<1> QED  BY <1>2 DEF AllItems

\* The parts that fill the slots, and the rows, of a page.
LEMMA FilledTypes ==
  ASSUME NEW t \in Transactions, t.type = "pair", NEW p \in Nat, BarCount(t, p) > 0,
         slots \in [Slots -> Items(t) \cup {None}]
  PROVE  /\ Filled(p, BarCount(t, p)) \in [Slots -> Items(t) \cup {None}]
         /\ \A i \in 1..BarCount(t, p) : Row(p, i) \in RowTypes
         /\ BarCount(t, p) \in 1..Bars /\ p \in 0..ByteMax
<1> DEFINE count == BarCount(t, p)
           before == p * Bars
<1>1. /\ count \in 1..Bars /\ before \in Nat /\ Byte(before) = before
      /\ before + count <= t.count
  BY PageWithinRecords
<1>2. t.count \in Nat /\ 2 * t.count + 1 <= ByteMax /\ Bars \in Nat \ {0} /\ ByteMax \in Nat
  BY WalletAssumption
<1>3. p <= before
  BY <1>2, SMT
<1>4. Byte(p * Bars) = before
  BY <1>1
<1> HIDE DEF count, before
<1>5. ASSUME NEW s \in Slots
      PROVE  LET part == 2 * before + ((s - 2 * before) % (2 * Bars))
             IN  (IF part < 2 * before + 2 * count THEN part ELSE slots[s]) \in Items(t) \cup {None}
  <2> DEFINE r == (s - 2 * before) % (2 * Bars)
  <2>1. s - 2 * before \in Int /\ 2 * Bars \in Nat \ {0}
    BY <1>1, <1>2 DEF Slots
  <2>2. r \in 0..2 * Bars - 1
    BY <2>1, DivMod
  <2> HIDE DEF r
  <2>3. CASE 2 * before + r < 2 * before + 2 * count
    <3>1. 2 * before + r \in 0..2 * t.count - 1
      BY <1>1, <1>2, <2>2, <2>3
    <3> QED  BY <2>3, <3>1, RecordItems DEF r
  <2>4. CASE ~(2 * before + r < 2 * before + 2 * count)
    BY <2>4 DEF r
  <2> QED  BY <2>3, <2>4
<1>6. Filled(p, count) \in [Slots -> Items(t) \cup {None}]
  BY <1>4, <1>5 DEF Filled
<1>7. ASSUME NEW i \in 1..count PROVE Row(p, i) \in RowTypes
  <2>1. before + i \in 1..ByteMax /\ 2 * (before + i - 1) \in 0..2 * t.count - 1
    BY <1>1, <1>2
  <2>2. 2 * (before + i - 1) \in AllItems
    BY <2>1, RecordItems
  <2> QED  BY <1>4, <2>1, <2>2 DEF Row, RowTypes
<1> QED  BY <1>1, <1>2, <1>3, <1>6, <1>7 DEF count

\* Only a transaction of pairs has a table.
TypeInv ==
  /\ TypeOK /\ ReviewInv
  /\ layer \in {"table", "details"} => subject.type = "pair"

LEMMA ModalErrorTypes ==
  ASSUME TypeOK, NEW to \in {"error", "undefined"}, ModalError(to)
  PROVE  TypeOK'
<1>1. 0 \in 0..ByteMax
  BY WalletAssumption
<1> QED  BY <1>1 DEF ModalError, Fail, NoSlots, TypeOK

LEMMA DisplayTableTypes ==
  ASSUME TypeOK, TableInv, tx = subject, tx.type = "pair", NEW p \in Nat, DisplayTable(p)
  PROVE  TypeOK' /\ subject' = subject
<1> DEFINE count == BarCount(tx, p)
<1>1. CASE /\ count > 0
           /\ modalPage' = p
           /\ layer' = "table"
           /\ rows' = [i \in 1..count |-> Row(p, i)]
           /\ slots' = Filled(p, count)
           /\ detail' = NoDetail /\ tapped' = None
           /\ UNCHANGED <<tx, page, fields, decision, subject, screens, failed>>
  <2>1. tx \in Transactions /\ slots \in [Slots -> Items(tx) \cup {None}]
    BY DEF TableInv, TypeOK
  <2>2. /\ slots' \in [Slots -> Items(tx) \cup {None}]
        /\ \A i \in 1..count : Row(p, i) \in RowTypes
        /\ count \in 1..Bars /\ p \in 0..ByteMax
    BY <1>1, <2>1, FilledTypes
  <2> HIDE DEF count
  <2>3. rows' \in [1..count -> RowTypes]
    BY <1>1, <2>2
  <2>4. rows' \in Seq(RowTypes) /\ Len(rows') = count
    BY <2>2, <2>3, FunctionIsSeq
  <2>5. NoDetail \in [no : 0..ByteMax, items : Seq(AllItems)]
    BY WalletAssumption DEF NoDetail
  <2>6. Len(rows') <= Bars
    BY <2>2, <2>4, WalletAssumption
  <2> QED  BY <1>1, <2>2, <2>4, <2>5, <2>6 DEF TypeOK
<1>2. ASSUME NEW to \in {"error", "undefined"}, ModalError(to) PROVE TypeOK' /\ subject' = subject
  BY <1>2, ModalErrorTypes DEF ModalError
<1>3. \/ /\ count > 0
         /\ modalPage' = p
         /\ layer' = "table"
         /\ rows' = [i \in 1..count |-> Row(p, i)]
         /\ slots' = Filled(p, count)
         /\ detail' = NoDetail /\ tapped' = None
         /\ UNCHANGED <<tx, page, fields, decision, subject, screens, failed>>
      \/ \E to \in {"error", "undefined"} : ModalError(to)
  BY DEF DisplayTable
<1> HIDE DEF count
<1> QED  BY <1>1, <1>2, <1>3

LEMMA SwipeTypes ==
  ASSUME TypeInv, Swipe
  PROVE  TypeOK'
<1>1. PICK p \in 0..2 : ShowPage(p)
  BY DEF Swipe
<1>2. tx = subject /\ tx \in Transactions
  BY DEF Swipe, TypeInv, ReviewInv, TableInv
<1>3. fields' \in Seq(FieldTypes) /\ Len(fields') <= 4
  <2>1. CASE p = 1
    <3>1. PICK asset \in AssetFields(tx), fee \in FeeField(tx) :
            fields' = asset \o fee \o MemoField(tx)
      BY <1>1, <2>1 DEF ShowPage, InfoFields
    <3>2. /\ asset \in Seq(FieldTypes) /\ Len(asset) <= 2
          /\ fee \in Seq(FieldTypes) /\ Len(fee) <= 1
          /\ MemoField(tx) \in Seq(FieldTypes) /\ Len(MemoField(tx)) <= 1
      BY <1>2, ShownParts
    <3> QED  BY <3>1, <3>2
  <2>2. CASE p # 1
    BY <1>1, <2>2 DEF ShowPage
  <2> QED  BY <2>1, <2>2
<1>4. screens' = screens \/ screens' = screens \cup {fields'}
  BY <1>1 DEF ShowPage
<1>5. failed' \in BOOLEAN
  BY <1>1 DEF ShowPage, TypeInv, TypeOK
<1>6. \A s \in screens' : s \in Seq(FieldTypes)
  BY <1>3, <1>4 DEF TypeInv, TypeOK
<1>7. page' \in 0..2 /\ UNCHANGED <<tx, layer, decision, subject, modalPage, slots, rows, detail, tapped>>
  BY <1>1 DEF ShowPage, modal
<1> QED  BY <1>3, <1>5, <1>6, <1>7 DEF TypeInv, TypeOK

LEMMA TapMemoTypes ==
  ASSUME TypeInv, TapMemo
  PROVE  TypeOK'
<1>1. CASE /\ layer' = "memo"
           /\ slots' = [slots EXCEPT ![MemoOf(tx) % (2 * Bars)] = MemoOf(tx)]
           /\ UNCHANGED <<tx, page, fields, decision, subject, screens, failed,
                          modalPage, rows, detail, tapped>>
  <2>1. tx = subject /\ tx \in Transactions
    BY DEF TapMemo, TypeInv, ReviewInv, TableInv
  <2>2. MemoOf(tx) \in Items(tx)
    BY <2>1, TransactionFacts DEF Items, MemoOf
  <2>3. slots' \in [Slots -> Items(subject) \cup {None}]
    BY <1>1, <2>1, <2>2 DEF TypeInv, TypeOK
  <2> QED  BY <1>1, <2>3 DEF TypeInv, TypeOK
<1>2. CASE ModalError("error")
  BY <1>2, ModalErrorTypes DEF TypeInv
<1> QED  BY <1>1, <1>2 DEF TapMemo

LEMMA TapBarTypes ==
  ASSUME TypeInv, TapBar
  PROVE  TypeOK'
<1>1. TableShowsItsPage
  BY TableFacts DEF TypeInv, ReviewInv
<1>2. layer = "table" /\ tx = subject /\ tx \in Transactions /\ tx.type = "pair"
  BY DEF TapBar, TypeInv, ReviewInv, TableInv
<1>3. PICK b \in DOMAIN rows :
        \/ /\ layer' = "details"
           /\ detail' = [no |-> Byte(modalPage * Bars) + b,
                         items |-> <<slots[2 * b - 2], slots[2 * b - 1]>>]
           /\ tapped' = rows[b]
           /\ UNCHANGED <<tx, page, fields, decision, subject, screens, failed,
                          modalPage, slots, rows>>
        \/ ModalError("error")
  BY DEF TapBar
<1>4. CASE ModalError("error")
  BY <1>4, ModalErrorTypes DEF TypeInv
<1>5. CASE /\ layer' = "details"
           /\ detail' = [no |-> Byte(modalPage * Bars) + b,
                         items |-> <<slots[2 * b - 2], slots[2 * b - 1]>>]
           /\ tapped' = rows[b]
           /\ UNCHANGED <<tx, page, fields, decision, subject, screens, failed,
                          modalPage, slots, rows>>
  <2>1. rows[b].no \in 1..subject.count /\ rows[b].item = 2 * (rows[b].no - 1)
        /\ slots[2 * b - 2] = rows[b].item /\ slots[2 * b - 1] = rows[b].item + 1
    BY <1>1, <1>2 DEF TableShowsItsPage
  <2>2. rows[b].no = Byte(modalPage * Bars) + b
    BY <1>2 DEF TypeInv, ReviewInv, TableInv, TableOfPage, Row
  <2>3. subject.count \in Nat /\ 2 * subject.count + 1 <= ByteMax /\ ByteMax \in Nat
    BY <1>2, WalletAssumption
  <2>4. /\ rows[b].item \in 0..2 * tx.count - 1 /\ rows[b].item + 1 \in 0..2 * tx.count - 1
        /\ rows[b].no \in 0..ByteMax
    BY <1>2, <2>1, <2>3
  <2>5. rows[b].item \in AllItems /\ rows[b].item + 1 \in AllItems
    BY <1>2, <2>4, RecordItems
  <2>6. <<slots[2 * b - 2], slots[2 * b - 1]>> \in Seq(AllItems)
    BY <2>1, <2>5, TwoElements
  <2>7. detail' \in [no : 0..ByteMax, items : Seq(AllItems)]
    BY <1>5, <2>2, <2>4, <2>6
  <2>8. tapped' \in RowTypes
    BY <1>5 DEF TypeInv, TypeOK
  <2> QED  BY <1>5, <2>7, <2>8 DEF TypeInv, TypeOK
<1> QED  BY <1>3, <1>4, <1>5

LEMMA TypeStep == TypeInv /\ [Next]_vars => TypeInv'
<1> SUFFICES ASSUME TypeInv, [Next]_vars PROVE TypeInv'
  OBVIOUS
<1>1. ReviewInv' /\ TableInv
  BY ReviewStep DEF TypeInv, ReviewInv
<1>2. layer \notin {"error", "undefined"} => tx = subject
  BY <1>1 DEF TableInv
<1>3. SUFFICES TypeOK' /\ (layer' \in {"table", "details"} => subject'.type = "pair")
  BY <1>1 DEF TypeInv
<1>4. CASE Swipe
  BY <1>4, SwipeTypes DEF Swipe, ShowPage
<1>5. CASE SwipeToLongRecipient
  <2>1. 0 \in 0..ByteMax
    BY WalletAssumption
  <2> QED  BY <1>5, <2>1 DEF SwipeToLongRecipient, ReviewError, Fail, TypeInv, TypeOK
<1>6. CASE TapSummary
  BY <1>1, <1>2, <1>6, DisplayTableTypes DEF TapSummary, TypeInv
<1>7. CASE TapMemo
  BY <1>7, TapMemoTypes DEF TapMemo, ModalError, Fail
<1>8. CASE Navigate
  <2>1. PICK p \in 0..PageCount(tx) - 1 : DisplayTable(p)
    BY <1>8 DEF Navigate
  <2>2. p \in Nat /\ layer = "table"
    BY <1>8 DEF Navigate
  <2> QED  BY <1>1, <1>2, <2>1, <2>2, DisplayTableTypes DEF TypeInv
<1>9. CASE DismissDetails
  <2>1. modalPage \in Nat
    BY <1>1 DEF TableInv
  <2> QED  BY <1>1, <1>2, <1>9, <2>1, DisplayTableTypes DEF DismissDetails, TypeInv
<1>10. CASE TapBar
  BY <1>10, TapBarTypes DEF TapBar, TypeInv, ModalError, Fail
<1>11. CASE CloseTable
  <2>1. modalPage' \in 0..ByteMax
    BY <1>11, WalletAssumption DEF CloseTable, TypeInv, TypeOK
  <2>2. rows' \in Seq(RowTypes) /\ Len(rows') <= Bars
    BY <1>11, WalletAssumption DEF CloseTable
  <2> QED  BY <1>11, <2>1, <2>2 DEF CloseTable, Turn, TypeInv, TypeOK
<1>12. CASE DismissMemo \/ AskReject \/ ResumeReview
  BY <1>12 DEF DismissMemo, AskReject, ResumeReview, Turn, TypeInv, TypeOK
<1>13. CASE Sign \/ ConfirmReject
  BY <1>13 DEF Sign, ConfirmReject, Decide, modal, TypeInv, TypeOK
<1>14. CASE UNCHANGED vars
  BY <1>14 DEF vars, modal, TypeInv, TypeOK
<1> QED
  BY <1>4, <1>5, <1>6, <1>7, <1>8, <1>9, <1>10, <1>11, <1>12, <1>13, <1>14 DEF Next

LEMMA InitTypes == Init => TypeInv
<1> SUFFICES ASSUME Init PROVE TypeInv
  OBVIOUS
<1>1. 0 \in 0..ByteMax /\ Bars \in Nat
  BY WalletAssumption
<1>2. NoDetail \in [no : 0..ByteMax, items : Seq(AllItems)]
  BY <1>1 DEF NoDetail
<1>3. fields \in Seq(FieldTypes) /\ Len(fields) <= 4 /\ rows \in Seq(RowTypes) /\ Len(rows) <= Bars
  BY <1>1 DEF Init
<1>5. slots \in [Slots -> Items(subject) \cup {None}]
  BY DEF Init, NoSlots
<1>6. /\ tx \in {subject, None} /\ subject \in Transactions /\ modalPage \in 0..ByteMax
      /\ page \in 0..2 /\ layer = "page" /\ detail \in [no : 0..ByteMax, items : Seq(AllItems)]
      /\ decision = "none" /\ tapped = None /\ screens = {} /\ failed = FALSE
  BY <1>1, <1>2 DEF Init
<1>4. TypeOK
  BY <1>3, <1>5, <1>6 DEF TypeOK
<1> QED  BY <1>4, InitReview DEF Init, TypeInv

\* The variables keep their types; no table has a page or a number beyond a byte, and
\* no slot, bar or detail an item the transaction does not have.
THEOREM WalletTypes == Spec => []TypeOK
BY InitTypes, TypeStep, PTL DEF Spec, TypeInv
=============================================================================
