-------------------------- MODULE NanoReviewProofs --------------------------
(***************************************************************************)
(* Theorems about the Nano review, for every set of transactions: whatever *)
(* buttons are pressed, the offset follows the display and, as long as no  *)
(* formatter fails, the approval comes after every screen; the review then *)
(* implements FullReview.                                                  *)
(***************************************************************************)
EXTENDS NanoReview, TLAPS

\* The screens are shown in order: every screen of an earlier item, and every
\* earlier screen of this item, were shown.
SeenInOrder ==
  ~failed =>
    /\ step = "general" =>
         /\ \A item \in Items : item < text => \A p \in 1..Pages[item] : <<item, p>> \in seen
         /\ \A p \in 1..page : <<text, p>> \in seen
    /\ step \in {"approve", "reject"} =>
         \A item \in Items : \A p \in 1..Pages[item] : <<item, p>> \in seen

ReviewInv == TypeOK /\ OffsetFollowsDisplay /\ SeenInOrder

-----------------------------------------------------------------------------
(* The data.                                                               *)

LEMMA TransactionType ==
  ASSUME TypeOK
  PROVE  /\ Records \in Nat /\ HasMemo \in BOOLEAN
         /\ LastItem = IF HasMemo THEN Records + 1 ELSE Records
         /\ Pages \in [Items -> Nat \ {0}]
         /\ None \notin Int
BY ReviewAssumption DEF TypeOK, Records, HasMemo, LastItem, LastItemOf, Pages, Items

\* Everything, screen by screen.
LEMMA EverythingByScreen ==
  ASSUME NEW item, NEW p
  PROVE  <<item, p>> \in Everything <=> item \in Items /\ p \in 1..Pages[item]
BY DEF Everything

\* The items fetched exist, and the offset stays in range.
LEMMA FetchedItems ==
  ASSUME TypeOK
  PROVE  /\ NextItem # None => NextItem = offset /\ offset \in Items
         /\ NextItem = None <=> offset = LastItem + 1
         /\ PreviousItem # None => PreviousItem = offset - 1 /\ offset - 1 \in Items
         /\ PreviousItem = None <=> offset = 0
         /\ OffsetBack = IF offset = 0 THEN 0 ELSE offset - 1
         /\ offset \in Int
<1>1. offset \in 0..LastItem + 1
  BY DEF TypeOK
<1>2. Records \in Nat /\ HasMemo \in BOOLEAN /\ None \notin Int
  BY TransactionType
<1>3. LastItem = IF HasMemo THEN Records + 1 ELSE Records
  BY TransactionType
<1>4. /\ NextItem # None => NextItem = offset /\ offset \in 0..LastItem
      /\ NextItem = None <=> offset = LastItem + 1
  BY <1>1, <1>2, <1>3 DEF NextItem, Fee, Memo
<1>5. OffsetBack = IF offset = 0 THEN 0 ELSE offset - 1
  BY <1>1, <1>2, <1>3 DEF OffsetBack, Fee, Memo
<1>6. /\ PreviousItem # None => PreviousItem = offset - 1 /\ offset - 1 \in 0..LastItem
      /\ PreviousItem = None <=> offset = 0
  BY <1>1, <1>2, <1>3, <1>5 DEF PreviousItem
<1> QED BY <1>1, <1>2, <1>3, <1>4, <1>5, <1>6 DEF Items

\* What is reviewed does not change.
LEMMA SameTransaction ==
  ASSUME tx' = tx
  PROVE  /\ Records' = Records /\ HasMemo' = HasMemo /\ Pages' = Pages
         /\ LastItem' = LastItem /\ Items' = Items /\ Everything' = Everything
<1>1. /\ Records' = Records /\ HasMemo' = HasMemo /\ Pages' = Pages
      /\ LastItem' = LastItem /\ Items' = Items
  BY DEF Records, HasMemo, Pages, LastItem, LastItemOf, Items
<1> QED BY <1>1 DEF Everything

-----------------------------------------------------------------------------
(* Types.                                                                  *)

LEMMA DisplayTypes ==
  ASSUME TypeOK, tx' = tx, NEW item \in Items \cup {None}, NEW fromLeft \in BOOLEAN,
         Display(item, fromLeft)
  PROVE  step' = "general" /\ text' = item /\ page' \in 1..PageCount' /\ seen' \subseteq Everything'
<1>1. Pages \in [Items -> Nat \ {0}] /\ None \notin Items
  BY TransactionType DEF Items
<1>2. page' \in 1..PageCount'
  BY <1>1, SameTransaction DEF Display, PageCount
<1>3. item # None => <<item, page'>> \in Everything
  BY <1>1, EverythingByScreen DEF Display
<1> QED BY <1>2, <1>3, SameTransaction DEF Display, TypeOK

LEMMA ShowStepTypes ==
  ASSUME TypeOK, tx' = tx, NEW to, ShowStep(to)
  PROVE  step' = to /\ text' = None /\ page' \in 1..PageCount' /\ seen' \subseteq Everything'
BY SameTransaction DEF ShowStep, PageCount, TypeOK

LEMMA TurnTypes ==
  ASSUME TypeOK, tx' = tx, NEW p \in 1..PageCount, PageCount > 1, TurnTo(p)
  PROVE  text \in Items /\ page' \in 1..PageCount' /\ seen' \subseteq Everything'
<1>1. text \in Items
  BY DEF TypeOK, PageCount
<1>2. text # None
  BY <1>1, TransactionType DEF Items
<1>3. <<text, p>> \in Everything
  BY <1>1, <1>2, EverythingByScreen DEF PageCount
<1>4. PageCount' = PageCount
  BY SameTransaction DEF TurnTo, PageCount
<1> QED BY <1>1, <1>3, <1>4, SameTransaction DEF TurnTo, TypeOK

-----------------------------------------------------------------------------
(* The order.                                                              *)

ShownBefore(item) ==
  \A i \in Items : i < item => \A p \in 1..Pages[i] : <<i, p>> \in seen

\* An item displayed from its first screen, or from its last when all were
\* shown, keeps the order.
LEMMA DisplayInOrder ==
  ASSUME TypeOK, tx' = tx, NEW item \in Items, NEW fromLeft \in BOOLEAN,
         Display(item, fromLeft), ShownBefore(item),
         ~fromLeft => \A p \in 1..Pages[item] : <<item, p>> \in seen
  PROVE  SeenInOrder'
<1>1. item # None /\ Pages \in [Items -> Nat \ {0}]
  BY TransactionType DEF Items
<1>2. step' = "general" /\ text' = item /\ seen' = seen \cup {<<item, page'>>}
  BY <1>1 DEF Display
<1>3. page' = IF fromLeft THEN 1 ELSE Pages[item]
  BY <1>1 DEF Display
<1>4. \A p \in 1..page' : <<item, p>> \in seen'
  BY <1>1, <1>2, <1>3
<1>5. \A i \in Items : i < item => \A p \in 1..Pages[i] : <<i, p>> \in seen'
  BY <1>2 DEF ShownBefore
<1> QED BY <1>2, <1>4, <1>5, SameTransaction DEF SeenInOrder

\* On the last screen of an item that item is shown, like those before it.
LEMMA LastScreen ==
  ASSUME ReviewInv, ~failed, step = "general", page = PageCount
  PROVE  /\ text \in Items /\ ShownBefore(text)
         /\ \A p \in 1..Pages[text] : <<text, p>> \in seen
<1>1. text \in Items
  BY DEF ReviewInv, OffsetFollowsDisplay
<1>2. page = Pages[text]
  BY <1>1, TransactionType DEF PageCount, Items, ReviewInv
<1> QED BY <1>1, <1>2 DEF ReviewInv, SeenInOrder, ShownBefore

-----------------------------------------------------------------------------
(* The three outcomes of a press: an item, an empty text, another step.    *)

LEMMA ShowsItem ==
  ASSUME ReviewInv, tx' = tx, decision' = decision, failed' = failed,
         NEW item \in Items, NEW fromLeft \in BOOLEAN, Display(item, fromLeft),
         state' = "dynamic", offset' \in {item, item + 1},
         ~failed => ShownBefore(item),
         ~failed /\ ~fromLeft => \A p \in 1..Pages[item] : <<item, p>> \in seen
  PROVE  ReviewInv'
<1>1. TypeOK
  BY DEF ReviewInv
<1>2. step' = "general" /\ text' = item /\ page' \in 1..PageCount' /\ seen' \subseteq Everything'
  BY <1>1, DisplayTypes
<1>3. TypeOK'
  BY <1>1, <1>2, SameTransaction, TransactionType DEF TypeOK, Items
<1>4. OffsetFollowsDisplay'
  BY <1>2, SameTransaction DEF OffsetFollowsDisplay
<1>5. CASE failed
  BY <1>3, <1>4, <1>5 DEF ReviewInv, SeenInOrder
<1>6. CASE ~failed
  BY <1>1, <1>3, <1>4, <1>6, DisplayInOrder DEF ReviewInv
<1> QED BY <1>5, <1>6

LEMMA ShowsNothing ==
  ASSUME ReviewInv, tx' = tx, decision' = decision, failed' = TRUE,
         NEW fromLeft \in BOOLEAN, Display(None, fromLeft),
         state' \in {"static", "dynamic"}, offset' \in 0..LastItem + 1
  PROVE  ReviewInv'
<1>1. TypeOK
  BY DEF ReviewInv
<1>2. step' = "general" /\ text' = None /\ page' \in 1..PageCount' /\ seen' \subseteq Everything'
  BY <1>1, DisplayTypes
<1>3. TypeOK'
  BY <1>1, <1>2, SameTransaction DEF TypeOK
<1> QED BY <1>3 DEF ReviewInv, OffsetFollowsDisplay, SeenInOrder

LEMMA ShowsStep ==
  ASSUME ReviewInv, tx' = tx, decision' = decision, failed' \in BOOLEAN,
         NEW to \in {"review", "approve", "reject"}, ShowStep(to),
         state' = "static", offset' \in 0..LastItem + 1,
         ~failed' /\ to = "review" => offset' = 0,
         ~failed' /\ to # "review" =>
           offset' = LastItem + 1 /\ \A item \in Items : \A p \in 1..Pages[item] : <<item, p>> \in seen
  PROVE  ReviewInv'
<1>1. TypeOK
  BY DEF ReviewInv
<1>2. step' = to /\ text' = None /\ page' \in 1..PageCount' /\ seen' \subseteq Everything'
  BY <1>1, ShowStepTypes
<1>3. TypeOK'
  BY <1>1, <1>2, SameTransaction DEF TypeOK
<1>4. OffsetFollowsDisplay'
  BY <1>2, SameTransaction DEF OffsetFollowsDisplay
<1>5. SeenInOrder'
  BY <1>2, SameTransaction DEF SeenInOrder, ShowStep
<1> QED BY <1>3, <1>4, <1>5 DEF ReviewInv

-----------------------------------------------------------------------------
(* The delimiters.                                                         *)

\* Nothing is missing in range unless a formatter fails.
LEMMA MissingFails ==
  ASSUME TypeOK, NEW item, Missing(item), item # None \/ failed
  PROVE  failed' = TRUE
BY DEF Missing, TypeOK

LEMMA UpperDelimiterKeeps ==
  ASSUME ReviewInv, Undecided, step \in {"review", "general"}, UpperDelimiter
  PROVE  ReviewInv'
<1>1. TypeOK /\ tx' = tx /\ decision' = decision
  BY DEF ReviewInv, Undecided
<1>2. offset \in 0..LastItem + 1 /\ failed \in BOOLEAN /\ LastItem \in Nat
  BY <1>1, TransactionType DEF TypeOK
<1>3. CASE EnterFromStart
  <2>1. ~failed => step = "review" /\ offset = 0
    BY <1>3 DEF EnterFromStart, ReviewInv, OffsetFollowsDisplay
  <2>2. CASE Fetched(NextItem) /\ offset' = offset + 1 /\ state' = "dynamic" /\ Display(NextItem, TRUE)
    <3>1. NextItem = offset /\ offset \in Items
      BY <1>1, <2>2, FetchedItems DEF Fetched
    <3>2. Display(offset, TRUE) /\ failed' = failed
      BY <2>2, <3>1 DEF Fetched
    <3>3. ~failed => ShownBefore(offset)
      BY <2>1 DEF ShownBefore, Items
    <3>4. offset' \in {offset, offset + 1} /\ state' = "dynamic"
      BY <2>2
    <3> QED BY <1>1, <3>1, <3>2, <3>3, <3>4, ShowsItem
  <2>3. CASE Missing(NextItem) /\ UNCHANGED <<offset, state>> /\ Display(None, TRUE)
    <3>1. NextItem = None => failed
      BY <1>1, <1>2, <2>1, FetchedItems
    <3>2. failed' = TRUE
      BY <1>1, <2>3, <3>1, MissingFails
    <3>3. state' \in {"static", "dynamic"} /\ offset' \in 0..LastItem + 1 /\ Display(None, TRUE)
      BY <1>1, <1>2, <2>3 DEF TypeOK
    <3> QED BY <1>1, <3>2, <3>3, ShowsNothing
  <2> QED BY <1>3, <2>2, <2>3 DEF EnterFromStart
<1>4. CASE Backward
  <2>1. offset' = IF offset = 0 THEN 0 ELSE offset - 1
    BY <1>1, <1>4, FetchedItems DEF Backward
  <2>2. ~failed => step = "general" /\ offset \in {text, text + 1} /\ text \in Items
    BY <1>4 DEF Backward, ReviewInv, OffsetFollowsDisplay
  <2>3. CASE Fetched(PreviousItem) /\ UNCHANGED state /\ Display(PreviousItem, TRUE)
    <3>1. PreviousItem = offset - 1 /\ offset - 1 \in Items /\ offset # 0
      BY <1>1, <2>3, FetchedItems DEF Fetched
    <3>2. Display(offset - 1, TRUE) /\ failed' = failed
      BY <2>3, <3>1 DEF Fetched
    <3>3. ~failed => ShownBefore(offset - 1)
      <4>1. ~failed => \A i \in Items : i < text => \A p \in 1..Pages[i] : <<i, p>> \in seen
        BY <2>2 DEF ReviewInv, SeenInOrder
      <4> QED BY <1>2, <2>2, <4>1 DEF ShownBefore, Items
    <3>4. offset' \in {offset - 1, offset - 1 + 1} /\ state' = "dynamic"
      BY <1>4, <2>1, <2>3, <3>1 DEF Backward
    <3> QED BY <1>1, <3>1, <3>2, <3>3, <3>4, ShowsItem
  <2>4. CASE Missing(PreviousItem) /\ state' = "static" /\ ShowStep("review")
    <3>1. offset' \in 0..LastItem + 1
      BY <1>2, <2>1
    <3>2. failed' \in BOOLEAN
      BY <1>2, <2>4 DEF Missing
    <3>3. ~failed' => offset' = 0
      <4>1. PreviousItem # None => failed' = TRUE
        BY <1>1, <2>4, MissingFails
      <4> QED BY <1>1, <2>1, <4>1, FetchedItems
    <3> QED BY <1>1, <2>4, <3>1, <3>2, <3>3, ShowsStep
  <2> QED BY <1>4, <2>3, <2>4 DEF Backward
<1> QED BY <1>3, <1>4 DEF UpperDelimiter

LEMMA LowerDelimiterKeeps ==
  ASSUME ReviewInv, Undecided, LowerDelimiter,
         step = "approve" \/ (step = "general" /\ page = PageCount)
  PROVE  ReviewInv'
<1>1. TypeOK /\ tx' = tx /\ decision' = decision
  BY DEF ReviewInv, Undecided
<1>2. offset \in 0..LastItem + 1 /\ failed \in BOOLEAN /\ LastItem \in Nat
  BY <1>1, TransactionType DEF TypeOK
<1>3. CASE EnterFromEnd
  <2>1. offset' = IF offset = 0 THEN 0 ELSE offset - 1
    BY <1>1, <1>3, FetchedItems DEF EnterFromEnd
  <2>2. ~failed => step = "approve" /\ offset = LastItem + 1
    BY <1>3 DEF EnterFromEnd, ReviewInv, OffsetFollowsDisplay
  <2>3. CASE Fetched(PreviousItem) /\ state' = "dynamic" /\ Display(PreviousItem, FALSE)
    <3>1. PreviousItem = offset - 1 /\ offset - 1 \in Items /\ offset # 0
      BY <1>1, <2>3, FetchedItems DEF Fetched
    <3>2. Display(offset - 1, FALSE) /\ failed' = failed
      BY <2>3, <3>1 DEF Fetched
    <3>3. ~failed => \A item \in Items : \A p \in 1..Pages[item] : <<item, p>> \in seen
      BY <2>2 DEF ReviewInv, SeenInOrder
    <3>4. ~failed => ShownBefore(offset - 1)
      BY <3>3 DEF ShownBefore
    <3>5. offset' \in {offset - 1, offset - 1 + 1} /\ state' = "dynamic"
      BY <2>1, <2>3, <3>1
    <3> QED BY <1>1, <3>1, <3>2, <3>3, <3>4, <3>5, ShowsItem
  <2>4. CASE Missing(PreviousItem) /\ UNCHANGED state /\ Display(None, FALSE)
    <3>1. PreviousItem = None => failed
      BY <1>1, <1>2, <2>2, FetchedItems
    <3>2. failed' = TRUE
      BY <1>1, <2>4, <3>1, MissingFails
    <3>3. state' \in {"static", "dynamic"} /\ offset' \in 0..LastItem + 1
      BY <1>1, <1>2, <2>1, <2>4 DEF TypeOK
    <3>4. Display(None, FALSE)
      BY <2>4
    <3> QED BY <1>1, <3>2, <3>3, <3>4, ShowsNothing
  <2> QED BY <1>3, <2>3, <2>4 DEF EnterFromEnd
<1>4. CASE Forward
  <2>1. ~failed => /\ step = "general" /\ offset \in {text, text + 1}
                   /\ text \in Items /\ ShownBefore(text)
                   /\ \A p \in 1..Pages[text] : <<text, p>> \in seen
    BY <1>4, LastScreen DEF Forward, ReviewInv, OffsetFollowsDisplay
  <2>2. ~failed => ShownBefore(offset)
    BY <1>2, <2>1 DEF ShownBefore, Items
  <2>3. CASE Fetched(NextItem) /\ offset' = offset + 1 /\ UNCHANGED state /\ ShowAgain(NextItem)
    <3>1. NextItem = offset /\ offset \in Items
      BY <1>1, <2>3, FetchedItems DEF Fetched
    <3>2. Display(offset, TRUE) /\ failed' = failed
      BY <2>3, <3>1 DEF Fetched, ShowAgain
    <3>3. offset' \in {offset, offset + 1} /\ state' = "dynamic"
      BY <1>4, <2>3 DEF Forward
    <3> QED BY <1>1, <2>2, <3>1, <3>2, <3>3, ShowsItem
  <2>4. CASE /\ Missing(NextItem) /\ offset = Fee /\ HasMemo
             /\ offset' = offset + 1 /\ UNCHANGED state
             /\ ShowAgain(None)
    <3>1. LastItem = Records + 1 /\ offset = Records
      BY <1>1, <2>4, TransactionType DEF Fee
    <3>2. NextItem # None
      BY <1>1, <1>2, <3>1, FetchedItems
    <3>3. failed' = TRUE
      BY <1>1, <2>4, <3>2, MissingFails
    <3>4. state' \in {"static", "dynamic"} /\ offset' \in 0..LastItem + 1
      BY <1>1, <1>2, <2>4, <3>1, TransactionType DEF TypeOK
    <3>5. Display(None, TRUE)
      BY <2>4 DEF ShowAgain
    <3> QED BY <1>1, <3>3, <3>4, <3>5, ShowsNothing
  <2>5. CASE Missing(NextItem) /\ state' = "static" /\ UNCHANGED offset /\ ShowStep("approve")
    <3>1. failed' \in BOOLEAN /\ offset' \in 0..LastItem + 1
      BY <1>2, <2>5 DEF Missing
    <3>2. CASE NextItem = None
      <4>1. offset = LastItem + 1
        BY <1>1, <3>2, FetchedItems
      <4>2. failed' = failed \/ failed' = TRUE
        BY <2>5 DEF Missing
      <4>3. ~failed' => ~failed
        BY <4>2
      <4>4. \A item \in Items : item < offset
        BY <1>2, <4>1 DEF Items
      <4>5. ~failed' => \A item \in Items : \A p \in 1..Pages[item] : <<item, p>> \in seen
        BY <2>2, <4>3, <4>4 DEF ShownBefore
      <4> QED BY <1>1, <2>5, <3>1, <4>1, <4>5, ShowsStep
    <3>3. CASE NextItem # None
      <4>1. failed' = TRUE
        BY <1>1, <2>5, <3>3, MissingFails
      <4> QED BY <1>1, <2>5, <3>1, <4>1, ShowsStep
    <3> QED BY <3>2, <3>3
  <2> QED BY <1>4, <2>3, <2>4, <2>5 DEF Forward
<1> QED BY <1>3, <1>4 DEF LowerDelimiter

-----------------------------------------------------------------------------
(* The invariant.                                                          *)

LEMMA TurnKeeps ==
  ASSUME ReviewInv, Undecided, step = "general", PageCount > 1,
         NEW p \in 1..PageCount, TurnTo(p), p <= page + 1
  PROVE  ReviewInv'
<1>1. TypeOK /\ tx' = tx /\ decision' = decision
  BY DEF ReviewInv, Undecided
<1>2. text \in Items /\ page' \in 1..PageCount' /\ seen' \subseteq Everything'
  BY <1>1, TurnTypes
<1>3. TypeOK'
  BY <1>1, <1>2, SameTransaction DEF TypeOK, TurnTo
<1>4. OffsetFollowsDisplay'
  BY <1>1, <1>2, SameTransaction DEF ReviewInv, OffsetFollowsDisplay, TurnTo
<1>5. SeenInOrder'
  <2>1. CASE failed
    BY <2>1 DEF SeenInOrder, TurnTo
  <2>2. CASE ~failed
    <3>1. \A q \in 1..page : <<text, q>> \in seen
      BY <2>2 DEF ReviewInv, SeenInOrder
    <3>2. page \in Int /\ p \in Int
      BY <1>1 DEF TypeOK
    <3>3. \A q \in 1..p : q \in 1..page \/ q = p
      BY <3>2
    <3>4. \A q \in 1..page' : <<text', q>> \in seen'
      BY <3>1, <3>3 DEF TurnTo
    <3> QED BY <1>1, <2>2, <3>4, SameTransaction DEF ReviewInv, SeenInOrder, TurnTo
  <2> QED BY <2>1, <2>2
<1> QED BY <1>3, <1>4, <1>5 DEF ReviewInv

\* The last two steps follow each other without a delimiter.
LEMMA MoveKeeps ==
  ASSUME ReviewInv, Undecided,
         NEW from \in {"approve", "reject"}, NEW to \in {"approve", "reject"}, Move(from, to)
  PROVE  ReviewInv'
<1>1. TypeOK /\ tx' = tx /\ decision' = decision /\ failed' = failed /\ failed \in BOOLEAN
  BY DEF ReviewInv, Undecided, Move, TypeOK
<1>2. offset' = offset /\ state' = state /\ step = from
  BY DEF Move
<1>3. ~failed => /\ state = "static" /\ offset = LastItem + 1
                 /\ \A item \in Items : \A p \in 1..Pages[item] : <<item, p>> \in seen
  BY <1>2 DEF ReviewInv, OffsetFollowsDisplay, SeenInOrder
<1>4. step' = to /\ text' = None /\ page' \in 1..PageCount' /\ seen' \subseteq Everything' /\ seen' = seen
  BY <1>1, ShowStepTypes DEF Move, ShowStep
<1>5. TypeOK'
  BY <1>1, <1>2, <1>4, SameTransaction DEF TypeOK
<1>6. OffsetFollowsDisplay'
  BY <1>1, <1>2, <1>3, <1>4, SameTransaction DEF OffsetFollowsDisplay
<1>7. SeenInOrder'
  BY <1>1, <1>3, <1>4, SameTransaction DEF SeenInOrder
<1> QED BY <1>5, <1>6, <1>7 DEF ReviewInv

LEMMA InitReview == Init => ReviewInv
<1> SUFFICES ASSUME Init PROVE ReviewInv
  OBVIOUS
<1>1. tx \in Transactions /\ LastItem \in Nat
  BY ReviewAssumption DEF Init, LastItem, LastItemOf
<1>2. offset \in 0..LastItem + 1 /\ page \in 1..PageCount
  BY <1>1 DEF Init, PageCount
<1>3. TypeOK
  BY <1>1, <1>2 DEF Init, TypeOK
<1> QED BY <1>3 DEF Init, ReviewInv, OffsetFollowsDisplay, SeenInOrder

LEMMA NextKeepsReview == ReviewInv /\ [Next]_vars => ReviewInv'
<1> SUFFICES ASSUME ReviewInv, [Next]_vars PROVE ReviewInv'
  OBVIOUS
<1>0. TypeOK /\ page \in 1..PageCount /\ PageCount \in Nat
  <2>1. TypeOK
    BY DEF ReviewInv
  <2>2. text \in Items /\ text # None => Pages[text] \in Nat
    BY <2>1, TransactionType
  <2> QED BY <2>1, <2>2 DEF TypeOK, PageCount
<1>1. CASE Right
  <2>1. CASE step = "review" /\ UpperDelimiter
    BY <1>1, <2>1, UpperDelimiterKeeps DEF Right
  <2>2. CASE step = "general" /\ page < PageCount /\ TurnTo(page + 1)
    <3>1. page < PageCount
      BY <2>2
    <3>2. page + 1 \in 1..PageCount /\ PageCount > 1 /\ page + 1 <= page + 1
      BY <1>0, <3>1
    <3>3. Undecided /\ step = "general" /\ TurnTo(page + 1)
      BY <1>1, <2>2 DEF Right
    <3> QED BY <3>2, <3>3, TurnKeeps
  <2>3. CASE step = "general" /\ page = PageCount /\ LowerDelimiter
    BY <1>1, <2>3, LowerDelimiterKeeps DEF Right
  <2>4. CASE Move("approve", "reject")
    BY <1>1, <2>4, MoveKeeps DEF Right
  <2> QED BY <1>1, <2>1, <2>2, <2>3, <2>4 DEF Right
<1>2. CASE Left
  <2>1. CASE step = "general" /\ page > 1 /\ TurnTo(page - 1)
    <3>1. page - 1 \in 1..PageCount /\ PageCount > 1 /\ page - 1 <= page + 1
      BY <1>0, <2>1
    <3> QED BY <1>2, <2>1, <3>1, TurnKeeps DEF Left
  <2>2. CASE step = "general" /\ UpperDelimiter
    BY <1>2, <2>2, UpperDelimiterKeeps DEF Left
  <2>3. CASE step = "approve" /\ LowerDelimiter
    BY <1>2, <2>3, LowerDelimiterKeeps DEF Left
  <2>4. CASE Move("reject", "approve")
    BY <1>2, <2>4, MoveKeeps DEF Left
  <2> QED BY <1>2, <2>1, <2>2, <2>3, <2>4 DEF Left
<1>3. CASE Press \/ UNCHANGED vars
  <2>1. UNCHANGED <<tx, step, state, offset, text, page, seen, failed>>
    BY <1>3 DEF Press, vars
  <2>2. decision' \in {"none", "approved", "rejected"}
    BY <1>0, <1>3 DEF Press, vars, TypeOK
  <2>3. TypeOK'
    BY <1>0, <2>1, <2>2, SameTransaction DEF TypeOK, PageCount
  <2>4. OffsetFollowsDisplay' /\ SeenInOrder'
    BY <2>1, SameTransaction DEF ReviewInv, OffsetFollowsDisplay, SeenInOrder
  <2> QED BY <2>3, <2>4 DEF ReviewInv
<1> QED BY <1>1, <1>2, <1>3 DEF Next

\* The review keeps its invariant.
THEOREM ReviewInvariant == Spec => []ReviewInv
<1>1. Spec => []ReviewInv
  BY InitReview, NextKeepsReview, PTL DEF Spec
<1> QED BY <1>1

\* Every variable keeps its type; in particular the offset stays in range.
THEOREM TypeInvariant == Spec => []TypeOK
<1>1. ReviewInv => TypeOK
  BY DEF ReviewInv
<1> QED BY <1>1, ReviewInvariant, PTL

\* However the user goes back and forth, the offset is the item on the display
\* or the one after it, and no empty text is shown.
THEOREM OffsetIsRight == Spec => []OffsetFollowsDisplay
<1>1. ReviewInv => OffsetFollowsDisplay
  BY DEF ReviewInv
<1> QED BY <1>1, ReviewInvariant, PTL

LEMMA OrderShowsAll == ReviewInv => OfferedAfterAll
<1> SUFFICES ASSUME ReviewInv, step \in {"approve", "reject"}, ~failed PROVE seen = Everything
  BY DEF OfferedAfterAll
<1>1. Everything \subseteq seen
  BY DEF ReviewInv, SeenInOrder, Everything
<1> QED BY <1>1 DEF ReviewInv, TypeOK

\* The approval is offered after every screen of the transaction, unless a
\* formatter failed.
THEOREM ApprovalComesLast == Spec => []OfferedAfterAll
BY OrderShowsAll, ReviewInvariant, PTL

-----------------------------------------------------------------------------
(* The steps.                                                              *)

LEMMA NextToNeighbour ==
  ReviewInv /\ ReviewInv' /\ [Next]_vars => [~failed' => ToNeighbour]_vars
<1> SUFFICES ASSUME ReviewInv, Next, ~failed', step = "general", step' = "general"
             PROVE  text' - text \in {-1, 0, 1}
  BY DEF ToNeighbour
<1>1. TypeOK /\ failed \in BOOLEAN
  BY DEF ReviewInv, TypeOK
<1>2. ~failed
  BY <1>1 DEF Next, Right, Left, Press, UpperDelimiter, LowerDelimiter, EnterFromStart,
              Backward, EnterFromEnd, Forward, Fetched, Missing, TurnTo, Move
<1>3. text \in Items /\ text \in Int /\ offset \in {text, text + 1} /\ state = "dynamic"
  BY <1>2 DEF ReviewInv, OffsetFollowsDisplay, Items
<1>4. CASE UpperDelimiter
  <2>1. Fetched(PreviousItem) /\ Display(PreviousItem, TRUE)
    BY <1>3, <1>4 DEF UpperDelimiter, EnterFromStart, Backward, ShowStep
  <2>2. text' = offset - 1
    BY <1>1, <2>1, FetchedItems DEF Fetched, Display
  <2> QED BY <1>3, <2>2
<1>5. CASE LowerDelimiter
  <2>1. Fetched(NextItem) /\ text' = NextItem
    <3>1. Forward
      BY <1>3, <1>5 DEF LowerDelimiter, EnterFromEnd
    <3>2. offset = Fee /\ HasMemo => NextItem # None
      BY <1>1, <1>3, TransactionType DEF NextItem, Fee
    <3>3. ~(Missing(NextItem) /\ NextItem # None)
      BY DEF Missing
    <3> QED BY <3>1, <3>2, <3>3 DEF Forward, ShowAgain, Display, ShowStep
  <2>2. text' = offset
    BY <1>1, <2>1, FetchedItems DEF Fetched
  <2> QED BY <1>3, <2>2
<1>6. CASE UNCHANGED text
  BY <1>3, <1>6
<1> QED BY <1>4, <1>5, <1>6 DEF Next, Right, Left, Press, TurnTo, Move, ShowStep

\* A press leads to the item beside the one on the display, or keeps it.
THEOREM NoItemPassedOver == Spec => StepsToNeighbours
<1>1. Spec => [][~failed' => ToNeighbour]_vars
  BY ReviewInvariant, NextToNeighbour, PTL DEF Spec
<1> QED BY <1>1 DEF StepsToNeighbours

-----------------------------------------------------------------------------
(* The promise.                                                            *)

\* A press of the left or right button shows at most one more screen.
LEMMA PressShowsOne ==
  ASSUME Right \/ Left
  PROVE  seen' = seen \/ \E screen : seen' = seen \cup {screen}
<1>1. \A item, fromLeft : Display(item, fromLeft) =>
        seen' = seen \/ \E screen : seen' = seen \cup {screen}
  BY DEF Display
<1>2. CASE UpperDelimiter
  BY <1>1, <1>2 DEF UpperDelimiter, EnterFromStart, Backward, ShowStep
<1>3. CASE LowerDelimiter
  BY <1>1, <1>3 DEF LowerDelimiter, EnterFromEnd, Forward, ShowAgain, ShowStep
<1>4. CASE TurnTo(page + 1) \/ TurnTo(page - 1)
  BY <1>4 DEF TurnTo
<1>5. CASE Move("approve", "reject") \/ Move("reject", "approve")
  BY <1>5 DEF Move, ShowStep
<1> QED BY <1>2, <1>3, <1>4, <1>5 DEF Right, Left

LEMMA NextKeepsPromise ==
  ReviewInv /\ ReviewInv' /\ [Next]_vars => [Promise!RNext]_(Promise!rvars)
<1> SUFFICES ASSUME ReviewInv, ReviewInv', [Next]_vars
             PROVE  Promise!RNext \/ UNCHANGED <<Everything, seen, Outcome>>
  BY DEF Promise!rvars
<1>1. CASE Right \/ Left
  <2>1. tx' = tx /\ Outcome = "none" /\ Outcome' = "none"
    BY <1>1 DEF Right, Left, Undecided, Outcome
  <2>2. Everything' = Everything /\ seen' \subseteq Everything
    BY <2>1, SameTransaction DEF ReviewInv, TypeOK
  <2>3. CASE seen' = seen
    BY <2>1, <2>2, <2>3
  <2>4. CASE \E screen : seen' = seen \cup {screen}
    <3>1. \E screen \in Everything : seen' = seen \cup {screen}
      BY <2>2, <2>4
    <3> QED BY <2>1, <2>2, <3>1 DEF Promise!RNext, Promise!Show
  <2> QED BY <1>1, <2>3, <2>4, PressShowsOne
<1>2. CASE Press
  <2>1. Everything' = Everything /\ seen' = seen /\ Outcome = "none"
    BY <1>2, SameTransaction DEF Press, Outcome
  <2>2. CASE step = "approve" /\ decision' = "approved" /\ failed
    <3>1. Outcome' = "none"
      BY <1>2, <2>2 DEF Press, Outcome
    <3> QED BY <2>1, <3>1
  <2>3. CASE step = "approve" /\ decision' = "approved" /\ ~failed
    <3>1. seen = Everything
      BY <2>3, OrderShowsAll DEF OfferedAfterAll
    <3>2. Outcome' = "approved"
      BY <1>2, <2>3 DEF Press, Outcome
    <3> QED BY <2>1, <3>1, <3>2 DEF Promise!RNext, Promise!Agree
  <2>4. CASE step = "reject" /\ decision' = "rejected"
    <3>1. Outcome' = "rejected"
      BY <1>2, <2>4 DEF Press, Outcome
    <3> QED BY <2>1, <3>1 DEF Promise!RNext, Promise!Refuse
  <2> QED BY <1>2, <2>2, <2>3, <2>4 DEF Press
<1>3. CASE UNCHANGED vars
  BY <1>3, SameTransaction DEF vars, Outcome
<1> QED BY <1>1, <1>2, <1>3 DEF Next

\* The review implements the abstract one: the approval of a review in which no
\* formatter failed is of a transaction that was shown whole.
THEOREM ReviewImplementsPromise == Spec => ImplementsFullReview
<1>1. Init => Promise!RInit
  BY DEF Init, Promise!RInit, Outcome
<1> QED BY <1>1, NextKeepsPromise, ReviewInvariant, PTL
        DEF Spec, ImplementsFullReview, Promise!RSpec

-----------------------------------------------------------------------------
(* The first item.                                                         *)

\* Until the first item was shown whole the review is before it, in the static
\* state, or on one of its screens, all of those before which were shown.
BeforeFirst == state = "static" /\ offset = 0 /\ step \in {"review", "general"} /\ text = None
OnFirst ==
  /\ state = "dynamic" /\ step = "general" /\ text = 0 /\ offset \in {0, 1}
  /\ page \in 1..Pages[0]
  /\ \A p \in 1..page : <<0, p>> \in seen

FirstInv == TypeOK /\ (FirstShown \/ BeforeFirst \/ OnFirst)

LEMMA FirstItem ==
  ASSUME TypeOK
  PROVE  /\ Pages[0] \in Nat \ {0} /\ 0 # None /\ 0 \in Items
         /\ offset = 0 => PreviousItem = None /\ OffsetBack = 0
         /\ offset = 0 => NextItem = 0
         /\ offset = 1 => PreviousItem = 0 /\ OffsetBack = 0
<1>1. /\ Records \in Nat /\ HasMemo \in BOOLEAN /\ None \notin Int
      /\ LastItem = IF HasMemo THEN Records + 1 ELSE Records
      /\ Pages \in [Items -> Nat \ {0}]
  BY TransactionType
<1>2. 0 \in Items /\ 0 # None
  BY <1>1 DEF Items
<1>3. Pages[0] \in Nat \ {0}
  BY <1>1, <1>2
<1>4. OffsetBack = IF offset = 0 THEN 0 ELSE offset - 1
  BY FetchedItems
<1>5. offset = 0 => NextItem = 0
  BY <1>1 DEF NextItem, Fee, Memo
<1> QED BY <1>2, <1>3, <1>4, <1>5 DEF PreviousItem

\* A step of a review whose first item was not yet shown whole.
LEMMA ButtonBeforeFirst ==
  ASSUME TypeOK, tx' = tx, ~FirstShown, BeforeFirst, Right \/ Left
  PROVE  BeforeFirst' \/ OnFirst'
<1>1. /\ Pages[0] \in Nat \ {0} /\ 0 # None /\ Pages' = Pages
      /\ PreviousItem = None /\ OffsetBack = 0 /\ NextItem = 0
  BY FirstItem, SameTransaction DEF BeforeFirst
<1>2. /\ step \in {"review", "general"} /\ state = "static" /\ offset = 0
      /\ PageCount = 1 /\ page = 1
  BY DEF BeforeFirst, PageCount, TypeOK
<1>3. EnterFromStart \/ EnterFromEnd
  BY <1>2 DEF Right, Left, Move, UpperDelimiter, LowerDelimiter, Backward, Forward
<1>4. CASE EnterFromEnd
  BY <1>1, <1>2, <1>4 DEF EnterFromEnd, Fetched, Display, BeforeFirst
<1>5. CASE EnterFromStart /\ Missing(NextItem) /\ Display(None, TRUE) /\ UNCHANGED <<offset, state>>
  BY <1>2, <1>5 DEF Display, BeforeFirst
<1>6. CASE /\ offset' = offset + 1 /\ state' = "dynamic" /\ Display(NextItem, TRUE)
  <2>1. /\ offset' = 1 /\ state' = "dynamic" /\ step' = "general" /\ text' = 0 /\ page' = 1
        /\ <<0, 1>> \in seen'
    BY <1>1, <1>2, <1>6 DEF Display
  <2>2. 1 \in 1..Pages'[0]
    BY <1>1
  <2>3. \A p \in 1..page' : <<0, p>> \in seen'
    BY <2>1
  <2> QED BY <2>1, <2>2, <2>3 DEF OnFirst
<1> QED BY <1>3, <1>4, <1>5, <1>6 DEF EnterFromStart

LEMMA ButtonOnFirst ==
  ASSUME TypeOK, tx' = tx, ~FirstShown, OnFirst, Right \/ Left
  PROVE  BeforeFirst' \/ OnFirst'
<1>1. /\ Pages[0] \in Nat \ {0} /\ 0 # None /\ Pages' = Pages /\ OffsetBack = 0
      /\ PreviousItem = None \/ PreviousItem = 0
  BY FirstItem, SameTransaction DEF OnFirst
<1>2. /\ step = "general" /\ state = "dynamic" /\ text = 0 /\ page \in 1..Pages[0]
      /\ \A p \in 1..page : <<0, p>> \in seen
      /\ offset \in {0, 1}
  BY DEF OnFirst
<1>3. PageCount = Pages[0]
  BY <1>1, <1>2 DEF PageCount
<1>4. page < PageCount
  BY <1>1, <1>2, <1>3 DEF FirstShown
<1>5. CASE TurnTo(page + 1)
  <2>1. /\ step' = "general" /\ state' = "dynamic" /\ text' = 0 /\ page' = page + 1
        /\ offset' \in {0, 1} /\ seen' = seen \cup {<<0, page + 1>>}
    BY <1>2, <1>5 DEF TurnTo
  <2>2. page + 1 \in 1..Pages'[0]
    BY <1>1, <1>2, <1>3, <1>4
  <2>3. \A p \in 1..page + 1 : p \in 1..page \/ p = page + 1
    BY <1>1, <1>2
  <2> QED BY <2>1, <2>2, <2>3, <1>2 DEF OnFirst
<1>6. CASE page > 1 /\ TurnTo(page - 1)
  <2>1. /\ step' = "general" /\ state' = "dynamic" /\ text' = 0 /\ page' = page - 1
        /\ offset' \in {0, 1} /\ seen \subseteq seen'
    BY <1>2, <1>6 DEF TurnTo
  <2>2. page - 1 \in 1..Pages'[0] /\ \A p \in 1..page - 1 : p \in 1..page
    BY <1>1, <1>2, <1>6
  <2> QED BY <2>1, <2>2, <1>2 DEF OnFirst
<1>7. CASE Backward
  <2>1. CASE Missing(PreviousItem) /\ state' = "static" /\ ShowStep("review")
    BY <2>1, <1>1, <1>7 DEF Backward, ShowStep, BeforeFirst
  <2>2. CASE Fetched(PreviousItem) /\ UNCHANGED state /\ Display(PreviousItem, TRUE)
    <3>1. PreviousItem = 0
      BY <2>2, <1>1 DEF Fetched
    <3>2. /\ offset' = 0 /\ state' = "dynamic" /\ step' = "general" /\ text' = 0 /\ page' = 1
          /\ <<0, 1>> \in seen'
      BY <2>2, <3>1, <1>1, <1>2, <1>7 DEF Backward, Display
    <3>3. 1 \in 1..Pages'[0]
      BY <1>1
    <3>4. \A p \in 1..page' : <<0, p>> \in seen'
      BY <3>2
    <3> QED BY <3>2, <3>3, <3>4 DEF OnFirst
  <2> QED BY <1>7, <2>1, <2>2 DEF Backward
<1>8. TurnTo(page + 1) \/ (page > 1 /\ TurnTo(page - 1)) \/ Backward
  BY <1>1, <1>2, <1>3, <1>4 DEF Right, Left, Move, UpperDelimiter, EnterFromStart
<1> QED BY <1>5, <1>6, <1>7, <1>8

\* What was shown stays shown.
LEMMA SeenStays ==
  ASSUME [Next]_vars
  PROVE  seen \subseteq seen'
BY DEF vars, Next, Right, Left, Press, UpperDelimiter, LowerDelimiter, EnterFromStart, EnterFromEnd,
       Backward, Forward, Display, ShowAgain, ShowStep, TurnTo, Move

LEMMA NextKeepsFirst == FirstInv /\ TypeOK' /\ [Next]_vars => FirstInv'
<1> SUFFICES ASSUME FirstInv, TypeOK', [Next]_vars PROVE FirstShown' \/ BeforeFirst' \/ OnFirst'
  BY DEF FirstInv
<1>1. tx' = tx
  BY DEF vars, Next, Right, Left, Press, Undecided
<1>2. Pages' = Pages
  BY <1>1, SameTransaction
<1>3. CASE FirstShown
  BY <1>2, <1>3, SeenStays DEF FirstShown
<1>4. CASE ~FirstShown /\ (Right \/ Left)
  BY <1>1, <1>4, ButtonBeforeFirst, ButtonOnFirst DEF FirstInv
<1>5. CASE Press \/ UNCHANGED vars
  <2>1. UNCHANGED <<step, state, offset, text, page, seen>>
    BY <1>5 DEF Press, vars
  <2> QED BY <2>1, <1>2 DEF FirstInv, FirstShown, BeforeFirst, OnFirst
<1> QED BY <1>3, <1>4, <1>5 DEF Next

\* Also when formatters fail, a review ends only behind its first item.
THEOREM FirstComesFirst == Spec => []EndsBehindFirst
<1>1. Init => FirstInv
  BY InitReview DEF Init, FirstInv, BeforeFirst, ReviewInv
<1>2. FirstInv => EndsBehindFirst
  BY DEF FirstInv, BeforeFirst, OnFirst, EndsBehindFirst
<1> QED BY <1>1, <1>2, NextKeepsFirst, TypeInvariant, PTL DEF Spec
=============================================================================
