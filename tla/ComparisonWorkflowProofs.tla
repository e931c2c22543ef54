---------------------- MODULE ComparisonWorkflowProofs ----------------------
(* Theorems about ComparisonWorkflow. *)
EXTENDS ComparisonWorkflow, TLAPS


-----------------------------------------------------------------------------
(* Type correctness.                                                       *)

LEMMA NothingShown == Nothing \in Shown
    BY RowsAssumption, BoundsAssumption DEF Nothing, Shown

LEMMA HeldTypes ==
    ASSUME TypeOK, NEW c \in Clients, NEW r \in Rows, NEW i \in Held(c, r)
    PROVE  [row |-> r, import |-> i] \in Shown
<1>1. r \in 0..MaxRows
    BY RowsAssumption DEF Rows
<1>2. page[c] \in Shown /\ page[c].import \in 0..MaxImports
    BY DEF TypeOK, Shown
<1>3. i \in 0..MaxImports
    BY <1>2, BoundsAssumption DEF TypeOK, Held
<1> QED
    BY <1>1, <1>3 DEF Shown

LEMMA NextTypes ==
    ASSUME TypeOK, NEW c \in Clients, BeginNext(c) \/ ListDone(c) \/ FindRow(c)
    PROVE  TypeOK'
<1>1. CASE BeginNext(c)
    BY <1>1 DEF TypeOK, BeginNext, resultVars, responseVars, submitVars
<1>2. CASE ListDone(c)
    BY <1>2 DEF TypeOK, ListDone, HasResult, resultVars, responseVars, submitVars
<1>3. CASE FindRow(c)
    <2>1. PICK p \in Shown, b \in BOOLEAN : /\ page' = [page EXCEPT ![c] = p]
                                            /\ done' = [done EXCEPT ![c] = b]
        BY <1>3, NothingShown, HeldTypes DEF FindRow
    <2> QED
        BY <1>3, <2>1 DEF TypeOK, FindRow, resultVars, responseVars, submitVars
<1> QED
    BY <1>1, <1>2, <1>3

LEMMA AddTypes ==
    ASSUME NEW table \in [Evaluators -> [Rows -> Nat]], NEW e \in Evaluators, NEW r \in Rows
    PROVE  Add(table, e, r) \in [Evaluators -> [Rows -> Nat]]
    BY DEF Add

LEMMA EndSubmitTypes ==
    ASSUME TypeOK, NEW c \in Clients, EndSubmit(c)
    PROVE  /\ spc' \in [Clients -> {"idle", "check", "create", "entries"}]
           /\ sent' \in [Clients -> Shown]
    BY NothingShown DEF TypeOK, EndSubmit

(* While a submit is in flight it has a row: the page had one. *)
SentRow == \A c \in Clients : spc[c] # "idle" => sent[c].row \in Rows

LEMMA SubmitTypes ==
    ASSUME TypeOK, SentRow, NEW c \in Clients, Submit(c)
    PROVE  TypeOK' /\ SentRow'
<1>1. CASE BeginSubmit(c)
    <2>1. TypeOK'
        BY <1>1 DEF TypeOK, BeginSubmit, resultVars, responseVars, nextVars
    <2>2. page[c].row \in Rows
        BY <1>1, RowsAssumption DEF TypeOK, BeginSubmit, Rows, Shown
    <2>3. SentRow'
        BY <1>1, <2>2 DEF TypeOK, SentRow, BeginSubmit
    <2> QED
        BY <2>1, <2>3
<1>2. CASE CheckExisting(c)
    <2>1. TypeOK'
        BY <1>2, EndSubmitTypes DEF TypeOK, CheckExisting, resultVars, responseVars, nextVars
    <2>2. SentRow'
        BY <1>2 DEF TypeOK, SentRow, CheckExisting, EndSubmit
    <2> QED
        BY <2>1, <2>2
<1>3. CASE CreateComparison(c)
    <2>1. Owner[c] \in Evaluators /\ sent[c].row \in Rows
        BY <1>3, OwnerAssumption DEF SentRow, CreateComparison
    <2>2. /\ result' \in [Evaluators -> [Rows -> Nat]]
          /\ linked' \in [Evaluators -> [Rows -> Nat]]
        <3>1. /\ Add(result, Owner[c], sent[c].row) \in [Evaluators -> [Rows -> Nat]]
              /\ Add(linked, Owner[c], sent[c].row) \in [Evaluators -> [Rows -> Nat]]
            BY <2>1, AddTypes DEF TypeOK
        <3> QED
            BY <1>3, <3>1 DEF TypeOK, CreateComparison, resultVars
    <2>3. TypeOK'
        BY <1>3, <2>2, EndSubmitTypes DEF TypeOK, CreateComparison, responseVars, nextVars
    <2>4. SentRow'
        BY <1>3 DEF TypeOK, SentRow, CreateComparison, EndSubmit
    <2> QED
        BY <2>3, <2>4
<1>4. CASE CreateRanking(c)
    <2>1. Owner[c] \in Evaluators /\ sent[c].row \in Rows
        BY <1>4, OwnerAssumption DEF SentRow, CreateRanking
    <2>2. result' \in [Evaluators -> [Rows -> Nat]]
        BY <1>4, <2>1, AddTypes DEF TypeOK, CreateRanking
    <2>3. TypeOK'
        BY <1>4, <2>2 DEF TypeOK, CreateRanking, responseVars, nextVars
    <2>4. SentRow'
        BY <1>4 DEF TypeOK, SentRow, CreateRanking
    <2> QED
        BY <2>3, <2>4
<1>5. CASE CreateEntries(c)
    <2>1. Owner[c] \in Evaluators /\ sent[c].row \in Rows
        BY <1>5, OwnerAssumption DEF SentRow, CreateEntries
    <2>2. linked' \in [Evaluators -> [Rows -> Nat]]
        <3>1. Add(linked, Owner[c], sent[c].row) \in [Evaluators -> [Rows -> Nat]]
            BY <2>1, AddTypes DEF TypeOK
        <3> QED
            BY <1>5, <3>1 DEF TypeOK, CreateEntries
    <2>3. TypeOK'
        BY <1>5, <2>2, EndSubmitTypes DEF TypeOK, CreateEntries, responseVars, nextVars
    <2>4. SentRow'
        BY <1>5 DEF TypeOK, SentRow, CreateEntries, EndSubmit
    <2> QED
        BY <2>3, <2>4
<1> QED
    BY <1>1, <1>2, <1>3, <1>4, <1>5 DEF Submit

LEMMA SystemTypes ==
    ASSUME TypeOK, SetActive \/ ClearResponses \/ CreateResponses \/ Crash,
           present \/ import < MaxImports
    PROVE  TypeOK'
<1>1. CASE SetActive
    BY <1>1 DEF TypeOK, SetActive, resultVars, responseVars, nextVars, submitVars
<1>2. CASE ClearResponses
    BY <1>2 DEF TypeOK, ClearResponses, resultVars, nextVars, submitVars
<1>3. CASE CreateResponses
    BY <1>3, BoundsAssumption DEF TypeOK, CreateResponses, resultVars, nextVars, submitVars
<1>4. CASE Crash
    BY <1>4, NothingShown, BoundsAssumption DEF TypeOK, Crash, resultVars, responseVars
<1> QED
    BY <1>1, <1>2, <1>3, <1>4

(* Responses are deleted only to be replaced by another import's. *)
Replacing == present \/ import < MaxImports

TInv == TypeOK /\ SentRow /\ Replacing

LEMMA TypeInit == Init => TInv
    BY NothingShown, BoundsAssumption DEF Init, TInv, TypeOK, SentRow, Replacing

LEMMA TypeStep == TInv /\ [Next]_vars => TInv'
<1> SUFFICES ASSUME TInv, [Next]_vars PROVE TInv'
    OBVIOUS
<1> USE DEF TInv
<1>1. ASSUME NEW c \in Clients, BeginNext(c) \/ ListDone(c) \/ FindRow(c) PROVE TInv'
    <2>1. TypeOK'
        BY <1>1, NextTypes
    <2>2. SentRow' /\ Replacing'
        BY <1>1 DEF SentRow, Replacing, BeginNext, ListDone, FindRow, responseVars, submitVars
    <2> QED
        BY <2>1, <2>2
<1>2. ASSUME NEW c \in Clients, Submit(c) PROVE TInv'
    <2>1. TypeOK' /\ SentRow'
        BY <1>2, SubmitTypes
    <2>2. Replacing'
        BY <1>2 DEF Replacing, Submit, BeginSubmit, CheckExisting, CreateComparison,
                    CreateRanking, CreateEntries, responseVars
    <2> QED
        BY <2>1, <2>2
<1>3. ASSUME SetActive \/ ClearResponses \/ CreateResponses \/ Crash PROVE TInv'
    <2>1. TypeOK'
        BY <1>3, SystemTypes DEF Replacing
    <2>2. SentRow'
        BY <1>3 DEF TypeOK, SentRow, SetActive, ClearResponses, CreateResponses, Crash, submitVars
    <2>3. Replacing'
        BY <1>3 DEF Replacing, SetActive, ClearResponses, CreateResponses, Crash, responseVars
    <2> QED
        BY <2>1, <2>2, <2>3
<1>4. CASE UNCHANGED vars
    BY <1>4 DEF vars, TypeOK, SentRow, Replacing
<1> QED
    BY <1>1, <1>2, <1>3, <1>4 DEF Next

LEMMA TypeInvariance == Spec => []TInv
    BY TypeInit, TypeStep, PTL DEF Spec

(* All variables keep their types, for any pages, rows and bounds. *)
THEOREM TypeCorrect == Spec => []TypeOK
<1>1. TInv => TypeOK
    BY DEF TInv
<1> QED
    BY <1>1, TypeInvariance, PTL

-----------------------------------------------------------------------------
(* One result for each row, where an evaluator has one page of the task.   *)

(* Where a submit stands, its row has no result yet, or one without entries. *)
Fresh(c) ==
    /\ spc[c] = "create" => result[Owner[c]][sent[c].row] = 0
    /\ spc[c] = "entries" => /\ kind = "RANKING"
                             /\ result[Owner[c]][sent[c].row] = 1
                             /\ linked[Owner[c]][sent[c].row] = 0

(* Results refer to responses at most once, and only results do. *)
Linked == \A e \in Evaluators, r \in Rows : linked[e][r] <= result[e][r]

OInv == TInv /\ OneResultEach /\ Linked /\ \A c \in Clients : Fresh(c)

LEMMA OneInit == Init => OInv
    BY TypeInit, OwnerAssumption DEF Init, OInv, OneResultEach, Linked, Fresh

(* A step of one page's submit leaves the rows of another page's owner alone. *)
LEMMA OthersFresh ==
    ASSUME SequentialClients, OInv, NEW c \in Clients, Submit(c),
           NEW d \in Clients, d # c
    PROVE  Fresh(d)'
<1>1. Owner[c] \in Evaluators /\ Owner[d] \in Evaluators /\ Owner[d] # Owner[c]
    BY OwnerAssumption DEF SequentialClients
<1>2. spc'[d] = spc[d] /\ sent'[d] = sent[d] /\ kind' = kind
    BY DEF OInv, TInv, TypeOK, Submit, BeginSubmit, CheckExisting, CreateComparison,
           CreateRanking, CreateEntries, EndSubmit
<1>3. result'[Owner[d]] = result[Owner[d]] /\ linked'[Owner[d]] = linked[Owner[d]]
    BY <1>1 DEF OInv, TInv, TypeOK, Submit, BeginSubmit, CheckExisting, CreateComparison,
                CreateRanking, CreateEntries, Add, resultVars
<1> QED
    BY <1>2, <1>3 DEF OInv, Fresh

LEMMA AddAt ==
    ASSUME NEW table \in [Evaluators -> [Rows -> Nat]], NEW e \in Evaluators, NEW r \in Rows
    PROVE  \A f \in Evaluators, q \in Rows :
               Add(table, e, r)[f][q] = IF f = e /\ q = r THEN table[f][q] + 1 ELSE table[f][q]
    BY DEF Add

LEMMA SubmitOnce ==
    ASSUME OInv, NEW c \in Clients, Submit(c)
    PROVE  OneResultEach' /\ Linked' /\ Fresh(c)'
<1> DEFINE e == Owner[c]
           r == sent[c].row
<1>0. TypeOK /\ e \in Evaluators /\ (spc[c] # "idle" => r \in Rows)
    BY OwnerAssumption DEF OInv, TInv, SentRow
<1>1. CASE BeginSubmit(c)
    BY <1>1, <1>0 DEF TypeOK, OInv, OneResultEach, Linked, Fresh, BeginSubmit, resultVars
<1>2. CASE CheckExisting(c)
    BY <1>2, <1>0 DEF TypeOK, OInv, OneResultEach, Linked, Fresh, CheckExisting, EndSubmit,
                      resultVars
<1>3. CASE CreateComparison(c)
    <2>1. r \in Rows /\ result[e][r] = 0 /\ spc'[c] = "idle"
        BY <1>3, <1>0 DEF TypeOK, OInv, Fresh, CreateComparison, EndSubmit
    <2>2. CASE result' = Add(result, e, r) /\ linked' = Add(linked, e, r)
        <3>1. linked[e][r] = 0
            BY <1>0, <2>1 DEF OInv, Linked, TypeOK
        <3>2. \A f \in Evaluators, q \in Rows :
                /\ result'[f][q] = IF f = e /\ q = r THEN 1 ELSE result[f][q]
                /\ linked'[f][q] = IF f = e /\ q = r THEN 1 ELSE linked[f][q]
            <4>1. /\ result \in [Evaluators -> [Rows -> Nat]]
                  /\ linked \in [Evaluators -> [Rows -> Nat]]
                BY <1>0 DEF TypeOK
            <4>2. \A f \in Evaluators, q \in Rows :
                    result'[f][q] = IF f = e /\ q = r THEN result[f][q] + 1 ELSE result[f][q]
                BY <4>1, <1>0, <2>1, <2>2, AddAt
            <4>3. \A f \in Evaluators, q \in Rows :
                    linked'[f][q] = IF f = e /\ q = r THEN linked[f][q] + 1 ELSE linked[f][q]
                BY <4>1, <1>0, <2>1, <2>2, AddAt
            <4> QED
                BY <4>2, <4>3, <2>1, <3>1
        <3> QED
            BY <2>1, <3>2 DEF OInv, OneResultEach, Linked, Fresh
    <2>3. CASE UNCHANGED resultVars
        BY <2>1, <2>3 DEF OInv, OneResultEach, Linked, Fresh, resultVars
    <2> QED
        BY <1>3, <2>2, <2>3 DEF CreateComparison
<1>4. CASE CreateRanking(c)
    <2>1. r \in Rows /\ result[e][r] = 0 /\ linked[e][r] = 0
        BY <1>4, <1>0 DEF TypeOK, OInv, Linked, Fresh, CreateRanking
    <2>2. \A f \in Evaluators, q \in Rows :
            result'[f][q] = IF f = e /\ q = r THEN 1 ELSE result[f][q]
        <3>1. result \in [Evaluators -> [Rows -> Nat]] /\ result' = Add(result, e, r)
            BY <1>0, <1>4 DEF TypeOK, CreateRanking
        <3>2. \A f \in Evaluators, q \in Rows :
                result'[f][q] = IF f = e /\ q = r THEN result[f][q] + 1 ELSE result[f][q]
            BY <3>1, <1>0, <2>1, AddAt
        <3> QED
            BY <3>2, <2>1
    <2>3. Fresh(c)'
        BY <1>4, <1>0, <2>1, <2>2 DEF TypeOK, Fresh, CreateRanking
    <2>4. OneResultEach' /\ Linked'
        BY <1>4, <2>1, <2>2 DEF OInv, OneResultEach, Linked, CreateRanking
    <2> QED
        BY <2>3, <2>4
<1>5. CASE CreateEntries(c)
    <2>1. r \in Rows /\ result[e][r] = 1 /\ linked[e][r] = 0 /\ spc'[c] = "idle"
        BY <1>5, <1>0 DEF TypeOK, OInv, Fresh, CreateEntries, EndSubmit
    <2>2. CASE linked' = Add(linked, e, r)
        <3>1. linked \in [Evaluators -> [Rows -> Nat]]
            BY <1>0 DEF TypeOK
        <3>2. \A f \in Evaluators, q \in Rows :
                linked'[f][q] = IF f = e /\ q = r THEN linked[f][q] + 1 ELSE linked[f][q]
            BY <3>1, <1>0, <2>1, <2>2, AddAt
        <3> QED
            BY <1>5, <2>1, <3>2 DEF OInv, OneResultEach, Linked, Fresh, CreateEntries
    <2>3. CASE UNCHANGED linked
        BY <1>5, <2>1, <2>3 DEF OInv, OneResultEach, Linked, Fresh, CreateEntries
    <2> QED
        BY <1>5, <2>2, <2>3 DEF CreateEntries
<1> QED
    BY <1>1, <1>2, <1>3, <1>4, <1>5 DEF Submit

LEMMA OneStep ==
    ASSUME SequentialClients, OInv, [Next]_vars
    PROVE  OInv'
<1>1. TInv'
    BY TypeStep DEF OInv
<1>2. ASSUME NEW c \in Clients, Submit(c) PROVE OInv'
    BY <1>1, <1>2, SubmitOnce, OthersFresh DEF OInv
<1>3. ASSUME NEW c \in Clients, BeginNext(c) \/ ListDone(c) \/ FindRow(c) PROVE OInv'
    BY <1>1, <1>3 DEF OInv, OneResultEach, Linked, Fresh, BeginNext, ListDone, FindRow,
                      resultVars, submitVars
<1>4. ASSUME SetActive \/ ClearResponses \/ CreateResponses PROVE OInv'
    BY <1>1, <1>4 DEF OInv, OneResultEach, Linked, Fresh, SetActive, ClearResponses,
                      CreateResponses, resultVars, submitVars
<1>5. CASE Crash
    BY <1>1, <1>5 DEF OInv, OneResultEach, Linked, Fresh, Crash, resultVars
<1>6. CASE UNCHANGED vars
    BY <1>1, <1>6 DEF OInv, OneResultEach, Linked, Fresh, vars
<1> QED
    BY <1>2, <1>3, <1>4, <1>5, <1>6 DEF Next

LEMMA OneInvariance == SequentialClients => (Spec => []OInv)
<1> SUFFICES ASSUME SequentialClients PROVE Spec => []OInv
    OBVIOUS
<1>1. OInv /\ [Next]_vars => OInv'
    BY OneStep
<1> QED
    BY OneInit, <1>1, PTL DEF Spec

(* An evaluator with one page of the task has one result for a row at most, *)
(* whatever imports, pauses and restarts happen between the check for an    *)
(* existing one and the insertion.                                          *)
THEOREM OneResult == SequentialClients => (Spec => []OneResultEach)
<1> SUFFICES ASSUME SequentialClients PROVE Spec => []OneResultEach
    OBVIOUS
<1>1. OInv => OneResultEach
    BY DEF OInv
<1> QED
    BY <1>1, OneInvariance, PTL

-----------------------------------------------------------------------------
(* The task implements the result book.                                    *)

LEMMA BookInit == Init => Book!BInit
    BY DEF Init, Book!BInit, Book!Blank

(* Adding one to an empty entry enters it. *)
LEMMA AddEnters ==
    ASSUME NEW table \in [Evaluators -> [Rows -> Nat]], NEW e \in Evaluators, NEW r \in Rows,
           table[e][r] = 0
    PROVE  Add(table, e, r) = Book!Entered(table, e, r)
    BY DEF Add, Book!Entered

(* Where an entry is one, entering it changes nothing. *)
LEMMA EnteredStays ==
    ASSUME NEW table \in [Evaluators -> [Rows -> Nat]], NEW e \in Evaluators, NEW r \in Rows,
           table[e][r] = 1
    PROVE  Book!Entered(table, e, r) = table
    BY DEF Book!Entered

LEMMA SubmitBooks ==
    ASSUME OInv, NEW c \in Clients, Submit(c)
    PROVE  [Book!BNext]_(Book!bookVars)
<1> DEFINE e == Owner[c]
           r == sent[c].row
<1>0. /\ e \in Evaluators
      /\ spc[c] # "idle" => r \in Rows
      /\ result \in [Evaluators -> [Rows -> Nat]]
      /\ linked \in [Evaluators -> [Rows -> Nat]]
    BY OwnerAssumption DEF OInv, TInv, TypeOK, SentRow
<1>1. CASE BeginSubmit(c) \/ CheckExisting(c)
    BY <1>1 DEF BeginSubmit, CheckExisting, resultVars, responseVars, Book!bookVars
<1>2. CASE CreateComparison(c)
    <2>1. r \in Rows /\ result[e][r] = 0
        BY <1>2, <1>0 DEF OInv, Fresh, CreateComparison
    <2>2. linked[e][r] = 0
        BY <1>0, <2>1 DEF OInv, Linked
    <2>3. CASE Refers(c) /\ result' = Add(result, e, r) /\ linked' = Add(linked, e, r)
        <3>1. Book!Refer(e, r)
            BY <1>0, <1>2, <2>1, <2>2, <2>3, AddEnters
               DEF Book!Refer, Refers, CreateComparison, responseVars
        <3> QED
            BY <1>0, <2>1, <3>1 DEF Book!BNext
    <2>4. CASE UNCHANGED resultVars
        BY <1>2, <2>4 DEF CreateComparison, resultVars, responseVars, Book!bookVars
    <2> QED
        BY <1>2, <2>3, <2>4 DEF CreateComparison
<1>3. CASE CreateRanking(c)
    <2>1. r \in Rows /\ result[e][r] = 0
        BY <1>3, <1>0 DEF OInv, Fresh, CreateRanking
    <2>2. Book!Enter(e, r)
        BY <1>0, <1>3, <2>1, AddEnters DEF Book!Enter, CreateRanking, responseVars
    <2> QED
        BY <1>0, <2>1, <2>2 DEF Book!BNext
<1>4. CASE CreateEntries(c)
    <2>1. r \in Rows /\ result[e][r] = 1 /\ linked[e][r] = 0
        BY <1>4, <1>0 DEF OInv, Fresh, CreateEntries
    <2>2. CASE Refers(c) /\ linked' = Add(linked, e, r)
        <3>1. Book!Refer(e, r)
            BY <1>0, <1>4, <2>1, <2>2, AddEnters, EnteredStays
               DEF Book!Refer, Refers, CreateEntries, responseVars
        <3> QED
            BY <1>0, <2>1, <3>1 DEF Book!BNext
    <2>3. CASE UNCHANGED linked
        BY <1>4, <2>3 DEF CreateEntries, responseVars, Book!bookVars
    <2> QED
        BY <1>4, <2>2, <2>3 DEF CreateEntries
<1> QED
    BY <1>1, <1>2, <1>3, <1>4 DEF Submit

LEMMA BookStep ==
    ASSUME OInv, [Next]_vars
    PROVE  [Book!BNext]_(Book!bookVars)
<1>1. ASSUME NEW c \in Clients, BeginNext(c) \/ ListDone(c) \/ FindRow(c)
      PROVE  UNCHANGED Book!bookVars
    BY <1>1 DEF BeginNext, ListDone, FindRow, resultVars, responseVars, Book!bookVars
<1>2. CASE SetActive \/ Crash
    BY <1>2 DEF SetActive, Crash, resultVars, responseVars, Book!bookVars
<1>3. CASE ClearResponses
    <2>1. \A e \in Evaluators, r \in Rows : linked[e][r] \in Nat
        BY DEF OInv, TInv, TypeOK
    <2>2. Book!Withdraw
        BY <1>3, <2>1 DEF ClearResponses, Referenced, Book!Withdraw, resultVars
    <2> QED
        BY <2>2 DEF Book!BNext
<1>4. CASE CreateResponses
    BY <1>4 DEF CreateResponses, Book!Replace, Book!BNext, resultVars
<1>5. CASE UNCHANGED vars
    BY <1>5 DEF vars, Book!bookVars
<1> QED
    BY <1>1, <1>2, <1>3, <1>4, <1>5, SubmitBooks DEF Next

(* Where an evaluator has one page, every step of a page, an import, an admin *)
(* or a restart enters a result, adds its references, replaces responses that *)
(* nothing refers to, or changes nothing the book holds.                      *)
THEOREM ImplementsBook == SequentialClients => (Spec => BookSpec)
<1> SUFFICES ASSUME SequentialClients PROVE Spec => BookSpec
    OBVIOUS
<1>1. Spec => []OInv
    BY OneInvariance
<1>2. OInv /\ [Next]_vars => [Book!BNext]_(Book!bookVars)
    BY BookStep
<1> QED
    BY <1>1, <1>2, BookInit, PTL DEF Spec, BookSpec, Book!BSpec

-----------------------------------------------------------------------------
(* Rankings have their entries, while nothing replaces the responses.      *)

(* Page c and its submit name responses that were imported before. *)
Current(c) ==
    /\ page[c].import <= import
    /\ spc[c] # "idle" => sent[c].import # 0 /\ sent[c].import <= import

WInv == OInv /\ RankingsWhole /\ \A c \in Clients : Current(c)

LEMMA ImportTypes ==
    ASSUME TypeOK, NEW c \in Clients
    PROVE  import \in Nat /\ page[c].import \in Nat /\ sent[c].import \in Nat
    BY BoundsAssumption DEF TypeOK, Shown

LEMMA WholeInit == Init => WInv
    BY OneInit DEF Init, WInv, RankingsWhole, Current, Nothing

LEMMA HeldCurrent ==
    ASSUME TypeOK, NEW c \in Clients, Current(c), NEW r \in Rows, NEW i \in Held(c, r)
    PROVE  i <= import
    BY ImportTypes DEF Held, Current

LEMMA CurrentStep ==
    ASSUME TypeOK, [Next]_vars, NEW c \in Clients, Current(c)
    PROVE  Current(c)'
<1>0. import \in Nat /\ page[c].import \in Nat /\ sent[c].import \in Nat
    BY ImportTypes
<1>1. ASSUME NEW d \in Clients, BeginNext(d) \/ ListDone(d) PROVE Current(c)'
    BY <1>1 DEF Current, BeginNext, ListDone, responseVars, submitVars
<1>2. ASSUME NEW d \in Clients, FindRow(d) PROVE Current(c)'
    <2>1. page'[c].import <= import
        BY <1>0, <1>2, HeldCurrent DEF TypeOK, Current, FindRow, Nothing
    <2> QED
        BY <1>2, <2>1 DEF Current, FindRow, responseVars, submitVars
<1>3. ASSUME NEW d \in Clients, BeginSubmit(d) PROVE Current(c)'
    BY <1>0, <1>3 DEF TypeOK, Current, BeginSubmit, responseVars, nextVars
<1>4. ASSUME NEW d \in Clients,
             CheckExisting(d) \/ CreateComparison(d) \/ CreateRanking(d) \/ CreateEntries(d)
      PROVE  Current(c)'
    BY <1>4 DEF TypeOK, Current, CheckExisting, CreateComparison, CreateRanking, CreateEntries,
                EndSubmit, responseVars, nextVars
<1>5. ASSUME SetActive \/ ClearResponses PROVE Current(c)'
    BY <1>5 DEF Current, SetActive, ClearResponses, responseVars, nextVars, submitVars
<1>6. CASE CreateResponses
    BY <1>0, <1>6 DEF Current, CreateResponses, nextVars, submitVars
<1>7. CASE Crash
    BY <1>7 DEF Current, Crash, responseVars
<1>8. CASE UNCHANGED vars
    BY <1>8 DEF Current, vars
<1> QED
    BY <1>1, <1>2, <1>3, <1>4, <1>5, <1>6, <1>7, <1>8 DEF Next, Submit

(* No step makes up for an import or a restart. *)
LEMMA Disturbed == ASSUME TypeOK, [Next]_vars, Undisturbed' PROVE Undisturbed
<1>1. import \in Nat /\ import >= 1 /\ crashes \in Nat
    BY BoundsAssumption DEF TypeOK
<1>2. ASSUME NEW c \in Clients, BeginNext(c) \/ ListDone(c) \/ FindRow(c) \/ Submit(c)
      PROVE  Undisturbed
    BY <1>2 DEF Undisturbed, BeginNext, ListDone, FindRow, Submit, BeginSubmit, CheckExisting,
                CreateComparison, CreateRanking, CreateEntries, responseVars
<1>3. CASE SetActive
    BY <1>3 DEF Undisturbed, SetActive, responseVars
<1>4. ~ClearResponses
    BY DEF Undisturbed, ClearResponses
<1>5. ~CreateResponses
    BY <1>1 DEF Undisturbed, CreateResponses
<1>6. ~Crash
    BY <1>1 DEF Undisturbed, Crash
<1>7. CASE UNCHANGED vars
    BY <1>7 DEF Undisturbed, vars
<1> QED
    BY <1>2, <1>3, <1>4, <1>5, <1>6, <1>7 DEF Next

(* The entries of ranking (e, r) are there, or a submit will insert them. *)
Whole(e, r) ==
    \/ linked[e][r] = result[e][r]
    \/ \E c \in Clients : Owner[c] = e /\ spc[c] = "entries" /\ sent[c].row = r

LEMMA SubmitWhole ==
    ASSUME WInv, Undisturbed, NEW c \in Clients, Submit(c),
           NEW e \in Evaluators, NEW r \in Rows, Whole(e, r)
    PROVE  Whole(e, r)'
<1>0. TypeOK /\ Owner[c] \in Evaluators /\ (spc[c] # "idle" => sent[c].row \in Rows)
    BY OwnerAssumption DEF WInv, OInv, TInv, SentRow
<1>1. CASE BeginSubmit(c)
    BY <1>0, <1>1 DEF TypeOK, Whole, BeginSubmit, resultVars
<1>2. CASE CheckExisting(c)
    BY <1>0, <1>2 DEF TypeOK, Whole, CheckExisting, EndSubmit, resultVars
<1>3. CASE CreateComparison(c)
    <2>1. sent[c].row \in Rows /\ spc[c] = "create"
        BY <1>0, <1>3 DEF CreateComparison
    <2>2. \A d \in Clients : spc[d] = "entries" => spc'[d] = spc[d] /\ sent'[d] = sent[d]
        BY <1>0, <1>3, <2>1 DEF TypeOK, CreateComparison, EndSubmit
    <2>3. linked[e][r] = result[e][r] => linked'[e][r] = result'[e][r]
        <3> DEFINE o == Owner[c]
                   q == sent[c].row
        <3>1. CASE result' = Add(result, o, q) /\ linked' = Add(linked, o, q)
            <4>1. /\ result \in [Evaluators -> [Rows -> Nat]]
                  /\ linked \in [Evaluators -> [Rows -> Nat]]
                BY <1>0 DEF TypeOK
            <4>2. linked[e][r] = result[e][r] =>
                      Add(linked, o, q)[e][r] = Add(result, o, q)[e][r]
                BY <4>1, <1>0, <2>1 DEF Add
            <4> QED
                BY <3>1, <4>2
        <3>2. CASE UNCHANGED resultVars
            BY <3>2 DEF resultVars
        <3> QED
            BY <1>3, <3>1, <3>2 DEF CreateComparison
    <2> QED
        BY <2>2, <2>3 DEF Whole
<1>4. CASE CreateRanking(c)
    <2>1. spc'[c] = "entries" /\ sent' = sent /\ linked' = linked
        BY <1>0, <1>4 DEF TypeOK, CreateRanking
    <2>2. \A d \in Clients : spc[d] = "entries" => spc'[d] = "entries"
        BY <1>0, <1>4 DEF TypeOK, CreateRanking
    <2>3. CASE e = Owner[c] /\ r = sent[c].row
        BY <2>1, <2>3 DEF Whole
    <2>4. CASE ~(e = Owner[c] /\ r = sent[c].row)
        <3>1. result'[e][r] = result[e][r]
            BY <1>0, <1>4, <2>4 DEF TypeOK, CreateRanking, Add
        <3> QED
            BY <2>1, <2>2, <3>1 DEF Whole
    <2> QED
        BY <2>3, <2>4
<1>5. CASE CreateEntries(c)
    <2>1. /\ spc[c] = "entries" /\ sent[c].row \in Rows
          /\ result' = result
        BY <1>0, <1>5 DEF CreateEntries
    <2>2. Refers(c)
        BY <1>0, <2>1, ImportTypes DEF Undisturbed, Refers, WInv, Current
    <2>3. linked' = Add(linked, Owner[c], sent[c].row)
        BY <1>5, <2>2 DEF CreateEntries
    <2>4. CASE e = Owner[c] /\ r = sent[c].row
        <3>1. result[e][r] = 1 /\ linked[e][r] = 0
            BY <2>1, <2>4 DEF WInv, OInv, Fresh
        <3>2. linked'[e][r] = linked[e][r] + 1
            BY <1>0, <2>1, <2>3, <2>4 DEF TypeOK, Add
        <3> QED
            BY <2>1, <3>1, <3>2 DEF Whole
    <2>5. CASE ~(e = Owner[c] /\ r = sent[c].row)
        <3>1. linked'[e][r] = linked[e][r]
            BY <1>0, <2>1, <2>3, <2>5 DEF TypeOK, Add
        <3>2. \A d \in Clients : d # c => spc'[d] = spc[d] /\ sent'[d] = sent[d]
            BY <1>0, <1>5 DEF TypeOK, CreateEntries, EndSubmit
        <3> QED
            BY <2>1, <2>5, <3>1, <3>2 DEF Whole
    <2> QED
        BY <2>4, <2>5
<1> QED
    BY <1>1, <1>2, <1>3, <1>4, <1>5 DEF Submit

LEMMA WholeStep ==
    ASSUME SequentialClients, WInv, [Next]_vars
    PROVE  WInv'
<1>1. OInv' /\ \A c \in Clients : Current(c)'
    BY OneStep, CurrentStep DEF WInv, OInv, TInv
<1>2. ASSUME Undisturbed', NEW e \in Evaluators, NEW r \in Rows PROVE Whole(e, r)'
    <2>1. Undisturbed /\ Whole(e, r)
        BY <1>2, Disturbed DEF WInv, OInv, TInv, RankingsWhole, Whole
    <2>2. ASSUME NEW c \in Clients, Submit(c) PROVE Whole(e, r)'
        BY <2>1, <2>2, SubmitWhole
    <2>3. ASSUME NEW c \in Clients, BeginNext(c) \/ ListDone(c) \/ FindRow(c)
          PROVE  Whole(e, r)'
        BY <2>1, <2>3 DEF Whole, BeginNext, ListDone, FindRow, resultVars, submitVars
    <2>4. ASSUME SetActive \/ ClearResponses \/ CreateResponses PROVE Whole(e, r)'
        BY <2>1, <2>4 DEF Whole, SetActive, ClearResponses, CreateResponses, resultVars,
                          submitVars
    <2>5. ~Crash
        BY <1>2, BoundsAssumption DEF WInv, OInv, TInv, TypeOK, Crash, Undisturbed
    <2>6. CASE UNCHANGED vars
        BY <2>1, <2>6 DEF Whole, vars
    <2> QED
        BY <2>2, <2>3, <2>4, <2>5, <2>6 DEF Next
<1> QED
    BY <1>1, <1>2 DEF WInv, RankingsWhole, Whole

(* Until an import replaces the responses or the API restarts, every ranking *)
(* has its entries, or the submit that inserted it is about to insert them,  *)
(* where an evaluator has one page of the task.                              *)
THEOREM WholeRankings == SequentialClients => (Spec => []RankingsWhole)
<1> SUFFICES ASSUME SequentialClients PROVE Spec => []RankingsWhole
    OBVIOUS
<1>1. WInv /\ [Next]_vars => WInv'
    BY WholeStep
<1>2. WInv => RankingsWhole
    BY DEF WInv
<1> QED
    BY WholeInit, <1>1, <1>2, PTL DEF Spec

-----------------------------------------------------------------------------
(* A page ends only when its evaluator has done every row.                 *)

LEMMA ResultsGrow ==
    ASSUME TInv, [Next]_vars, NEW e \in Evaluators
    PROVE  HasResult(e) \subseteq HasResult(e)'
<1>1. result \in [Evaluators -> [Rows -> Nat]]
    BY DEF TInv, TypeOK
<1>2. ASSUME NEW c \in Clients, sent[c].row \in Rows,
             result' = Add(result, Owner[c], sent[c].row)
      PROVE  HasResult(e) \subseteq HasResult(e)'
    <2>1. Owner[c] \in Evaluators
        BY OwnerAssumption
    <2> DEFINE o == Owner[c]
               q == sent[c].row
    <2>2. \A r \in Rows : Add(result, o, q)[e][r] >= result[e][r]
        <3>1. \A r \in Rows : Add(result, o, q)[e][r] =
                  IF e = o /\ r = q THEN result[e][r] + 1 ELSE result[e][r]
            BY <1>1, <1>2, <2>1, AddAt
        <3>2. \A r \in Rows : result[e][r] \in Nat
            BY <1>1
        <3> HIDE DEF o, q
        <3> QED
            BY <3>1, <3>2
    <2>3. Add(result, o, q) \in [Evaluators -> [Rows -> Nat]]
        BY <1>1, <1>2, <2>1, AddTypes
    <2> HIDE DEF o, q
    <2>4. \A r \in Rows : result[e][r] \in Nat /\ Add(result, o, q)[e][r] \in Nat
        BY <1>1, <2>3
    <2>5. \A r \in Rows : result[e][r] > 0 => Add(result, o, q)[e][r] > 0
        BY <2>2, <2>4
    <2>6. result' = Add(result, o, q)
        BY <1>2 DEF o, q
    <2> QED
        BY <2>5, <2>6 DEF HasResult
<1>3. CASE result' = result
    BY <1>3 DEF HasResult
<1>4. ASSUME NEW c \in Clients, Submit(c) PROVE HasResult(e) \subseteq HasResult(e)'
    <2>1. spc[c] # "idle" => sent[c].row \in Rows
        BY DEF TInv, SentRow
    <2>2. CASE CreateComparison(c) \/ CreateRanking(c)
        <3>1. sent[c].row \in Rows
            BY <2>1, <2>2 DEF CreateComparison, CreateRanking
        <3>2. result' = Add(result, Owner[c], sent[c].row) \/ result' = result
            BY <2>2 DEF CreateComparison, CreateRanking, resultVars
        <3> QED
            BY <1>2, <1>3, <3>1, <3>2
    <2>3. CASE BeginSubmit(c) \/ CheckExisting(c) \/ CreateEntries(c)
        BY <1>3, <2>3 DEF BeginSubmit, CheckExisting, CreateEntries, resultVars
    <2> QED
        BY <1>4, <2>2, <2>3 DEF Submit
<1>5. ASSUME NEW c \in Clients, BeginNext(c) \/ ListDone(c) \/ FindRow(c) PROVE result' = result
    BY <1>5 DEF BeginNext, ListDone, FindRow, resultVars
<1>6. ASSUME SetActive \/ ClearResponses \/ CreateResponses \/ Crash PROVE result' = result
    BY <1>6 DEF SetActive, ClearResponses, CreateResponses, Crash, resultVars
<1>7. CASE UNCHANGED vars
    BY <1>3, <1>7 DEF vars
<1> QED
    BY <1>3, <1>4, <1>5, <1>6, <1>7 DEF Next

(* The list that a request works with holds rows the evaluator has done. *)
SeenDone(c) == seen[c] \subseteq HasResult(Owner[c])

(* Page c ends only after every row, while every row has its responses. *)
EndsRightly(c) ==
    Undisturbed /\ (\A r \in Rows : Responses[r] >= Needed) =>
        (done[c] => HasResult(Owner[c]) = Rows)

QInv == TInv /\ \A c \in Clients : SeenDone(c) /\ EndsRightly(c)

LEMMA QueueInit == Init => QInv
    BY TypeInit DEF Init, QInv, SeenDone, EndsRightly

LEMMA SeenStep ==
    ASSUME TInv, [Next]_vars, NEW c \in Clients, SeenDone(c)
    PROVE  SeenDone(c)'
<1>1. HasResult(Owner[c]) \subseteq HasResult(Owner[c])'
    BY ResultsGrow, OwnerAssumption
<1>2. ASSUME NEW d \in Clients, BeginNext(d) \/ Submit(d) PROVE seen' = seen
    BY <1>2 DEF BeginNext, Submit, BeginSubmit, CheckExisting, CreateComparison, CreateRanking,
                CreateEntries, nextVars
<1>3. ASSUME NEW d \in Clients, ListDone(d) \/ FindRow(d) PROVE SeenDone(c)'
    <2>1. seen'[c] \in {seen[c], {}, HasResult(Owner[c])}
        BY <1>3 DEF TInv, TypeOK, ListDone, FindRow
    <2> QED
        BY <1>1, <2>1 DEF SeenDone
<1>4. ASSUME SetActive \/ ClearResponses \/ CreateResponses PROVE seen' = seen
    BY <1>4 DEF SetActive, ClearResponses, CreateResponses, nextVars
<1>5. CASE Crash
    BY <1>5 DEF Crash, SeenDone
<1>6. CASE UNCHANGED vars
    BY <1>6 DEF vars, SeenDone, HasResult
<1>7. CASE seen' = seen
    BY <1>1, <1>7 DEF SeenDone
<1> QED
    BY <1>2, <1>3, <1>4, <1>5, <1>6, <1>7 DEF Next

LEMMA EndStep ==
    ASSUME TInv, [Next]_vars, NEW c \in Clients, SeenDone(c), EndsRightly(c)
    PROVE  EndsRightly(c)'
<1>1. HasResult(Owner[c]) \subseteq HasResult(Owner[c])' /\ HasResult(Owner[c])' \subseteq Rows
    BY ResultsGrow, OwnerAssumption DEF HasResult
<1>2. Undisturbed' => Undisturbed
    BY Disturbed DEF TInv
<1>3. kind' = kind
    BY DEF Next, BeginNext, ListDone, FindRow, Submit, BeginSubmit, CheckExisting,
           CreateComparison, CreateRanking, CreateEntries, SetActive, ClearResponses,
           CreateResponses, Crash, vars
<1>4. CASE done'[c] = done[c]
    BY <1>1, <1>2, <1>3, <1>4 DEF EndsRightly, Needed
<1>5. ASSUME FindRow(c), Undisturbed, \A r \in Rows : Responses[r] >= Needed, done'[c]
      PROVE  HasResult(Owner[c])' = Rows
    <2>1. Rows \ seen[c] = {}
        BY <1>5 DEF TInv, TypeOK, FindRow, Undisturbed
    <2> QED
        BY <1>1, <2>1 DEF SeenDone
<1>6. CASE FindRow(c)
    BY <1>2, <1>3, <1>5, <1>6 DEF EndsRightly, Needed
<1>7. ASSUME ~FindRow(c) PROVE done'[c] = done[c]
    BY <1>7 DEF TInv, TypeOK, Next, BeginNext, ListDone, FindRow, Submit, BeginSubmit,
                CheckExisting, CreateComparison, CreateRanking, CreateEntries, SetActive,
                ClearResponses, CreateResponses, Crash, vars, nextVars
<1> QED
    BY <1>4, <1>6, <1>7

LEMMA QueueStep == QInv /\ [Next]_vars => QInv'
    BY TypeStep, SeenStep, EndStep DEF QInv

(* Where every row has enough responses, and until they are replaced, a page *)
(* says that nothing is left only to an evaluator with a result for every    *)
(* row, however many pages are open.                                         *)
THEOREM CompleteQueue == Spec => []QueueComplete
<1>1. QInv => QueueComplete
    BY DEF QInv, EndsRightly, QueueComplete
<1> QED
    BY QueueInit, QueueStep, <1>1, PTL DEF Spec
=============================================================================
