--------------------------- MODULE DatasetRowsProofs ---------------------------
(***************************************************************************)
(* Proofs about DatasetRows, for files of any lengths, any batch size and  *)
(* any number of createPrompt and clone requests.  RowsContiguous is not   *)
(* inductive alone: it needs that everything below where an import has got *)
(* to, and below where a prompt is about to go, is there.  Given that, a   *)
(* row's place in the order of the pages is its index, which makes the     *)
(* offsets of a clone mean what the code takes them for.                   *)
(***************************************************************************)
EXTENDS DatasetRows, FiniteSetTheorems, TLAPS

(* What an import has passed over is there. *)
ImportBehind ==
    import # NoImport =>
        \A i \in Indexes : i < import.at /\ i < Lengths[import.file] => content[i] # Nothing

(* A prompt goes right after rows that are there. *)
PromptBehind ==
    \A p \in Prompters : prompt[p].pc = "insert" =>
        /\ prompt[p].seen + 1 \in Indexes
        /\ \A i \in Indexes : i <= prompt[p].seen => content[i] # Nothing

RowsInv == RTypeOK /\ RowsContiguous /\ ImportBehind /\ PromptBehind

(* A clone has what it was asked for up to its offset, and all of it once  *)
(* a page was empty; a page that waits to be written is as the rows are.   *)
CloneBehind ==
    \A c \in Cloners :
        /\ \A i \in due[c] : i \in Indexes /\ content[i] # Nothing
        /\ clone[c].pc \in {"read", "write"} =>
              \A i \in due[c] : i < clone[c].offset => copied[c][i] = content[i]
        /\ clone[c].pc = "write" =>
              /\ \A i \in Indexes : clone[c].page[i] \in {content[i], Nothing}
              /\ \A i \in due[c] : i >= clone[c].offset /\ i < clone[c].offset + BatchSize =>
                    clone[c].page[i] = content[i]
        /\ clone[c].pc \in {"ready", "done"} =>
              \A i \in due[c] : copied[c][i] = content[i]

-----------------------------------------------------------------------------
(* The rows.                                                               *)

LEMMA RowsInit == ASSUME RowsAssumption PROVE RInit => RowsInv
<1> SUFFICES ASSUME RInit PROVE RowsInv
  OBVIOUS
<1>1. RTypeOK
  BY DEF RInit, RTypeOK, NoRows, NoImport, NoClone, Sources
<1>2. RowsContiguous
  BY DEF RInit, NoRows, RowsContiguous, Present
<1>3. ImportBehind /\ PromptBehind
  BY DEF RInit, ImportBehind, PromptBehind
<1> QED
  BY <1>1, <1>2, <1>3 DEF RowsInv

(* No step but these changes what the invariant speaks of. *)
LEMMA RowsOther ==
  ASSUME RowsInv, RTypeOK', UNCHANGED content,
         import' = import \/ import' = NoImport \/ import'.at = 0,
         \A p \in Prompters : prompt'[p].pc = "insert" => prompt'[p] = prompt[p]
  PROVE  RowsInv'
<1>1. RowsContiguous'
  BY DEF RowsInv, RowsContiguous, Present
<1>2. ImportBehind'
  BY DEF RowsInv, ImportBehind, Indexes, NoImport
<1>3. PromptBehind'
  BY DEF RowsInv, PromptBehind
<1> QED
  BY <1>1, <1>2, <1>3 DEF RowsInv

LEMMA RowsStep ==
  ASSUME RowsAssumption, RowsInv, [RNext]_rowVars
  PROVE  RowsInv' /\ \A i \in Indexes : content[i] # Nothing => content'[i] = content[i]
<1> DEFINE Kept == \A i \in Indexes : content[i] # Nothing => content'[i] = content[i]
<1>1. RTypeOK /\ RowsContiguous /\ ImportBehind /\ PromptBehind
  BY DEF RowsInv
<1>2. CASE UNCHANGED rowVars
  <2>1. RTypeOK'
    BY <1>1, <1>2 DEF RTypeOK, rowVars, sourceVars
  <2> QED
    BY <2>1, <1>2, RowsOther DEF rowVars, sourceVars
<1>3. ASSUME InsertBatch PROVE RowsInv' /\ Kept
  <2>1. RTypeOK'
    <3>1. content' \in [Indexes -> Sources]
      BY <1>1, <1>3 DEF InsertBatch, RTypeOK, Sources
    <3>2. import' \in [file : Uploads \cup {0}, at : Nat]
      BY <1>1, <1>3 DEF InsertBatch, RTypeOK, RowsAssumption
    <3>3. import'.file \in Uploads
      BY <1>1, <1>3 DEF InsertBatch, RTypeOK
    <3> QED
      BY <1>1, <1>3, <3>1, <3>2, <3>3 DEF InsertBatch, RTypeOK, OthersOfImport
  <2> DEFINE len == Lengths[import.file]
  <2>2. import.at \in Nat /\ BatchSize \in Nat \ {0} /\ len \in Nat
    BY <1>1, <1>3 DEF InsertBatch, RTypeOK, RowsAssumption
  <2>3. \A i \in Indexes : content[i] # Nothing => content'[i] = content[i]
    BY <1>3 DEF InsertBatch
  <2>4. \A i \in Indexes :
          i >= import.at /\ i < import.at + BatchSize /\ i < len => content'[i] # Nothing
    BY <1>1, <1>3 DEF InsertBatch, RTypeOK, RowsAssumption
  <2>5. \A i \in Indexes : content[i] = Nothing /\ content'[i] # Nothing =>
          i >= import.at /\ i < import.at + BatchSize /\ i < len
    BY <1>3 DEF InsertBatch
  <2>6. \A i \in Indexes : i < import.at /\ i < len => content[i] # Nothing
    BY <1>1, <1>3 DEF InsertBatch, ImportBehind
  <2>7. RowsContiguous'
    <3> SUFFICES ASSUME NEW i \in Indexes, content'[i] # Nothing, NEW j \in Indexes, j < i
                 PROVE  content'[j] # Nothing
      BY DEF RowsContiguous, Present
    <3>1. CASE content[i] # Nothing
      BY <1>1, <2>3, <3>1 DEF RowsContiguous, Present
    <3>2. CASE content[i] = Nothing
      <4>1. j < import.at + BatchSize /\ j < len
        BY <2>2, <2>5, <3>2 DEF Indexes
      <4> QED
        BY <2>2, <2>3, <2>4, <2>6, <4>1 DEF Indexes
    <3> QED
      BY <3>1, <3>2
  <2>8. ImportBehind'
    <3>1. import'.file = import.file /\ import'.at = import.at + BatchSize
      BY <1>1, <1>3 DEF InsertBatch, RTypeOK
    <3> QED
      BY <2>2, <2>3, <2>4, <2>6, <3>1 DEF ImportBehind, Indexes
  <2>9. PromptBehind'
    BY <1>1, <1>3, <2>3 DEF InsertBatch, OthersOfImport, PromptBehind
  <2> QED
    BY <2>1, <2>3, <2>7, <2>8, <2>9 DEF RowsInv
<1>4. ASSUME NEW f \in Uploads, Queue(f) \/ TakeImport(f) PROVE RowsInv' /\ Kept
  <2>1. RTypeOK' /\ UNCHANGED content
    BY <1>1, <1>4 DEF Queue, TakeImport, OthersOfImport, RTypeOK
  <2>2. import' = import \/ import'.at = 0
    BY <1>4 DEF Queue, TakeImport
  <2>3. prompt' = prompt
    BY <1>4 DEF Queue, TakeImport, OthersOfImport
  <2> QED
    BY <2>1, <2>2, <2>3, RowsOther
<1>5. ASSUME FinishImport \/ FailImport PROVE RowsInv' /\ Kept
  <2>1. NoImport \in [file : Uploads \cup {0}, at : Nat]
    BY DEF NoImport
  <2>2. RTypeOK' /\ UNCHANGED content /\ import' = NoImport
    BY <1>1, <1>5, <2>1 DEF FinishImport, FailImport, OthersOfImport, RTypeOK, RowsAssumption
  <2>3. prompt' = prompt
    BY <1>5 DEF FinishImport, FailImport, OthersOfImport
  <2> QED
    BY <2>2, <2>3, RowsOther
<1>6. ASSUME NEW p \in Prompters, FindLast(p) PROVE RowsInv' /\ Kept
  <2>1. PICK n \in -1..(MaxIndexes - 2) :
          /\ IsLast(n)
          /\ prompt' = [prompt EXCEPT ![p] = [pc |-> "insert", seen |-> n]]
    BY <1>6 DEF FindLast
  <2>2. UNCHANGED <<content, stated>> /\ OthersOfPrompt
    BY <1>6 DEF FindLast
  <2>3. n \in Indexes \cup {-1} /\ n + 1 \in Indexes
    BY DEF Indexes, RowsAssumption
  <2>4. RTypeOK'
    BY <1>1, <2>1, <2>2, <2>3 DEF OthersOfPrompt, RTypeOK
  <2>5. \A i \in Indexes : i <= n => content[i] # Nothing
    BY <1>1, <2>1 DEF IsLast, Present, RowsContiguous, Indexes, RowsAssumption
  <2>6. RowsContiguous' /\ ImportBehind'
    BY <1>1, <2>2 DEF OthersOfPrompt, RowsContiguous, Present, ImportBehind
  <2>7. PromptBehind'
    BY <1>1, <2>1, <2>2, <2>3, <2>5 DEF PromptBehind, RTypeOK
  <2> QED
    BY <2>2, <2>4, <2>6, <2>7 DEF RowsInv
<1>7. ASSUME NEW p \in Prompters, InsertPrompt(p) PROVE RowsInv' /\ Kept
  <2> DEFINE i == prompt[p].seen + 1
  <2>1. i \in Indexes /\ \A j \in Indexes : j < i => content[j] # Nothing
    BY <1>1, <1>7 DEF InsertPrompt, PromptBehind, RTypeOK, Indexes
  <2>2. /\ UNCHANGED stated /\ OthersOfPrompt
        /\ \/ content' = content
           \/ content[i] = Nothing /\ content' = [content EXCEPT ![i] = p]
        /\ \E pc \in {"count", "done"} : prompt' = [prompt EXCEPT ![p] = [pc |-> pc, seen |-> -1]]
    BY <1>7 DEF InsertPrompt, PromptGoes
  <2>3. p \in Sources /\ p # Nothing
    BY DEF Sources, RowsAssumption
  <2>4. RTypeOK'
    BY <1>1, <2>1, <2>2, <2>3 DEF OthersOfPrompt, RTypeOK
  <2>5. Kept
    BY <1>1, <2>1, <2>2 DEF RTypeOK
  <2>6. RowsContiguous'
    <3> SUFFICES ASSUME NEW k \in Indexes, content'[k] # Nothing, NEW j \in Indexes, j < k
                 PROVE  content'[j] # Nothing
      BY DEF RowsContiguous, Present
    <3>1. CASE content[k] # Nothing
      BY <1>1, <2>5, <3>1 DEF RowsContiguous, Present
    <3>2. CASE content[k] = Nothing
      <4>1. k = i
        BY <1>1, <2>1, <2>2, <3>2 DEF RTypeOK
      <4> QED
        BY <2>1, <2>5, <4>1
    <3> QED
      BY <3>1, <3>2
  <2>7. ImportBehind'
    BY <1>1, <2>2, <2>5 DEF OthersOfPrompt, ImportBehind
  <2>8. PromptBehind'
    BY <1>1, <2>2, <2>5 DEF PromptBehind, RTypeOK
  <2> QED
    BY <2>4, <2>5, <2>6, <2>7, <2>8 DEF RowsInv
<1>8. ASSUME NEW p \in Prompters, CountPrompt(p) PROVE RowsInv' /\ Kept
  <2>1. /\ UNCHANGED content /\ OthersOfPrompt /\ stated' = stated + 1
        /\ prompt' = [prompt EXCEPT ![p] = [pc |-> "done", seen |-> -1]]
    BY <1>8 DEF CountPrompt, PromptGoes
  <2>2. RTypeOK'
    BY <1>1, <2>1 DEF OthersOfPrompt, RTypeOK
  <2>3. \A q \in Prompters : prompt'[q].pc = "insert" => prompt'[q] = prompt[q]
    BY <1>1, <2>1 DEF RTypeOK
  <2> QED
    BY <2>1, <2>2, <2>3, RowsOther DEF OthersOfPrompt
<1>9. ASSUME NEW c \in Cloners,
             BeginClone(c) \/ ReadPage(c) \/ WritePage(c) \/ FinishClone(c) \/ TearClone(c)
      PROVE  RowsInv' /\ Kept
  <2>1. UNCHANGED <<content, stated, phase, latest, pending, import, prompt>>
    BY <1>9 DEF BeginClone, ReadPage, WritePage, FinishClone, TearClone, sourceVars
  <2>2. \A S : [i \in Indexes |-> IF i \in S THEN content[i] ELSE Nothing] \in [Indexes -> Sources]
    BY <1>1 DEF RTypeOK, Sources
  <2>3. NoRows \in [Indexes -> Sources] /\ NoClone.offset = 0 /\ NoClone.page = NoRows
    BY DEF NoRows, NoClone, Sources
  <2>4. CASE BeginClone(c) \/ FinishClone(c) \/ TearClone(c)
    <3>1. \E pc \in {"read", "done", "torn"} : clone' = [clone EXCEPT ![c] = [NoClone EXCEPT !.pc = pc]]
      BY <2>4 DEF BeginClone, FinishClone, TearClone, CloneGoes
    <3>2. clone' \in [Cloners -> [pc : {"idle", "read", "write", "ready", "done", "torn"},
                                  offset : Nat, page : [Indexes -> Sources]]]
      BY <1>1, <2>3, <3>1 DEF RTypeOK, NoClone
    <3>3. Present \in SUBSET Indexes
      BY DEF Present
    <3>4. copied' \in [Cloners -> [Indexes -> Sources]] /\ due' \in [Cloners -> SUBSET Indexes]
      BY <1>1, <2>3, <2>4, <3>3 DEF BeginClone, FinishClone, TearClone, RTypeOK
    <3>5. RTypeOK'
      BY <1>1, <2>1, <3>2, <3>4 DEF RTypeOK
    <3> QED
      BY <2>1, <3>5, RowsOther
  <2>5. CASE ReadPage(c)
    <3> DEFINE page == Page(clone[c].offset)
               pc == IF page = {} THEN "ready" ELSE "write"
               rows == [i \in Indexes |-> IF i \in page THEN content[i] ELSE Nothing]
    <3>0. rows \in [Indexes -> Sources] /\ pc \in {"ready", "write"}
      BY <2>2
    <3>4. clone' = [clone EXCEPT ![c].pc = pc, ![c].page = rows]
      BY <2>5 DEF ReadPage, Takes
    <3> HIDE DEF rows, pc
    <3>5. [clone[c] EXCEPT !.pc = pc, !.page = rows]
            \in [pc : {"idle", "read", "write", "ready", "done", "torn"},
                 offset : Nat, page : [Indexes -> Sources]]
      <4>1. clone[c] \in [pc : {"idle", "read", "write", "ready", "done", "torn"},
                           offset : Nat, page : [Indexes -> Sources]]
        BY <1>1 DEF RTypeOK
      <4>2. rows \in [Indexes -> Sources] /\ pc \in {"ready", "write"}
        BY <3>0
      <4> QED
        BY <4>1, <4>2
    <3>6. clone' = [clone EXCEPT ![c] = [clone[c] EXCEPT !.pc = pc, !.page = rows]]
      BY <1>1, <3>4 DEF RTypeOK
    <3>1. clone' \in [Cloners -> [pc : {"idle", "read", "write", "ready", "done", "torn"},
                                  offset : Nat, page : [Indexes -> Sources]]]
      BY <1>1, <3>5, <3>6 DEF RTypeOK
    <3>2. RTypeOK'
      BY <1>1, <2>1, <2>5, <3>1 DEF ReadPage, RTypeOK
    <3> QED
      BY <2>1, <3>2, RowsOther
  <2>6. CASE WritePage(c)
    <3>1. clone' \in [Cloners -> [pc : {"idle", "read", "write", "ready", "done", "torn"},
                                  offset : Nat, page : [Indexes -> Sources]]]
      BY <1>1, <2>3, <2>6 DEF WritePage, RTypeOK, RowsAssumption
    <3>2. copied' \in [Cloners -> [Indexes -> Sources]]
      BY <1>1, <2>6 DEF WritePage, RTypeOK
    <3>3. RTypeOK'
      BY <1>1, <2>1, <2>6, <3>1, <3>2 DEF WritePage, RTypeOK
    <3> QED
      BY <2>1, <3>3, RowsOther
  <2> QED
    BY <1>9, <2>4, <2>5, <2>6
<1> QED
  BY <1>2, <1>3, <1>4, <1>5, <1>6, <1>7, <1>8, <1>9 DEF RNext

-----------------------------------------------------------------------------
(* The clones.                                                             *)

(* Among rows without gaps the index of a row is the number of rows before it. *)
LEMMA PageByIndex ==
  ASSUME RowsAssumption, RowsContiguous, NEW offset \in Nat
  PROVE  Page(offset) = {i \in Present : i >= offset /\ i < offset + BatchSize}
<1>1. ASSUME NEW i \in Present PROVE Cardinality({j \in Present : j < i}) = i
  <2>1. i \in Nat /\ i \in Indexes
    BY DEF Present, Indexes
  <2>2. {j \in Present : j < i} = 0..(i - 1)
    BY <2>1 DEF RowsContiguous, Present, Indexes, RowsAssumption
  <2>3. Cardinality(0..(i - 1)) = i
    BY <2>1, FS_Interval
  <2> QED
    BY <2>2, <2>3
<1>2. \A i \in Present : i \in Nat
  BY DEF Present, Indexes
<1> QED
  BY <1>1, <1>2 DEF Page, RowsAssumption

LEMMA CloneInit == ASSUME RowsAssumption PROVE RInit => CloneBehind
  BY DEF RInit, NoClone, CloneBehind

LEMMA CloneStep ==
  ASSUME RowsAssumption, RowsInv, CloneBehind, [RNext]_rowVars
  PROVE  CloneBehind'
<1>1. RTypeOK /\ RowsContiguous
  BY DEF RowsInv
<1>2. \A i \in Indexes : content[i] # Nothing => content'[i] = content[i]
  BY RowsStep
<1>3. ASSUME UNCHANGED <<clone, copied, due>> PROVE CloneBehind'
  BY <1>1, <1>2, <1>3 DEF CloneBehind, RTypeOK
<1>4. CASE \/ UNCHANGED rowVars
           \/ InsertBatch \/ FinishImport \/ FailImport
           \/ \E f \in Uploads : Queue(f) \/ TakeImport(f)
           \/ \E p \in Prompters : FindLast(p) \/ InsertPrompt(p) \/ CountPrompt(p)
  <2>1. UNCHANGED <<clone, copied, due>>
    BY <1>4 DEF rowVars, sourceVars, InsertBatch, FinishImport, FailImport, Queue, TakeImport,
                FindLast, InsertPrompt, CountPrompt, OthersOfImport, OthersOfPrompt
  <2> QED
    BY <1>3, <2>1
<1>5. ASSUME NEW c \in Cloners, BeginClone(c) PROVE CloneBehind'
  <2>1. /\ clone' = [clone EXCEPT ![c] = [NoClone EXCEPT !.pc = "read"]]
        /\ due' = [due EXCEPT ![c] = Present] /\ UNCHANGED <<content, copied>>
    BY <1>5 DEF BeginClone, CloneGoes, sourceVars
  <2>2. clone'[c].pc = "read" /\ clone'[c].offset = 0 /\ due'[c] = Present
    BY <1>1, <2>1 DEF RTypeOK, NoClone
  <2>3. \A d \in Cloners \ {c} : clone'[d] = clone[d] /\ due'[d] = due[d]
    BY <1>1, <2>1 DEF RTypeOK
  <2>4. \A i \in Present : i \in Indexes /\ content[i] # Nothing /\ ~(i < 0)
    BY DEF Present, Indexes
  <2> QED
    BY <2>1, <2>2, <2>3, <2>4 DEF CloneBehind
<1>6. ASSUME NEW c \in Cloners, ReadPage(c) PROVE CloneBehind'
  <2> DEFINE page == Page(clone[c].offset)
             pc == IF page = {} THEN "ready" ELSE "write"
             rows == [i \in Indexes |-> IF i \in page THEN content[i] ELSE Nothing]
  <2>1. clone' = [clone EXCEPT ![c].pc = pc, ![c].page = rows]
    BY <1>6 DEF ReadPage, Takes
  <2>2. UNCHANGED <<content, copied, due>> /\ clone[c].pc = "read"
    BY <1>6 DEF ReadPage, sourceVars
  <2>3. clone[c].offset \in Nat
    BY <1>1 DEF RTypeOK
  <2>4. page = {i \in Present : i >= clone[c].offset /\ i < clone[c].offset + BatchSize}
    BY <1>1, <2>3, PageByIndex
  <2>5. \A i \in Indexes : rows[i] \in {content[i], Nothing}
    OBVIOUS
  <2>6. \A i \in due[c] : i >= clone[c].offset /\ i < clone[c].offset + BatchSize =>
          rows[i] = content[i]
    BY <2>4 DEF CloneBehind, Present
  <2>7. pc = "ready" => \A i \in due[c] : i < clone[c].offset
    <3> SUFFICES ASSUME page = {}, NEW i \in due[c], ~(i < clone[c].offset) PROVE FALSE
      OBVIOUS
    <3>1. i \in Present /\ i \in Indexes
      BY DEF CloneBehind, Present
    <3>2. clone[c].offset \in Indexes /\ clone[c].offset <= i
      BY <2>3, <3>1 DEF Indexes, RowsAssumption
    <3>3. clone[c].offset \in Present
      BY <1>1, <3>1, <3>2 DEF RowsContiguous, Indexes
    <3> QED
      BY <2>3, <2>4, <3>3 DEF RowsAssumption
  <2>8. pc \in {"ready", "write"}
    OBVIOUS
  <2> HIDE DEF rows, pc, page
  <2>9. clone'[c].pc = pc /\ clone'[c].page = rows /\ clone'[c].offset = clone[c].offset
    BY <1>1, <2>1 DEF RTypeOK
  <2>10. \A d \in Cloners \ {c} : clone'[d] = clone[d]
    BY <1>1, <2>1 DEF RTypeOK
  <2> QED
    BY <2>2, <2>5, <2>6, <2>7, <2>8, <2>9, <2>10 DEF CloneBehind
<1>7. ASSUME NEW c \in Cloners, WritePage(c) PROVE CloneBehind'
  <2> DEFINE to == clone[c].offset + BatchSize
  <2>1. /\ copied' = [copied EXCEPT ![c] = [i \in Indexes |->
                        IF clone[c].page[i] # Nothing THEN clone[c].page[i] ELSE copied[c][i]]]
        /\ clone' = [clone EXCEPT ![c] = [pc |-> "read", offset |-> to, page |-> NoRows]]
        /\ UNCHANGED <<content, due>> /\ clone[c].pc = "write"
    BY <1>7 DEF WritePage, sourceVars
  <2>2. clone[c].offset \in Nat /\ BatchSize \in Nat \ {0}
    BY <1>1 DEF RTypeOK, RowsAssumption
  <2>3. \A i \in due[c] : i < to => copied'[c][i] = content[i]
    <3> SUFFICES ASSUME NEW i \in due[c], i < to PROVE copied'[c][i] = content[i]
      OBVIOUS
    <3>1. i \in Indexes /\ content[i] # Nothing /\ clone[c].page[i] \in {content[i], Nothing}
      BY <2>1 DEF CloneBehind
    <3>2. copied'[c][i] = IF clone[c].page[i] # Nothing THEN clone[c].page[i] ELSE copied[c][i]
      BY <1>1, <2>1, <3>1 DEF RTypeOK
    <3>3. CASE i < clone[c].offset
      BY <2>1, <3>1, <3>2, <3>3 DEF CloneBehind
    <3>4. CASE i >= clone[c].offset
      BY <2>1, <3>1, <3>2, <3>4 DEF CloneBehind
    <3> QED
      BY <2>2, <3>1, <3>3, <3>4 DEF Indexes
  <2>4. clone'[c].pc = "read" /\ clone'[c].offset = to
    BY <1>1, <2>1 DEF RTypeOK
  <2>5. \A d \in Cloners \ {c} : clone'[d] = clone[d] /\ copied'[d] = copied[d]
    BY <1>1, <2>1 DEF RTypeOK
  <2>6. \A i \in due'[c] : i \in Indexes /\ content'[i] # Nothing
    BY <2>1 DEF CloneBehind
  <2> HIDE DEF to
  <2>7. \A i \in due'[c] : i < clone'[c].offset => copied'[c][i] = content'[i]
    BY <2>1, <2>3, <2>4
  <2>8. clone'[c].pc \notin {"write", "ready", "done"}
    BY <2>4
  <2>9. UNCHANGED <<content, due>>
    BY <2>1
  <2> QED
    BY <2>5, <2>6, <2>7, <2>8, <2>9 DEF CloneBehind
<1>8. ASSUME NEW c \in Cloners, FinishClone(c) \/ TearClone(c) PROVE CloneBehind'
  <2>1. \A d \in Cloners \ {c} : clone'[d] = clone[d] /\ copied'[d] = copied[d] /\ due'[d] = due[d]
    BY <1>1, <1>8 DEF FinishClone, TearClone, CloneGoes, RTypeOK
  <2>2. UNCHANGED content
    BY <1>8 DEF FinishClone, TearClone, sourceVars
  <2>3. CASE FinishClone(c)
    <3>1. clone'[c].pc = "done" /\ clone[c].pc = "ready" /\ UNCHANGED <<copied, due>>
      BY <1>1, <2>3 DEF FinishClone, CloneGoes, RTypeOK, NoClone
    <3> QED
      BY <2>1, <2>2, <3>1 DEF CloneBehind
  <2>4. CASE TearClone(c)
    <3>1. clone'[c].pc = "torn" /\ due'[c] = {}
      BY <1>1, <2>4 DEF TearClone, CloneGoes, RTypeOK, NoClone
    <3> QED
      BY <2>1, <2>2, <3>1 DEF CloneBehind
  <2> QED
    BY <1>8, <2>3, <2>4
<1> QED
  BY <1>4, <1>5, <1>6, <1>7, <1>8 DEF RNext

-----------------------------------------------------------------------------
(* Both invariants, for every reachable state. *)
THEOREM RowsInvariance == ASSUME RowsAssumption PROVE RSpec => [](RowsInv /\ CloneBehind)
<1>1. RInit => RowsInv /\ CloneBehind
  BY RowsInit, CloneInit
<1>2. (RowsInv /\ CloneBehind) /\ [RNext]_rowVars => (RowsInv /\ CloneBehind)'
  BY RowsStep, CloneStep
<1> QED
  BY <1>1, <1>2, PTL DEF RSpec

(* Rows have no gap: whatever imports skip, retry and append to, and       *)
(* however many prompts are appended at once.                              *)
THEOREM NoGaps == ASSUME RowsAssumption PROVE RSpec => []RowsContiguous
<1>1. RowsInv => RowsContiguous
  BY DEF RowsInv
<1> QED
  BY <1>1, RowsInvariance, PTL

(* A READY clone has every row it was asked for: paging by offset loses    *)
(* none, because rows are only ever added after all others.                *)
THEOREM ClonesAreComplete == ASSUME RowsAssumption PROVE RSpec => []CloneComplete
<1>1. CloneBehind => CloneComplete
  BY DEF CloneBehind, CloneComplete
<1> QED
  BY <1>1, RowsInvariance, PTL

(* Every variable keeps its type. *)
THEOREM RowTypes == ASSUME RowsAssumption PROVE RSpec => []RTypeOK
<1>1. RowsInv => RTypeOK
  BY DEF RowsInv
<1> QED
  BY <1>1, RowsInvariance, PTL
=============================================================================
