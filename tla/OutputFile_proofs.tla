------------------------- MODULE OutputFile_proofs -------------------------
(***************************************************************************)
(* Proofs about OutputFile: for any number of runs, of lines and of        *)
(* signals, runs print one at a time, and a run that has the file to       *)
(* itself leaves exactly its lines.                                        *)
(***************************************************************************)
EXTENDS OutputFile, TLAPS

\* The cells a file is made of.
Cells == [run : Runs \cup {nobody}, line : Nat]

LEMMA CellOK == /\ \A r \in Runs, k \in Nat : Cell(r, k) \in Cells
                /\ Hole \in Cells
  BY DEF Cell, Hole, Cells

\* What a run writes gives a file again.
LEMMA WrittenOK ==
    ASSUME TypeOK, NEW r \in Runs
    PROVE  /\ Written(r) \in Seq(Cells)
           /\ Len(Written(r)) = Larger(Len(file), printed[r])
  <1> DEFINE n == Larger(Len(file), printed[r])
  <1>1. file \in Seq(Cells) /\ Len(file) \in Nat
    BY DEF TypeOK, FileOK, Cells
  <1>2. flushed[r] \in Nat /\ printed[r] \in Nat
    BY DEF TypeOK, RunsOK
  <1>3. n \in Nat
    BY <1>1, <1>2 DEF Larger
  <1>4. \A k \in 1 .. n :
            (IF k \in flushed[r] + 1 .. printed[r] THEN Cell(r, k)
             ELSE IF k <= Len(file) THEN file[k] ELSE Hole) \in Cells
    <2> SUFFICES ASSUME NEW k \in 1 .. n
                 PROVE  (IF k \in flushed[r] + 1 .. printed[r] THEN Cell(r, k)
                         ELSE IF k <= Len(file) THEN file[k] ELSE Hole) \in Cells
      OBVIOUS
    <2>1. k \in Nat /\ k >= 1
      BY <1>3
    <2>2. Cell(r, k) \in Cells /\ Hole \in Cells
      BY <2>1, CellOK
    <2>3. k <= Len(file) => file[k] \in Cells
      BY <1>1, <2>1
    <2> QED
      BY <2>2, <2>3
  <1>5. Written(r) \in [1 .. n -> Cells]
    BY <1>4 DEF Written
  <1> QED
    BY <1>3, <1>5

\* Appending what is left in the buffer to the lines written so far.
LEMMA WrittenExact ==
    ASSUME TypeOK, NEW r \in Runs, Len(file) = flushed[r],
           \A k \in 1 .. Len(file) : file[k] = Cell(r, k)
    PROVE  /\ Len(Written(r)) = printed[r]
           /\ \A k \in 1 .. Len(Written(r)) : Written(r)[k] = Cell(r, k)
  <1>1. /\ flushed[r] \in Nat /\ printed[r] \in Nat
        /\ flushed[r] <= printed[r]
    BY DEF TypeOK, RunsOK
  <1>2. Len(Written(r)) = printed[r]
    BY <1>1, WrittenOK DEF Larger
  <1>3. Larger(Len(file), printed[r]) = printed[r]
    BY <1>1 DEF Larger
  <1>4. \A k \in 1 .. printed[r] : Written(r)[k] = Cell(r, k)
    <2> SUFFICES ASSUME NEW k \in 1 .. printed[r] PROVE Written(r)[k] = Cell(r, k)
      OBVIOUS
    <2>1. CASE k \in flushed[r] + 1 .. printed[r]
      BY <2>1, <1>3 DEF Written
    <2>2. CASE k \notin flushed[r] + 1 .. printed[r]
      <3>1. k \in 1 .. Len(file)
        BY <2>2, <1>1
      <3> QED
        BY <2>2, <3>1, <1>3 DEF Written
    <2> QED
      BY <2>1, <2>2
  <1> QED
    BY <1>2, <1>4

\* The empty file is one.
LEMMA EmptyOK == ASSUME NEW S PROVE <<>> \in Seq(S)
  OBVIOUS

LEMMA InitIInv == Init => IInv
  <1> SUFFICES ASSUME Init PROVE IInv
    OBVIOUS
  <1> USE DEF Init
  <1>1. TypeOK
    BY LinesAssumption DEF TypeOK, RunsOK, FileOK
  <1>2. Holds /\ Progress
    BY NobodyAssumption DEF Holds, Progress
  <1>3. Alone /\ ExactOutput
    BY DEF Alone, ExactOutput
  <1> QED
    BY <1>1, <1>2, <1>3 DEF IInv

LEMMA Keeps_Open == ASSUME IInv, NEW r \in Runs, Open(r) PROVE IInv'
  <1> USE NobodyAssumption, LinesAssumption, BufSizeAssumption
      DEF IInv, TypeOK, Open
  <1>1. RunsOK'
    BY DEF RunsOK
  <1>2. FileOK'
    <2>1. sole' \in Runs \cup {nobody}
      BY DEF FileOK
    <2>2. file' = file \/ file' = <<>>
      OBVIOUS
    <2>3. file' \in Seq([run : Runs \cup {nobody}, line : Nat])
      <3>1. CASE file' = file
        BY <3>1 DEF FileOK
      <3>2. CASE file' = <<>>
        BY ONLY <3>2, EmptyOK
      <3> QED
        BY <2>2, <3>1, <3>2
    <2> QED
      BY <2>1, <2>3 DEF FileOK
  <1>3. Holds'
    BY DEF Holds, RunsOK, FileOK
  <1>4. Progress'
    BY DEF Progress, RunsOK
  <1>5. Alone'
    <2>1. CASE UNCHANGED <<opened, file, sole>>
      BY <2>1 DEF Alone, Using, RunsOK, Holds
    <2>2. CASE /\ opened' = [opened EXCEPT ![r] = TRUE]
               /\ sole' = IF \E q \in Runs : Using(q) THEN nobody ELSE r
      <3>1. \A q \in Runs : q # r => (Using(q)' <=> Using(q))
        BY <2>2 DEF Using, RunsOK
      <3> QED
        BY <2>2, <3>1 DEF Alone
    <2> QED
      BY <2>1, <2>2
  <1>6. ExactOutput'
    BY DEF ExactOutput, RunsOK, FileOK, Progress, Using
  <1> QED
    BY <1>1, <1>2, <1>3, <1>4, <1>5, <1>6

LEMMA Keeps_Lock == ASSUME IInv, NEW r \in Runs, Lock(r) PROVE IInv'
  <1> USE NobodyAssumption, LinesAssumption, BufSizeAssumption
      DEF IInv, TypeOK, Lock
  <1>1. RunsOK'
    BY DEF RunsOK
  <1>2. FileOK'
    BY DEF FileOK
  <1>3. Holds'
    BY DEF Holds, RunsOK, FileOK
  <1>4. Progress'
    BY DEF Progress, RunsOK
  <1>5. Alone'
    BY DEF Alone, Using, RunsOK, Holds
  <1>6. ExactOutput'
    BY DEF ExactOutput, RunsOK, FileOK, Progress, Using
  <1> QED
    BY <1>1, <1>2, <1>3, <1>4, <1>5, <1>6

LEMMA Keeps_LockFails == ASSUME IInv, NEW r \in Runs, LockFails(r) PROVE IInv'
  <1> USE NobodyAssumption, LinesAssumption, BufSizeAssumption
      DEF IInv, TypeOK, LockFails
  <1>1. RunsOK'
    BY DEF RunsOK
  <1>2. FileOK'
    BY DEF FileOK
  <1>3. Holds'
    BY DEF Holds, RunsOK, FileOK
  <1>4. Progress'
    BY DEF Progress, RunsOK
  <1>5. Alone'
    BY DEF Alone, Using, RunsOK, Holds
  <1>6. ExactOutput'
    BY DEF ExactOutput, RunsOK, FileOK, Progress, Using
  <1> QED
    BY <1>1, <1>2, <1>3, <1>4, <1>5, <1>6

LEMMA Keeps_Interrupt == ASSUME IInv, NEW r \in Runs, Interrupt(r) PROVE IInv'
  <1> USE NobodyAssumption, LinesAssumption, BufSizeAssumption
      DEF IInv, TypeOK, Interrupt
  <1>1. RunsOK'
    BY DEF RunsOK
  <1>2. FileOK'
    BY DEF FileOK
  <1>3. Holds'
    BY DEF Holds, RunsOK, FileOK
  <1>4. Progress'
    BY DEF Progress, RunsOK
  <1>5. Alone'
    BY DEF Alone, Using, RunsOK, Holds
  <1>6. ExactOutput'
    BY DEF ExactOutput, RunsOK, FileOK, Progress, Using
  <1> QED
    BY <1>1, <1>2, <1>3, <1>4, <1>5, <1>6

LEMMA Keeps_Sleep == ASSUME IInv, NEW r \in Runs, Sleep(r) PROVE IInv'
  <1> USE NobodyAssumption, LinesAssumption, BufSizeAssumption
      DEF IInv, TypeOK, Sleep
  <1>1. RunsOK'
    BY DEF RunsOK
  <1>2. FileOK'
    BY DEF FileOK
  <1>3. Holds'
    BY DEF Holds, RunsOK, FileOK
  <1>4. Progress'
    BY DEF Progress, RunsOK
  <1>5. Alone'
    BY DEF Alone, Using, RunsOK, Holds
  <1>6. ExactOutput'
    BY DEF ExactOutput, RunsOK, FileOK, Progress, Using
  <1> QED
    BY <1>1, <1>2, <1>3, <1>4, <1>5, <1>6

LEMMA Keeps_PrintLine == ASSUME IInv, NEW r \in Runs, PrintLine(r) PROVE IInv'
  <1> USE NobodyAssumption, LinesAssumption, BufSizeAssumption
      DEF IInv, TypeOK, PrintLine
  <1>1. RunsOK'
    <2>1. /\ printed[r] \in Nat /\ flushed[r] \in Nat /\ Lines[r] \in Nat
          /\ flushed[r] <= printed[r] /\ printed[r] < Lines[r]
      BY DEF RunsOK
    <2>2. printed' \in [Runs -> Nat] /\ flushed' \in [Runs -> Nat]
      BY <2>1 DEF RunsOK, Flush
    <2>3. \A q \in Runs : flushed'[q] <= printed'[q] /\ printed'[q] <= Lines[q]
      BY <2>1 DEF RunsOK, Flush
    <2> QED
      BY <2>2, <2>3 DEF RunsOK
  <1>2. FileOK'
    BY WrittenOK DEF FileOK, Flush, Cells
  <1>3. Holds'
    BY DEF Holds, RunsOK
  <1>4. Progress'
    BY DEF Progress, RunsOK, Flush
  <1>5. Alone'
    BY DEF Alone, Using, RunsOK
  <1>6. ExactOutput'
    <2> SUFFICES ASSUME sole # nobody
                 PROVE  /\ Len(file') = flushed'[sole]
                        /\ \A k \in 1 .. Len(file') : file'[k] = Cell(sole, k)
                        /\ pc'[sole] = "done" => Len(file') = Lines[sole]
      BY DEF ExactOutput
    <2>1. sole = r
      BY DEF Alone, Using, Holds, RunsOK
    <2>2. /\ Len(file) = flushed[r]
          /\ \A k \in 1 .. Len(file) : file[k] = Cell(r, k)
          /\ pc[r] = "done" => Len(file) = Lines[r]
      BY <2>1 DEF ExactOutput
    <2>3. /\ flushed[r] \in Nat /\ printed[r] \in Nat
          /\ flushed[r] <= printed[r]
      BY DEF RunsOK
    <2>4. /\ Len(file') = flushed'[r]
          /\ \A k \in 1 .. Len(file') : file'[k] = Cell(r, k)
      BY <2>2, <2>3, WrittenExact DEF Flush, RunsOK
    <2>5. pc'[r] = "done" => flushed'[r] = Lines[r]
      BY DEF Progress, Flush, RunsOK
    <2> QED
      BY <2>1, <2>4, <2>5
  <1> QED
    BY <1>1, <1>2, <1>3, <1>4, <1>5, <1>6

LEMMA Keeps_Unlock == ASSUME IInv, NEW r \in Runs, Unlock(r) PROVE IInv'
  <1> USE NobodyAssumption, LinesAssumption, BufSizeAssumption
      DEF IInv, TypeOK, Unlock
  <1>1. RunsOK'
    BY DEF RunsOK
  <1>2. FileOK'
    BY DEF FileOK
  <1>3. Holds'
    BY DEF Holds, RunsOK, FileOK
  <1>4. Progress'
    BY DEF Progress, RunsOK
  <1>5. Alone'
    BY DEF Alone, Using, RunsOK, Holds
  <1>6. ExactOutput'
    BY DEF ExactOutput, RunsOK, FileOK, Progress, Using
  <1> QED
    BY <1>1, <1>2, <1>3, <1>4, <1>5, <1>6

LEMMA Keeps_Close == ASSUME IInv, NEW r \in Runs, Close(r) PROVE IInv'
  <1> USE NobodyAssumption, LinesAssumption, BufSizeAssumption
      DEF IInv, TypeOK, Close
  <1>1. RunsOK'
    BY DEF RunsOK, Flush, Progress
  <1>2. FileOK'
    BY WrittenOK DEF FileOK, Flush, Cells
  <1>3. Holds'
    BY DEF Holds, RunsOK
  <1>4. Progress'
    BY DEF Progress, RunsOK, Flush
  <1>5. Alone'
    BY DEF Alone, Using, RunsOK
  <1>6. ExactOutput'
    <2> SUFFICES ASSUME sole # nobody
                 PROVE  /\ Len(file') = flushed'[sole]
                        /\ \A k \in 1 .. Len(file') : file'[k] = Cell(sole, k)
                        /\ pc'[sole] = "done" => Len(file') = Lines[sole]
      BY DEF ExactOutput
    <2>1. sole = r
      BY DEF Alone, Using, Holds, RunsOK
    <2>2. /\ Len(file) = flushed[r]
          /\ \A k \in 1 .. Len(file) : file[k] = Cell(r, k)
          /\ pc[r] = "done" => Len(file) = Lines[r]
      BY <2>1 DEF ExactOutput
    <2>3. /\ flushed[r] \in Nat /\ printed[r] \in Nat
          /\ flushed[r] <= printed[r]
      BY DEF RunsOK
    <2>4. /\ Len(file') = flushed'[r]
          /\ \A k \in 1 .. Len(file') : file'[k] = Cell(r, k)
      BY <2>2, <2>3, WrittenExact DEF Flush, RunsOK
    <2>5. pc'[r] = "done" => flushed'[r] = Lines[r]
      BY DEF Progress, Flush, RunsOK
    <2> QED
      BY <2>1, <2>4, <2>5
  <1> QED
    BY <1>1, <1>2, <1>3, <1>4, <1>5, <1>6

LEMMA Keeps_Kill == ASSUME IInv, NEW r \in Runs, Kill(r) PROVE IInv'
  <1> USE NobodyAssumption, LinesAssumption, BufSizeAssumption
      DEF IInv, TypeOK, Kill
  <1>1. RunsOK'
    BY DEF RunsOK
  <1>2. FileOK'
    BY DEF FileOK
  <1>3. Holds'
    BY DEF Holds, RunsOK, FileOK
  <1>4. Progress'
    BY DEF Progress, RunsOK
  <1>5. Alone'
    BY DEF Alone, Using, RunsOK, Holds
  <1>6. ExactOutput'
    BY DEF ExactOutput, RunsOK, FileOK, Progress, Using
  <1> QED
    BY <1>1, <1>2, <1>3, <1>4, <1>5, <1>6

LEMMA KeepsIInv == IInv /\ [Next]_vars => IInv'
  <1> SUFFICES ASSUME IInv, [Next]_vars PROVE IInv'
    OBVIOUS
  <1>1. ASSUME NEW r \in Runs, Step(r) PROVE IInv'
    BY <1>1, Keeps_Open, Keeps_Lock, Keeps_LockFails, Keeps_Sleep, Keeps_PrintLine,
       Keeps_Unlock, Keeps_Close DEF Step
  <1>2. ASSUME NEW r \in Runs, Interrupt(r) \/ Kill(r) PROVE IInv'
    BY <1>2, Keeps_Interrupt, Keeps_Kill
  <1>3. CASE UNCHANGED vars
    BY <1>3 DEF vars, IInv, TypeOK, RunsOK, FileOK, Holds, Progress, Alone, Using,
       ExactOutput
  <1> QED
    BY <1>1, <1>2, <1>3 DEF Next, Finished

\* The inductive invariant holds of every state: who prints has the lock and
\* the file, and who has the file alone has written exactly its lines so far.
THEOREM Invariant == Spec => []IInv
  BY InitIInv, KeepsIInv, PTL DEF Spec

\* The lock of outputValues excludes: two runs never print at the same time,
\* whoever is interrupted while it waits or killed while it holds the lock.
THEOREM MutualExclusion == Spec => []OneWriter
  <1>1. IInv => OneWriter
    BY DEF IInv, Holds, OneWriter
  <1> QED
    BY Invariant, <1>1, PTL

\* The file of a run that no other run overlaps is exactly its output.
THEOREM OwnLinesExactly == Spec => []ExactOutput
  <1>1. IInv => ExactOutput
    BY DEF IInv
  <1> QED
    BY Invariant, <1>1, PTL

\* Every variable keeps its type: no run prints more than its lines, or writes
\* more than it printed.
THEOREM TypeCorrect == Spec => []TypeOK
  <1>1. IInv => TypeOK
    BY DEF IInv
  <1> QED
    BY Invariant, <1>1, PTL
=============================================================================
