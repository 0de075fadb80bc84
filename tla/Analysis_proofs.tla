--------------------------- MODULE Analysis_proofs ---------------------------
(***************************************************************************)
(* TLAPS proofs about Analysis: whatever number of functions and of saved  *)
(* test cases there is, and however harnesses fail, a row of the table is  *)
(* of the run and of the inputs it says, and a function the analysis of a  *)
(* package has been to has the rows it should have.                        *)
(***************************************************************************)
EXTENDS Analysis, FiniteSetTheorems, WellFoundedInduction, TLAPS

-----------------------------------------------------------------------------
(* The entries that are selected for analysis.                             *)

\* A list of entries has a first one.
LEMMA LeastExists ==
  ASSUME NEW S \in SUBSET Nat, S # {}
  PROVE  Least(S) \in S /\ \A d \in S : Least(S) <= d
<1> DEFINE R == {ss \in Nat \X Nat : ss[1] < ss[2]}
<1>1. IsWellFoundedOn(R, Nat)
  BY NatLessThanWellFounded DEF OpToRel
<1>2. PICK e \in S : \A d \in S : ~(<<d, e>> \in R)
  <2> HIDE DEF R
  <2> QED BY <1>1, WFMin
<1>3. ASSUME NEW d \in S PROVE e <= d
  <2>1. ~(d < e)
    <3>1. <<d, e>> \in Nat \X Nat /\ <<d, e>>[1] = d /\ <<d, e>>[2] = e
      OBVIOUS
    <3> QED BY <1>2, <3>1
  <2> QED BY <2>1
<1> QED BY <1>3 DEF Least

\* The first entries are the saved test cases; a log directory is not one.
LEMMA EntryOrder ==
  /\ Entry \subseteq Nat /\ Saved \subseteq Entry
  /\ \A e \in Entry : e \in Saved <=> e <= NBin
  /\ \A e \in Entry : LogOf(e) \notin Saved
BY SizeAssumption DEF Entry, Saved, LogOf

\* What comes before a saved test case is one.
LEMMA SavedBefore ==
  ASSUME NEW e \in Saved, NEW d \in Entry, d < e
  PROVE  d \in Saved
<1>1. e \in Nat /\ d \in Nat /\ NBin \in Nat /\ e <= NBin
  BY EntryOrder, SizeAssumption
<1>2. d <= NBin
  BY <1>1
<1> QED BY <1>2, EntryOrder

\* The entries of a directory are finitely many.
LEMMA EntriesFinite ==
  ASSUME NEW E \in SUBSET Entry
  PROVE  /\ IsFiniteSet(E) /\ Cardinality(E) \in Nat
         /\ \A D \in SUBSET E : IsFiniteSet(D) /\ Cardinality(D) \in Nat
                                /\ Cardinality(D) <= Cardinality(E)
<1>1. IsFiniteSet(Entry)
  BY SizeAssumption, FS_Interval DEF Entry
<1> QED BY <1>1, FS_Subset, FS_CardinalityType

\* Log directories come after all saved test cases, so that the first entries
\* have the first saved test cases among them.
LEMMA FirstOfSaved ==
  ASSUME NEW E \in SUBSET Entry, NEW n \in Nat
  PROVE  First(E, n) \cap Saved = First(E \cap Saved, n)
<1>1. ASSUME NEW e \in E \cap Saved
      PROVE  {d \in E : d < e} = {d \in E \cap Saved : d < e}
  BY SavedBefore
<1> QED BY <1>1 DEF First

\* Asked for more entries than there are saved test cases, it selects all of those.
LEMMA FirstBeyond ==
  ASSUME NEW E \in SUBSET Entry, NEW n \in Nat, n > Cardinality(E \cap Saved)
  PROVE  First(E, n) \cap Saved = E \cap Saved
<1> SUFFICES ASSUME NEW e \in E \cap Saved PROVE e \in First(E, n)
  BY DEF First
<1>1. {d \in E : d < e} \in SUBSET (E \cap Saved) /\ (E \cap Saved) \in SUBSET Entry
  BY SavedBefore
<1>2. /\ Cardinality({d \in E : d < e}) <= Cardinality(E \cap Saved)
      /\ Cardinality({d \in E : d < e}) \in Nat /\ Cardinality(E \cap Saved) \in Nat
  BY <1>1, EntriesFinite
<1> QED BY <1>2 DEF First

\* What deepstate_analyze_fun selects in the directory of f.
LEMMA SelectedCovers ==
  ASSUME NEW f, entries[f] \in SUBSET Entry, max \in Nat
  PROVE  Selected(entries[f]) \subseteq entries[f] /\ Covers(Selected(entries[f]), f)
<1> DEFINE E == entries[f]
           S == E \cap Saved
<1>0. /\ Cardinality(S) <= Cardinality(E) /\ Cardinality(S) \in Nat
      /\ Cardinality(E) \in Nat
  BY EntriesFinite
<1> SUFFICES Covers(Selected(E), f)
  BY DEF Selected, First
<1>1. Selected(E) \cap Saved \subseteq S
  BY DEF Selected, First
<1>2. CASE max \in 1..Cardinality(S)
  <2>1. Selected(E) = First(E, max)
    BY <1>0, <1>2 DEF Selected
  <2>2. First(E, max) \cap Saved = First(S, max)
    BY FirstOfSaved
  <2> QED BY <1>1, <1>2, <2>1, <2>2 DEF Covers
<1>3. CASE max > Cardinality(S) /\ max <= Cardinality(E)
  <2>1. Selected(E) = First(E, max)
    BY <1>0, <1>3 DEF Selected
  <2>2. First(E, max) \cap Saved = S
    BY <1>3, FirstBeyond
  <2>3. First(S, 3) \subseteq Selected(E)
    BY <2>1, <2>2 DEF First
  <2> QED BY <1>0, <1>1, <1>3, <2>3 DEF Covers
<1>4. CASE max = 0 \/ max > Cardinality(E)
  <2>1. Selected(E) = First(E, 3)
    BY <1>0, <1>4 DEF Selected
  <2>2. First(E, 3) \cap Saved = First(S, 3)
    BY FirstOfSaved
  <2> QED BY <1>0, <1>1, <1>4, <2>1, <2>2 DEF Covers
<1> QED BY <1>0, <1>2, <1>3, <1>4

-----------------------------------------------------------------------------
(* IInv is inductive.                                                      *)

USE SizeAssumption, ArgsAssumption

\* The fields of a record of how a run went.
LEMMA RunFields ==
  /\ NotRun \in Run /\ [NotRun EXCEPT !.started = TRUE] \in Run
  /\ ~NotRun.started /\ ~NotRun.read /\ ~NotRun.called /\ ~NotRun.zero
  /\ [started : {TRUE}, read : {TRUE}, called : BOOLEAN, zero : BOOLEAN, whole : BOOLEAN]
         \subseteq Run
BY DEF NotRun, Run

\* A run that ended well or read its file was started; where the test was found,
\* it read a saved test case.
LEMMA OutcomesTell ==
  ASSUME NEW f, NEW e, NEW o \in Outcomes(f, e)
  PROVE  /\ o \in Run
         /\ o.zero \/ o.read => o.started /\ (named => o.read /\ e \in Saved)
         /\ o.called => o.read /\ e \in Saved
<1>1. CASE o = NotRun
  BY <1>1, RunFields
<1>2. CASE ~named /\ o \in [started : {TRUE}, read : {FALSE}, called : {FALSE}, zero : {TRUE},
                          whole : BOOLEAN]
  BY <1>2 DEF Run
<1>3. CASE o = [NotRun EXCEPT !.started = TRUE]
  BY <1>3, RunFields DEF NotRun
<1>4. CASE e \in Saved /\ o \in [started : {TRUE}, read : {TRUE}, called : BOOLEAN,
                                zero : BOOLEAN, whole : BOOLEAN]
  BY <1>4, RunFields
<1> QED BY <1>1, <1>2, <1>3, <1>4 DEF Outcomes

LEMMA InitInv == Init => IInv
<1> SUFFICES ASSUME Init PROVE IInv
  OBVIOUS
<1>1. 1 \in Fun /\ 1 \in Entry
  BY DEF Fun, Entry
<1>2. TypeOK
  <2>1. /\ dotted \in BOOLEAN /\ beyond = FALSE /\ named = TRUE /\ listed = FALSE
        /\ dir = {} /\ obj = {} /\ exe = {} /\ todoFun = {} /\ chosen = {} /\ todo = {}
        /\ table = {} /\ max = 0 /\ cur = 1 /\ ent = 1 /\ run = NotRun
        /\ pc = "idle" /\ top = "none" /\ result = "none"
    BY DEF Init
  <2>2. /\ entries \in [Fun -> SUBSET Entry] /\ logs \in [Fun -> SUBSET Entry]
        /\ inputs \in [Fun -> Inputs]
    BY DEF Init, Inputs, NoInputs
  <2> QED BY <1>1, <2>1, <2>2, RunFields DEF TypeOK
<1>3. CallInv /\ RunInv /\ PkgInv
  BY DEF Init, CallInv, RunInv, PkgInv
<1>4. RowsWereRun /\ InputsOfCalled /\ StopsUnread
  BY DEF Init, RowsWereRun, InputsOfCalled, StopsUnread
<1> QED BY <1>2, <1>3, <1>4 DEF IInv

\* Types after a step of the user.
LEMMA UserType ==
  ASSUME TypeOK, UserCall
  PROVE  TypeOK'
<1> USE DEF TypeOK, treeVars, callVars
<1>1. CASE AnalyzePkg
  <2>1. PICK n \in MaxTestfiles, m \in MaxInputs :
           /\ max' = m
           /\ chosen' = IF n = 0 THEN dir ELSE First(dir, n)
           /\ beyond' = (n > Cardinality(dir))
    BY <1>1 DEF AnalyzePkg
  <2>2. max' \in Nat /\ chosen' \subseteq Fun /\ beyond' \in BOOLEAN
    BY <2>1 DEF First
  <2> QED BY <1>1, <2>2 DEF AnalyzePkg
<1>2. CASE AnalyzeFun
  BY <1>2 DEF AnalyzeFun, End
<1>3. CASE AnalyzeFile
  <2>1. Saved \subseteq Entry
    BY EntryOrder
  <2> QED BY <1>3, <2>1 DEF AnalyzeFile
<1>4. CASE FuzzAnalyze
  <2>1. PICK f \in Fun, files \in BOOLEAN, limit \in BOOLEAN :
           /\ cur' = f /\ chosen' = {f} /\ beyond' = FALSE
           /\ listed' = (inputs[f] # NoInputs)
           /\ \/ End("stop") /\ UNCHANGED <<obj, exe>>
              \/ /\ UNCHANGED <<obj, exe>> \/ Tree!Compile(f)
                 /\ (pc' = "fuzz" /\ result' = "none") \/ End("stop")
    BY <1>4 DEF FuzzAnalyze
  <2>2. obj' \subseteq Fun /\ exe' \subseteq Fun
    BY <2>1 DEF Tree!Compile
  <2>3. /\ cur' \in Fun /\ chosen' \subseteq Fun /\ beyond' \in BOOLEAN /\ listed' \in BOOLEAN
        /\ pc' \in {"fuzz", "idle"} /\ result' \in {"none", "stop"}
    BY <2>1 DEF End
  <2> QED BY <1>4, <2>2, <2>3 DEF FuzzAnalyze
<1> QED BY <1>1, <1>2, <1>3, <1>4 DEF UserCall

\* Types after a step of the call that runs.
LEMMA SessionType ==
  ASSUME TypeOK, SessionStep
  PROVE  TypeOK'
<1> USE DEF TypeOK, treeVars, callVars
<1>1. CASE NextFun
  <2>1. todoFun # {} => Least(todoFun) \in todoFun
    BY LeastExists DEF Fun
  <2> QED BY <1>1, <2>1 DEF NextFun, End
<1>2. CASE ListFiles
  BY <1>2, SelectedCovers DEF ListFiles, FunReturn, End
<1>3. CASE NextFile
  <2>1. todo # {} => Least(todo) \in todo
    BY LeastExists, EntryOrder
  <2> QED BY <1>3, <2>1 DEF NextFile, FunReturn, End
<1>4. CASE MakeLogDir
  BY <1>4 DEF MakeLogDir, End
<1>5. CASE RunFile
  <2>1. run' \in Run
    BY <1>5, OutcomesTell DEF RunFile
  <2>2. Dumped(run', ent, inputs[cur]) \in Inputs
    <3>1. run'.called => ent \in Saved
      BY <1>5, OutcomesTell DEF RunFile
    <3>2. inputs[cur] \in Inputs /\ Saved \subseteq Inputs
      BY DEF Saved, Inputs
    <3> QED BY <3>1, <3>2 DEF Dumped
  <2> QED BY <1>5, <2>1, <2>2 DEF RunFile
<1>6. CASE ReadRow
  BY <1>6 DEF ReadRow, End, Row, Entry
<1>7. CASE RunFuzzer
  <2>1. run' \in Run
    BY <1>7, RunFields DEF RunFuzzer
  <2>2. Dumped(run', FuzzInputs, inputs[cur]) \in Inputs
    BY DEF Dumped, Inputs, FuzzInputs
  <2> QED BY <1>7, <2>1, <2>2 DEF RunFuzzer
<1>8. CASE FuzzRow
  BY <1>8 DEF FuzzRow, End, Row, Inputs, NoInputs
<1> QED BY <1>1, <1>2, <1>3, <1>4, <1>5, <1>6, <1>7, <1>8 DEF SessionStep, Advance

\* Types between two calls, and when one is cut short.
LEMMA OtherType ==
  ASSUME TypeOK, Returned \/ Between \/ Killed
  PROVE  TypeOK'
<1> USE DEF TypeOK, treeVars, callVars
<1>1. CASE Returned
  <2>1. 1 \in Fun /\ 1 \in Entry
    BY DEF Fun, Entry
  <2>2. /\ top' = "none" /\ result' = "none" /\ max' = 0 /\ todoFun' = {} /\ beyond' = FALSE
        /\ chosen' = {} /\ cur' = 1 /\ todo' = {} /\ ent' = 1 /\ named' = TRUE
        /\ listed' = FALSE /\ run' = NotRun /\ table' = {}
    BY <1>1 DEF Returned
  <2>3. UNCHANGED <<treeVars, pc>>
    BY <1>1 DEF Returned
  <2> QED BY <2>1, <2>2, <2>3, RunFields
<1>2. CASE Killed
  BY <1>2 DEF Killed, End
<1>3. CASE Between
  <2>1. PICK f \in Fun : Create(f) \/ CutShort(f) \/ CompileFun(f) \/ FuzzFun(f) \/ LoseExe(f)
    BY <1>3 DEF Between
  <2>2. dir' \subseteq Fun /\ obj' \subseteq Fun /\ exe' \subseteq Fun
    BY <2>1 DEF Create, CutShort, CompileFun, FuzzFun, LoseExe, Tree!Create, Tree!Unlink,
                Tree!Compile
  <2>3. entries' \in [Fun -> SUBSET Entry]
    <3>1. CASE Create(f)
      BY <3>1 DEF Create
    <3>2. CASE CutShort(f)
      <4>1. PICK gone \in SUBSET entries[f] : entries' = [entries EXCEPT ![f] = @ \ gone]
        BY <3>2 DEF CutShort
      <4> QED BY <4>1
    <3>3. CASE CompileFun(f) \/ LoseExe(f)
      BY <3>3 DEF CompileFun, LoseExe
    <3>4. CASE FuzzFun(f)
      <4>1. PICK new \in SUBSET Saved : entries' = [entries EXCEPT ![f] = @ \cup new]
        BY <3>4 DEF FuzzFun
      <4> QED BY <4>1, EntryOrder
    <3> QED BY <2>1, <3>1, <3>2, <3>3, <3>4
  <2>4. inputs' \in [Fun -> Inputs] /\ logs' \in [Fun -> SUBSET Entry]
    <3>1. CASE Create(f)
      BY <3>1 DEF Create, Inputs, NoInputs
    <3>2. CASE CutShort(f)
      <4>1. PICK left \in SUBSET logs[f] : logs' = [logs EXCEPT ![f] = left]
        BY <3>2 DEF CutShort
      <4>2. inputs' \in {inputs, [inputs EXCEPT ![f] = NoInputs]}
        BY <3>2 DEF CutShort
      <4> QED BY <4>1, <4>2 DEF Inputs, NoInputs
    <3>3. CASE CompileFun(f) \/ FuzzFun(f) \/ LoseExe(f)
      BY <3>3 DEF CompileFun, FuzzFun, LoseExe
    <3> QED BY <2>1, <3>1, <3>2, <3>3
  <2> QED BY <1>3, <2>2, <2>3, <2>4 DEF Between, CallUnchanged
<1> QED BY <1>1, <1>2, <1>3

\* A call starts, with an empty table, or stops at once.
LEMMA CallStarts ==
  ASSUME UserCall
  PROVE  /\ table' = {}
         /\ \/ /\ pc' = "pkg" /\ top' = "analyze_pkg" /\ result' = "none"
               /\ todoFun' = chosen'
            \/ /\ pc' \in {"fun", "idle"} /\ top' = "analyze_fun"
               /\ IF pc' = "fun" THEN result' = "none" ELSE cur' \notin dir'
            \/ pc' = "file" /\ top' = "analyze_file" /\ result' = "none"
            \/ /\ pc' \in {"fuzz", "idle"} /\ top' = "fuzz_analyze"
               /\ pc' = "fuzz" => result' = "none"
<1>1. CASE AnalyzePkg
  BY <1>1 DEF AnalyzePkg
<1>2. CASE AnalyzeFun
  BY <1>2 DEF AnalyzeFun, End, treeVars
<1>3. CASE AnalyzeFile
  BY <1>3 DEF AnalyzeFile
<1>4. CASE FuzzAnalyze
  BY <1>4 DEF FuzzAnalyze, End
<1> QED BY <1>1, <1>2, <1>3, <1>4 DEF UserCall

\* What steps can come next depends on what was called, and a call that runs has
\* not ended.
LEMMA CallStep ==
  ASSUME CallInv, Next
  PROVE  CallInv'
<1> USE DEF CallInv, treeVars, callVars
<1>1. CASE UserCall
  BY <1>1, CallStarts
<1>2. CASE NextFun \/ ListFiles \/ NextFile
  BY <1>2 DEF NextFun, ListFiles, NextFile, FunReturn, End
<1>3. CASE MakeLogDir \/ RunFile \/ ReadRow
  BY <1>3 DEF MakeLogDir, RunFile, ReadRow, End
<1>4. CASE RunFuzzer \/ FuzzRow
  BY <1>4 DEF RunFuzzer, FuzzRow, End
<1>5. CASE Returned \/ Between \/ Killed
  BY <1>5 DEF Returned, Between, CallUnchanged, Killed, Ready, End
<1> QED BY <1>1, <1>2, <1>3, <1>4, <1>5 DEF Next, SessionStep, Advance

\* What a run of a harness leaves to be read.
LEMMA RunStep ==
  ASSUME TypeOK, RunInv, Next
  PROVE  RunInv'
<1>1. CASE RunFile
  <2>1. /\ pc' = "read" /\ ent' = ent /\ cur' = cur /\ named' = named
        /\ inputs'[cur] = Dumped(run', ent, inputs[cur])
        /\ run'.started => ent \in logs'[cur]
    BY <1>1 DEF RunFile, TypeOK
  <2>2. /\ run'.zero \/ run'.read => run'.started /\ (named => run'.read /\ ent \in Saved)
        /\ run'.called => ent \in Saved
    BY <1>1, OutcomesTell DEF RunFile
  <2> QED BY <2>1, <2>2 DEF RunInv, Dumped
<1>2. CASE RunFuzzer
  <2>1. /\ pc' = "fuzzread" /\ cur' = cur
        /\ inputs'[cur] = Dumped(run', FuzzInputs, inputs[cur])
    BY <1>2 DEF RunFuzzer, TypeOK
  <2>2. run' = NotRun \/ (run'.started /\ run'.read)
    BY <1>2 DEF RunFuzzer
  <2> QED BY <2>1, <2>2, RunFields DEF RunInv, Dumped
<1>3. CASE UserCall
  BY <1>3, CallStarts DEF RunInv
<1>4. CASE NextFun \/ ListFiles \/ NextFile \/ MakeLogDir \/ ReadRow \/ FuzzRow
  BY <1>4 DEF NextFun, ListFiles, NextFile, FunReturn, MakeLogDir, ReadRow, FuzzRow, End,
              RunInv
<1>5. CASE Returned \/ Between \/ Killed
  BY <1>5 DEF Returned, Between, CallUnchanged, Killed, Ready, End, RunInv, treeVars
<1> QED BY <1>1, <1>2, <1>3, <1>4, <1>5 DEF Next, SessionStep, Advance

\* A step that adds no row leaves all rows true, if the name of the test that is
\* looked for stays the same.
LEMMA RowsKept ==
  ASSUME RowsWereRun, InputsOfCalled,
         table' = {} \/ (table' = table /\ named' = named)
  PROVE  RowsWereRun' /\ InputsOfCalled'
BY DEF RowsWereRun, InputsOfCalled

\* The rows of the table.
LEMMA RowStep ==
  ASSUME TypeOK, RunInv, RowsWereRun, InputsOfCalled, Next
  PROVE  RowsWereRun' /\ InputsOfCalled'
<1>1. CASE ReadRow
  <2>1. CASE table' = table
    BY <1>1, <2>1, RowsKept DEF ReadRow
  <2>2. CASE table' # table
    <3> DEFINE row == [fun |-> cur, file |-> ent, inputs |-> inputs[cur], run |-> run]
    <3>1. /\ table' = table \cup {row} /\ named' = named /\ pc = "read"
          /\ run.zero \/ run.read
      BY <1>1, <2>2 DEF ReadRow, NotAnalyzed
    <3>2. /\ row.run.started /\ row.file # 0
          /\ named => row.run.read /\ row.file \in Saved
          /\ row.run.called => row.inputs = row.file
      BY <3>1 DEF RunInv, TypeOK, Entry
    <3> HIDE DEF row
    <3> QED BY <3>1, <3>2 DEF RowsWereRun, InputsOfCalled
  <2> QED BY <2>1, <2>2
<1>2. CASE FuzzRow
  <2>1. CASE table' = table
    BY <1>2, <2>1, RowsKept DEF FuzzRow
  <2>2. CASE table' # table
    <3> DEFINE row == [fun |-> cur, file |-> 0, run |-> run,
                       inputs |-> IF listed THEN inputs[cur] ELSE NoInputs]
    <3>1. /\ table' = {row} /\ named' = named /\ pc = "fuzzread"
          /\ run.zero \/ run.read
      BY <1>2, <2>2 DEF FuzzRow, NotAnalyzed
    <3>2. /\ row.run.started /\ row.run.read /\ row.file = 0
          /\ row.run.called => row.inputs \in {FuzzInputs, NoInputs}
      BY <3>1 DEF RunInv
    <3> HIDE DEF row
    <3> QED BY <3>1, <3>2 DEF RowsWereRun, InputsOfCalled
  <2> QED BY <2>1, <2>2
<1>3. CASE UserCall
  BY <1>3, CallStarts, RowsKept
<1>4. CASE NextFun \/ ListFiles \/ NextFile \/ MakeLogDir \/ RunFile \/ RunFuzzer
  BY <1>4, RowsKept DEF NextFun, ListFiles, NextFile, MakeLogDir, RunFile, RunFuzzer
<1>5. CASE Returned \/ Between \/ Killed
  BY <1>5, RowsKept DEF Returned, Between, CallUnchanged, Killed
<1> QED BY <1>1, <1>2, <1>3, <1>4, <1>5 DEF Next, SessionStep, Advance

\* A call that stops has nothing to read.
LEMMA StopStep ==
  ASSUME CallInv, RunInv, StopsUnread, Next
  PROVE  StopsUnread'
<1> USE DEF StopsUnread, treeVars, callVars
<1>1. CASE UserCall
  BY <1>1, CallStarts
<1>2. CASE NextFun \/ ListFiles \/ NextFile
  BY <1>2 DEF NextFun, ListFiles, NextFile, FunReturn, End, CallInv
<1>3. CASE MakeLogDir \/ RunFile
  BY <1>3 DEF MakeLogDir, RunFile, End, CallInv
<1>4. CASE ReadRow
  BY <1>4 DEF ReadRow, End, CallInv, RunInv, NotAnalyzed
<1>5. CASE RunFuzzer \/ FuzzRow
  BY <1>5 DEF RunFuzzer, FuzzRow, End, CallInv
<1>6. CASE Returned \/ Between \/ Killed
  BY <1>6 DEF Returned, Between, CallUnchanged, Killed, Ready, End
<1> QED BY <1>1, <1>2, <1>3, <1>4, <1>5, <1>6 DEF Next, SessionStep, Advance

-----------------------------------------------------------------------------
(* deepstate_harness_analyze_pkg: no file that is wanted is lost.          *)

\* A step to another file, or on one, keeps what is sought.
LEMMA PkgFrame ==
  ASSUME PkgInv, top = "analyze_pkg", UNCHANGED <<max, todoFun, chosen, cur, table>>,
         pc \in {"files", "file", "run", "read"}, pc' \in {"files", "file", "run", "read"},
         chosen \subseteq Fun,
         \A f \in Fun : entries[f] \subseteq entries'[f]
                         /\ entries'[f] \cap Saved = entries[f] \cap Saved,
         Sought' = Sought, todo' \subseteq todo,
         pc' = "file" => ent' \in entries[cur]
  PROVE  PkgInv'
<1>1. \A f \in chosen : /\ entries'[f] \cap Saved = entries[f] \cap Saved
                        /\ Files(f)' = Files(f)
  BY DEF Files
<1>2. cur \in chosen \ todoFun /\ cur \in Fun
  BY DEF PkgInv
<1>3. \A f \in todoFun : Files(f)' = {}
  BY <1>1 DEF PkgInv
<1>4. ASSUME NEW f \in chosen \ todoFun, f # cur PROVE Covers(Files(f), f)'
  <2>1. Covers(Files(f), f)
    BY <1>4 DEF PkgInv
  <2>2. entries'[f] \cap Saved = entries[f] \cap Saved /\ Files(f)' = Files(f)
    BY <1>1, <1>4
  <2> QED BY <2>1, <2>2 DEF Covers
<1>5. Covers(Sought, cur)'
  BY <1>1, <1>2 DEF PkgInv, Covers
<1>6. todo' \subseteq entries'[cur] /\ (pc' = "file" => ent' \in entries'[cur])
  BY <1>2 DEF PkgInv
<1>7. todoFun' \subseteq chosen' /\ cur' \in chosen' \ todoFun'
  BY <1>2 DEF PkgInv
<1> QED BY <1>3, <1>4, <1>5, <1>6, <1>7 DEF PkgInv

LEMMA PkgStep ==
  ASSUME TypeOK, CallInv, RunInv, RowsWereRun, PkgInv, Next
  PROVE  PkgInv'
<1>0. /\ cur \in Fun /\ todoFun \subseteq Fun /\ chosen \subseteq Fun /\ ent \in Entry
      /\ max \in Nat /\ entries \in [Fun -> SUBSET Entry] /\ todo \subseteq Entry
  BY DEF TypeOK
<1> SUFFICES ASSUME top' = "analyze_pkg", pc' # "idle" PROVE PkgInv'
  BY DEF PkgInv
<1>1. CASE UserCall
  <2>1. pc' = "pkg" /\ table' = {} /\ todoFun' = chosen'
    BY <1>1, CallStarts
  <2> QED BY <2>1 DEF PkgInv, Files
<1>2. CASE NextFun
  <2>1. /\ pc = "pkg" /\ pc' = "fun" /\ cur' \in todoFun /\ todoFun' = todoFun \ {cur'}
        /\ top = "analyze_pkg" /\ UNCHANGED <<entries, max, chosen, table>>
    <3>1. todoFun # {} => Least(todoFun) \in todoFun
      BY <1>0, LeastExists DEF Fun
    <3> QED BY <1>2, <3>1 DEF NextFun, End, treeVars, callVars
  <2>2. \A f : Files(f)' = Files(f)
    BY <2>1 DEF Files
  <2>3. \A f \in chosen' \ todoFun' : f # cur' => Covers(Files(f), f)'
    BY <2>1, <2>2 DEF PkgInv, Covers
  <2>4. Files(cur)' = {} /\ (\A f \in todoFun' : Files(f)' = {})
    BY <2>1, <2>2 DEF PkgInv, Files
  <2> QED BY <2>1, <2>3, <2>4 DEF PkgInv
<1>3. CASE ListFiles
  <2>1. /\ pc = "fun" /\ top = "analyze_pkg"
        /\ UNCHANGED <<entries, max, chosen, cur, todoFun, table>>
    BY <1>3 DEF ListFiles, treeVars, callVars
  <2>2. \A f : Files(f)' = Files(f)
    BY <2>1 DEF Files
  <2>3. /\ todoFun \subseteq chosen /\ cur \in chosen \ todoFun /\ Files(cur) = {}
        /\ \A f \in todoFun : Files(f) = {}
        /\ \A f \in chosen \ todoFun : f # cur => Covers(Files(f), f)
    BY <2>1 DEF PkgInv
  <2>4. CASE entries[cur] = {}
    <3>1. pc' = "pkg"
      BY <1>3, <2>1, <2>4 DEF ListFiles, FunReturn
    <3>2. /\ entries[cur] \cap Saved = {} /\ Files(cur) \cap Saved = {}
          /\ \A n : First({}, n) = {}
      BY <2>3, <2>4 DEF First
    <3>3. Covers(Files(cur), cur)
      BY <3>2 DEF Covers
    <3> QED BY <2>1, <2>2, <2>3, <3>1, <3>3 DEF PkgInv, Covers
  <2>5. CASE entries[cur] # {}
    <3>1. pc' = "files" /\ todo' = Selected(entries[cur])
      BY <1>3, <2>5 DEF ListFiles
    <3>2. todo' \subseteq entries[cur] /\ Covers(todo', cur)
      BY <1>0, <3>1, SelectedCovers
    <3>3. Sought' = todo'
      BY <2>1, <2>2, <2>3, <3>1 DEF Sought, Files
    <3>4. Covers(Sought, cur)'
      BY <2>1, <2>2, <3>2, <3>3 DEF Covers
    <3>5. \A f \in chosen \ todoFun : f # cur => Covers(Files(f), f)'
      BY <2>1, <2>2, <2>3 DEF Covers
    <3> QED BY <2>1, <2>2, <2>3, <3>1, <3>2, <3>4, <3>5 DEF PkgInv
  <2> QED BY <2>4, <2>5
<1>4. CASE NextFile
  <2>1. /\ pc = "files" /\ top = "analyze_pkg"
        /\ UNCHANGED <<entries, max, chosen, cur, todoFun, table>>
    BY <1>4 DEF NextFile, treeVars, callVars
  <2>2. Covers(Sought, cur) /\ todo \subseteq entries[cur]
    BY <2>1 DEF PkgInv
  <2>3. CASE todo # {}
    <3>1. ent' \in todo /\ todo' = todo \ {ent'} /\ pc' = "file"
      BY <1>0, <1>4, <2>3, LeastExists, EntryOrder DEF NextFile
    <3>2. Sought' = Sought
      BY <2>1, <3>1 DEF Sought, Files
    <3> QED BY <1>0, <2>1, <2>2, <3>1, <3>2, PkgFrame
  <2>4. CASE todo = {}
    <3>1. pc' = "pkg"
      BY <1>4, <2>1, <2>4 DEF NextFile, FunReturn
    <3>2. Sought = Files(cur)
      BY <2>1, <2>4 DEF Sought
    <3>3. \A f : Files(f)' = Files(f)
      BY <2>1 DEF Files
    <3>4. \A f \in chosen \ todoFun : Covers(Files(f), f)
      BY <2>1, <2>2, <3>2 DEF PkgInv
    <3>5. \A f \in chosen' \ todoFun' : Covers(Files(f), f)'
      BY <2>1, <3>3, <3>4 DEF Covers
    <3> QED BY <2>1, <3>1, <3>3, <3>5 DEF PkgInv
  <2> QED BY <2>3, <2>4
<1>5. CASE MakeLogDir
  <2>1. /\ pc = "file" /\ top = "analyze_pkg" /\ ent' = ent /\ todo' = todo
        /\ UNCHANGED <<max, chosen, cur, todoFun, table>>
    BY <1>5 DEF MakeLogDir, callVars
  <2>2. ent \in entries[cur]
    BY <2>1 DEF PkgInv
  <2>3. /\ pc' = "run"
        /\ entries' = [entries EXCEPT ![cur] = @ \cup ({LogOf(ent)} \cap Entry)]
    BY <1>5, <2>2 DEF MakeLogDir
  <2>4. \A f \in Fun : entries[f] \subseteq entries'[f]
                        /\ entries'[f] \cap Saved = entries[f] \cap Saved
    BY <1>0, <2>3, EntryOrder
  <2>5. Sought' = Sought
    BY <2>1, <2>3 DEF Sought, Files
  <2> QED BY <1>0, <2>1, <2>3, <2>4, <2>5, PkgFrame
<1>6. CASE RunFile
  <2>1. /\ pc = "run" /\ pc' = "read" /\ top = "analyze_pkg" /\ todo' = todo
        /\ UNCHANGED <<ent, entries, max, chosen, cur, todoFun, table>>
    BY <1>6 DEF RunFile, callVars
  <2>2. Sought' = Sought
    BY <2>1 DEF Sought, Files
  <2> QED BY <1>0, <2>1, <2>2, PkgFrame
<1>7. CASE ReadRow
  <2> DEFINE row == [fun |-> cur, file |-> ent, inputs |-> inputs[cur], run |-> run]
  <2>1. /\ pc = "read" /\ pc' = "files" /\ top = "analyze_pkg" /\ todo' = todo
        /\ UNCHANGED <<ent, entries, max, chosen, cur, todoFun>>
        /\ table' = table \cup {row}
    BY <1>7 DEF ReadRow, End, callVars, treeVars
  <2>2. row.fun = cur /\ row.file = ent
    OBVIOUS
  <2> HIDE DEF row
  <2>3. \A f : f # cur => Files(f)' = Files(f)
    BY <2>1, <2>2 DEF Files
  <2>4. Files(cur)' = Files(cur) \cup {ent}
    BY <2>1, <2>2 DEF Files
  <2>5. Sought' = Sought
    BY <2>1, <2>4 DEF Sought
  <2>6. /\ todoFun \subseteq chosen /\ cur \in chosen \ todoFun
        /\ \A f \in todoFun : Files(f) = {}
        /\ \A f \in chosen \ todoFun : f # cur => Covers(Files(f), f)
        /\ Covers(Sought, cur) /\ todo \subseteq entries[cur]
    BY <2>1 DEF PkgInv
  <2>7. Covers(Sought, cur)'
    BY <2>1, <2>3, <2>5, <2>6 DEF Covers
  <2>8. ASSUME NEW f \in chosen \ todoFun, f # cur PROVE Covers(Files(f), f)'
    <3>1. Covers(Files(f), f) /\ Files(f)' = Files(f)
      BY <2>3, <2>6, <2>8
    <3> QED BY <2>1, <3>1 DEF Covers
  <2>9. \A f \in todoFun' : Files(f)' = {}
    BY <2>1, <2>3, <2>6
  <2> QED BY <2>1, <2>6, <2>7, <2>8, <2>9 DEF PkgInv
<1>8. CASE RunFuzzer \/ FuzzRow
  BY <1>8 DEF RunFuzzer, FuzzRow, CallInv, callVars
<1>9. CASE Returned \/ Between \/ Killed
  BY <1>9 DEF Returned, Between, CallUnchanged, Killed, Ready, End
<1> QED BY <1>1, <1>2, <1>3, <1>4, <1>5, <1>6, <1>7, <1>8, <1>9 DEF Next, SessionStep, Advance

LEMMA NextInv == IInv /\ [Next]_vars => IInv'
<1> SUFFICES ASSUME IInv, [Next]_vars PROVE IInv'
  OBVIOUS
<1>1. CASE Next
  <2>1. TypeOK'
    BY <1>1, UserType, SessionType, OtherType DEF IInv, Next
  <2> QED BY <1>1, <2>1, CallStep, RunStep, RowStep, StopStep, PkgStep DEF IInv
<1>2. CASE UNCHANGED vars
  <2>1. /\ TypeOK' = TypeOK /\ CallInv' = CallInv /\ RunInv' = RunInv
        /\ RowsWereRun' = RowsWereRun /\ InputsOfCalled' = InputsOfCalled
        /\ StopsUnread' = StopsUnread
    BY <1>2 DEF vars, treeVars, callVars, TypeOK, CallInv, RunInv, RowsWereRun,
                InputsOfCalled, StopsUnread
  <2>2. PkgInv' = PkgInv
    BY <1>2 DEF vars, treeVars, callVars, PkgInv, Covers, Files, Sought
  <2> QED BY <2>1, <2>2 DEF IInv
<1> QED BY <1>1, <1>2

\* What every step of the analysis preserves.
THEOREM Invariance == Spec => []IInv
  BY InitInv, NextInv, PTL DEF Spec

-----------------------------------------------------------------------------
(* The properties of Analysis.                                             *)

\* No row is of a file the harness did not read in this call, where the test it
\* is asked for is there.
THEOREM RowsOfRuns == Spec => []RowsWereRun
<1>1. IInv => RowsWereRun
  BY DEF IInv
<1> QED BY <1>1, Invariance, PTL

\* The inputs of a row are those its own run called the function with.
THEOREM InputsAreOfRun == Spec => []InputsOfCalled
<1>1. IInv => InputsOfCalled
  BY DEF IInv
<1> QED BY <1>1, Invariance, PTL

\* A test that fails or crashes does not stop the analysis.
THEOREM OnlyUnreadStops == Spec => []StopsUnread
<1>1. IInv => StopsUnread
  BY DEF IInv
<1> QED BY <1>1, Invariance, PTL

\* The analysis of a package passes over no test case: of every function it has been
\* to it has as many as asked for, and else three or all there are.
THEOREM PackageIsComplete == Spec => []FunctionsComplete
<1>1. IInv => FunctionsComplete
  BY DEF IInv, CallInv, PkgInv, FunctionsComplete
<1> QED BY <1>1, Invariance, PTL
=============================================================================
