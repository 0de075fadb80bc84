------------------------- MODULE HarnessBuild_proofs -------------------------
(***************************************************************************)
(* TLAPS proofs about HarnessBuild: IInv is inductive, and with it every   *)
(* safety property of the module holds for every set of functions, every   *)
(* number of source versions and every sequence of calls, user actions and *)
(* interruptions.                                                          *)
(***************************************************************************)
EXTENDS HarnessBuild, TLAPS

-----------------------------------------------------------------------------
(* Maps of maps, as the files of the tree are.                             *)

\* Changing one entry of a map of maps changes that entry only.
LEMMA NestedUpdate ==
  ASSUME NEW F, NEW S, NEW V, NEW m \in [F -> [S -> V]],
         NEW a \in F, NEW b \in S, NEW v \in V
  PROVE  /\ [m EXCEPT ![a][b] = v] \in [F -> [S -> V]]
         /\ \A h \in F, s \in S : [m EXCEPT ![a][b] = v][h][s] =
                                     IF h = a /\ s = b THEN v ELSE m[h][s]
<1>1. [m[a] EXCEPT ![b] = v] \in [S -> V]
  OBVIOUS
<1> QED BY <1>1

\* Changing one row of a map of maps changes that row only.
LEMMA RowUpdate ==
  ASSUME NEW F, NEW S, NEW V, NEW m \in [F -> [S -> V]],
         NEW a \in F, NEW row \in [S -> V]
  PROVE  /\ [m EXCEPT ![a] = row] \in [F -> [S -> V]]
         /\ \A h \in F, s \in S : [m EXCEPT ![a] = row][h][s] =
                                     IF h = a THEN row[s] ELSE m[h][s]
OBVIOUS

-----------------------------------------------------------------------------
(* What the steps that change files do to them, entry by entry; the names  *)
(* of sets stay folded here.                                               *)

\* The deletion of one file takes nothing else, and no default harness.
LEMMA CleanFileEffect ==
  ASSUME FilesInv, NEW kind \in Kind, NEW x \in Sep, CleanFile(kind, x)
  PROVE  /\ cpp' \in [Fun -> [Sep -> Text]] /\ make' \in [Fun -> [Sep -> Rules]]
         /\ obj' \in [Fun -> [Sep -> Text]] /\ exe' \in [Fun -> [Sep -> Text]]
         /\ out' \in [Fun -> SUBSET Sep]
         /\ \A h \in Fun, s \in Sep :
               /\ cpp'[h][s] \in {cpp[h][s], "none"} /\ make'[h][s] \in {make[h][s], "none"}
               /\ obj'[h][s] \in {obj[h][s], "none"} /\ exe'[h][s] \in {exe[h][s], "none"}
               /\ s = "infun" => cpp'[h][s] = cpp[h][s]
               /\ h # cur => /\ cpp'[h][s] = cpp[h][s] /\ make'[h][s] = make[h][s]
                             /\ obj'[h][s] = obj[h][s] /\ exe'[h][s] = exe[h][s]
                             /\ out'[h] = out[h]
<1>1. /\ cur \in Fun /\ "none" \in Text /\ "none" \in Rules
      /\ cpp \in [Fun -> [Sep -> Text]] /\ make \in [Fun -> [Sep -> Rules]]
      /\ obj \in [Fun -> [Sep -> Text]] /\ exe \in [Fun -> [Sep -> Text]]
      /\ out \in [Fun -> SUBSET Sep]
  BY DEF FilesInv, TypeOK, Text, Rules
<1>2. /\ cpp' \in [Fun -> [Sep -> Text]]
      /\ \A h \in Fun, s \in Sep : /\ cpp'[h][s] \in {cpp[h][s], "none"}
                                   /\ h # cur \/ s = "infun" => cpp'[h][s] = cpp[h][s]
  <2>1. CASE kind = "cpp"
    <3>1. cpp' = [cpp EXCEPT ![cur][x] = "none"] /\ x # "infun"
      BY <2>1 DEF CleanFile, Doomed
    <3>2. /\ cpp' \in [Fun -> [Sep -> Text]]
          /\ \A h \in Fun, s \in Sep :
                cpp'[h][s] = IF h = cur /\ s = x THEN "none" ELSE cpp[h][s]
      <4>1. cur \in Fun /\ "none" \in Text /\ cpp \in [Fun -> [Sep -> Text]]
        BY <1>1
      <4> QED BY <3>1, <4>1, NestedUpdate
    <3> QED BY <3>1, <3>2
  <2>2. CASE kind # "cpp"
    BY <1>1, <2>2 DEF CleanFile
  <2> QED BY <2>1, <2>2
<1>3. /\ make' \in [Fun -> [Sep -> Rules]]
      /\ \A h \in Fun, s \in Sep : /\ make'[h][s] \in {make[h][s], "none"}
                                   /\ h # cur => make'[h][s] = make[h][s]
  <2>1. CASE kind = "make"
    <3>1. make' = [make EXCEPT ![cur][x] = "none"]
      BY <2>1 DEF CleanFile
    <3>2. /\ make' \in [Fun -> [Sep -> Rules]]
          /\ \A h \in Fun, s \in Sep :
                make'[h][s] = IF h = cur /\ s = x THEN "none" ELSE make[h][s]
      <4>1. cur \in Fun /\ "none" \in Rules /\ make \in [Fun -> [Sep -> Rules]]
        BY <1>1
      <4> QED BY <3>1, <4>1, NestedUpdate
    <3> QED BY <3>2
  <2>2. CASE kind # "make"
    BY <1>1, <2>2 DEF CleanFile
  <2> QED BY <2>1, <2>2
<1>4. /\ obj' \in [Fun -> [Sep -> Text]]
      /\ \A h \in Fun, s \in Sep : /\ obj'[h][s] \in {obj[h][s], "none"}
                                   /\ h # cur => obj'[h][s] = obj[h][s]
  <2>1. CASE kind = "obj"
    <3>1. obj' = [obj EXCEPT ![cur][x] = "none"]
      BY <2>1 DEF CleanFile
    <3>2. /\ obj' \in [Fun -> [Sep -> Text]]
          /\ \A h \in Fun, s \in Sep :
                obj'[h][s] = IF h = cur /\ s = x THEN "none" ELSE obj[h][s]
      <4>1. cur \in Fun /\ "none" \in Text /\ obj \in [Fun -> [Sep -> Text]]
        BY <1>1
      <4> QED BY <3>1, <4>1, NestedUpdate
    <3> QED BY <3>2
  <2>2. CASE kind # "obj"
    BY <1>1, <2>2 DEF CleanFile
  <2> QED BY <2>1, <2>2
<1>5. /\ exe' \in [Fun -> [Sep -> Text]]
      /\ \A h \in Fun, s \in Sep : /\ exe'[h][s] \in {exe[h][s], "none"}
                                   /\ h # cur => exe'[h][s] = exe[h][s]
  <2>1. CASE kind = "exe"
    <3>1. exe' = [exe EXCEPT ![cur][x] = "none"]
      BY <2>1 DEF CleanFile
    <3>2. /\ exe' \in [Fun -> [Sep -> Text]]
          /\ \A h \in Fun, s \in Sep :
                exe'[h][s] = IF h = cur /\ s = x THEN "none" ELSE exe[h][s]
      <4>1. cur \in Fun /\ "none" \in Text /\ exe \in [Fun -> [Sep -> Text]]
        BY <1>1
      <4> QED BY <3>1, <4>1, NestedUpdate
    <3> QED BY <3>2
  <2>2. CASE kind # "exe"
    BY <1>1, <2>2 DEF CleanFile
  <2> QED BY <2>1, <2>2
<1>6. out' \in [Fun -> SUBSET Sep] /\ \A h \in Fun : h # cur => out'[h] = out[h]
  BY <1>1 DEF CleanFile
<1>7. ASSUME NEW h \in Fun, NEW s \in Sep
      PROVE  /\ cpp'[h][s] \in {cpp[h][s], "none"} /\ make'[h][s] \in {make[h][s], "none"}
             /\ obj'[h][s] \in {obj[h][s], "none"} /\ exe'[h][s] \in {exe[h][s], "none"}
             /\ s = "infun" => cpp'[h][s] = cpp[h][s]
             /\ h # cur => /\ cpp'[h][s] = cpp[h][s] /\ make'[h][s] = make[h][s]
                           /\ obj'[h][s] = obj[h][s] /\ exe'[h][s] = exe[h][s]
                           /\ out'[h] = out[h]
  <2>1. cpp'[h][s] \in {cpp[h][s], "none"} /\ (h # cur \/ s = "infun" => cpp'[h][s] = cpp[h][s])
    BY <1>2, <1>7, Zenon
  <2>2. make'[h][s] \in {make[h][s], "none"} /\ (h # cur => make'[h][s] = make[h][s])
    BY <1>3, <1>7, Zenon
  <2>3. obj'[h][s] \in {obj[h][s], "none"} /\ (h # cur => obj'[h][s] = obj[h][s])
    BY <1>4, <1>7, Zenon
  <2>4. exe'[h][s] \in {exe[h][s], "none"} /\ (h # cur => exe'[h][s] = exe[h][s])
    BY <1>5, <1>7, Zenon
  <2> QED BY <1>6, <1>7, <2>1, <2>2, <2>3, <2>4
<1>8. /\ cpp' \in [Fun -> [Sep -> Text]] /\ make' \in [Fun -> [Sep -> Rules]]
      /\ obj' \in [Fun -> [Sep -> Text]] /\ exe' \in [Fun -> [Sep -> Text]]
  BY <1>2, <1>3, <1>4, <1>5
<1> QED BY <1>6, <1>7, <1>8

\* Writing to one Makefile of the function at hand changes no other.
LEMMA MakeUpdate ==
  ASSUME FilesInv, NEW x \in Sep, NEW v \in Rules, make' = [make EXCEPT ![cur][x] = v]
  PROVE  /\ make' \in [Fun -> [Sep -> Rules]]
         /\ \A h \in Fun, s \in Sep :
               make'[h][s] = IF h = cur /\ s = x THEN v ELSE make[h][s]
<1>1. cur \in Fun /\ make \in [Fun -> [Sep -> Rules]]
  BY DEF FilesInv, TypeOK
<1> QED BY <1>1, NestedUpdate

\* A directory that is made for outputs takes none away.
LEMMA OutUpdate ==
  ASSUME FilesInv, NEW x \in Sep, out' = [out EXCEPT ![cur] = @ \cup {x}]
  PROVE  /\ out' \in [Fun -> SUBSET Sep]
         /\ \A h \in Fun : out'[h] = IF h = cur THEN out[h] \cup {x} ELSE out[h]
BY DEF FilesInv, TypeOK

\* Making or writing a text changes the harness being created only.
LEMMA TextUpdate ==
  ASSUME FilesInv, NEW v \in Text, cpp' = [cpp EXCEPT ![cur][sep] = v]
  PROVE  /\ cpp' \in [Fun -> [Sep -> Text]]
         /\ \A h \in Fun, s \in Sep :
               cpp'[h][s] = IF h = cur /\ s = sep THEN v ELSE cpp[h][s]
<1>1. cur \in Fun /\ sep \in Sep /\ cpp \in [Fun -> [Sep -> Text]]
  BY DEF FilesInv, TypeOK
<1> QED BY <1>1, NestedUpdate

\* What make leaves: all objects of the directory are gone but one, which the
\* rules of the Makefile name; of the executables only that one may have changed.
LEMMA CompileEffect ==
  ASSUME FilesInv, Compile
  PROVE  /\ obj' \in [Fun -> [Sep -> Text]] /\ exe' \in [Fun -> [Sep -> Text]]
         /\ \A h \in Fun, s \in Sep :
               /\ h # cur => obj'[h][s] = obj[h][s] /\ exe'[h][s] = exe[h][s]
               /\ obj'[cur][s] # "none" => obj'[cur][s] = cpp[cur][s] /\ make[cur][sep] = s
               /\ exe'[cur][s] # exe[cur][s] =>
                     /\ make[cur][sep] = s /\ obj'[cur][s] # "none"
                     /\ exe'[cur][s] # "none" =>
                           exe'[cur][s] = cpp[cur][s] /\ Links(cur, exe'[cur][s])
<1>1. /\ cur \in Fun /\ "none" \in Text
      /\ cpp \in [Fun -> [Sep -> Text]]
      /\ obj \in [Fun -> [Sep -> Text]] /\ exe \in [Fun -> [Sep -> Text]]
  BY DEF FilesInv, TypeOK, Text
<1>2. CASE make[cur][sep] = "empty" /\ obj' = [obj EXCEPT ![cur] = [s \in Sep |-> "none"]]
           /\ UNCHANGED exe
  <2>1. [s \in Sep |-> "none"] \in [Sep -> Text]
    BY <1>1
  <2> QED BY <1>1, <1>2, <2>1, RowUpdate
<1>3. ASSUME NEW m \in Sep, NEW o \in Text, NEW x \in Text,
             make[cur][sep] = m, Builds(m, o, x),
             obj' = [obj EXCEPT ![cur] = [s \in Sep |-> IF s = m THEN o ELSE "none"]],
             exe' = [exe EXCEPT ![cur][m] = x]
      PROVE  /\ obj' \in [Fun -> [Sep -> Text]] /\ exe' \in [Fun -> [Sep -> Text]]
             /\ \A h \in Fun, s \in Sep :
                   /\ h # cur => obj'[h][s] = obj[h][s] /\ exe'[h][s] = exe[h][s]
                   /\ obj'[cur][s] # "none" => obj'[cur][s] = cpp[cur][s] /\ make[cur][sep] = s
                   /\ exe'[cur][s] # exe[cur][s] =>
                         /\ make[cur][sep] = s /\ obj'[cur][s] # "none"
                         /\ exe'[cur][s] # "none" =>
                               exe'[cur][s] = cpp[cur][s] /\ Links(cur, exe'[cur][s])
  <2>1. [s \in Sep |-> IF s = m THEN o ELSE "none"] \in [Sep -> Text]
    BY <1>1, <1>3
  <2>2. /\ obj' \in [Fun -> [Sep -> Text]]
        /\ \A h \in Fun, s \in Sep :
              obj'[h][s] = IF h = cur THEN IF s = m THEN o ELSE "none" ELSE obj[h][s]
    BY <1>1, <1>3, <2>1, RowUpdate
  <2>3. /\ exe' \in [Fun -> [Sep -> Text]]
        /\ \A h \in Fun, s \in Sep :
              exe'[h][s] = IF h = cur /\ s = m THEN x ELSE exe[h][s]
    <3>1. cur \in Fun /\ m \in Sep /\ x \in Text /\ exe \in [Fun -> [Sep -> Text]]
      BY <1>1
    <3> QED BY <1>3, <3>1, NestedUpdate
  <2>4. /\ o # "none" => o = cpp[cur][m]
        /\ x # exe[cur][m] => o # "none" /\ (x # "none" => x = cpp[cur][m] /\ Links(cur, x))
    BY <1>3 DEF Builds
  <2> QED BY <1>1, <1>3, <2>2, <2>3, <2>4
<1> QED BY <1>2, <1>3 DEF Compile

-----------------------------------------------------------------------------
(* IInv is inductive.  From here on the names of sets, of tuples of        *)
(* variables and of the invariant's parts are expanded everywhere.         *)
USE FunAssumption, VerAssumption, EditsAssumption
    DEF pkgVars, treeVars, argVars, loopVars, Ver, PC, Top, Sep, Text, Rules,
        Working, Whole, Cleaning, Building, Fuzzing, HalfWay,
        TypeOK, TreeInv, CreateInv, WholeInv, CreatedUsable, GeneratedHasMakefile,
        OutputBeforeRun, Intact, BeingMade, Making

\* The parts of FilesInv hold in a package nobody has tested yet.
LEMMA InitFiles == Init => FilesInv
  BY DEF Init, FilesInv

\* A call of the user starts, or is refused.
LEMMA UserCallStep ==
  ASSUME FilesInv,
         \/ \E f \in Fun, t \in Whole : PkgCreate(t, f)
         \/ \E f \in Fun, s \in Sep : FunCreate(f, s)
         \/ \E f \in Fun : EditableFun(f)
         \/ \E f \in Fun, s \in Sep : CompileFun(f, s)
         \/ \E f \in Fun, s \in Sep, positive \in BOOLEAN : FuzzFun(f, s, positive)
         \/ \E f \in Fun : CompileRunStops(f)
         \/ \E f \in Fun, t \in Top, continue \in BOOLEAN : CompileSep(t, f, continue)
  PROVE  FilesInv'
<1>1. ASSUME NEW f \in Fun, NEW t \in Whole, PkgCreate(t, f) PROVE FilesInv'
  <2>1. TypeOK'
    BY <1>1 DEF FilesInv, PkgCreate, Call
  <2>2. TreeInv'
    BY <1>1 DEF FilesInv, PkgCreate, Call
  <2>3. CreateInv'
    BY <1>1 DEF FilesInv, PkgCreate, Call
  <2>4. WholeInv'
    BY <1>1 DEF FilesInv, PkgCreate, Call
  <2>5. CreatedUsable'
    BY <1>1 DEF FilesInv, PkgCreate, Call
  <2>6. GeneratedHasMakefile'
    BY <1>1 DEF FilesInv, PkgCreate, Call
  <2>7. OutputBeforeRun'
    BY <1>1 DEF FilesInv, PkgCreate, Call
  <2> QED BY <2>1, <2>2, <2>3, <2>4, <2>5, <2>6, <2>7 DEF FilesInv
<1>2. ASSUME NEW f \in Fun, NEW s \in Sep, FunCreate(f, s) PROVE FilesInv'
  <2>1. TypeOK'
    BY <1>2 DEF FilesInv, FunCreate, Call, Single
  <2>2. TreeInv'
    BY <1>2 DEF FilesInv, FunCreate, Call, Single
  <2>3. CreateInv'
    BY <1>2 DEF FilesInv, FunCreate, Call, Single
  <2>4. WholeInv'
    BY <1>2 DEF FilesInv, FunCreate, Call, Single
  <2>5. CreatedUsable'
    BY <1>2 DEF FilesInv, FunCreate, Call, Single
  <2>6. GeneratedHasMakefile'
    BY <1>2 DEF FilesInv, FunCreate, Call, Single
  <2>7. OutputBeforeRun'
    BY <1>2 DEF FilesInv, FunCreate, Call, Single
  <2> QED BY <2>1, <2>2, <2>3, <2>4, <2>5, <2>6, <2>7 DEF FilesInv
<1>3. ASSUME NEW f \in Fun, EditableFun(f) PROVE FilesInv'
  <2>1. TypeOK'
    BY <1>3 DEF FilesInv, EditableFun, Call, Single
  <2>2. TreeInv'
    BY <1>3 DEF FilesInv, EditableFun, Call, Single
  <2>3. CreateInv'
    BY <1>3 DEF FilesInv, EditableFun, Call, Single
  <2>4. WholeInv'
    BY <1>3 DEF FilesInv, EditableFun, Call, Single
  <2>5. CreatedUsable'
    BY <1>3 DEF FilesInv, EditableFun, Call, Single
  <2>6. GeneratedHasMakefile'
    BY <1>3 DEF FilesInv, EditableFun, Call, Single
  <2>7. OutputBeforeRun'
    BY <1>3 DEF FilesInv, EditableFun, Call, Single
  <2> QED BY <2>1, <2>2, <2>3, <2>4, <2>5, <2>6, <2>7 DEF FilesInv
<1>4. ASSUME NEW f \in Fun, NEW s \in Sep, CompileFun(f, s) PROVE FilesInv'
  <2>1. TypeOK'
    BY <1>4 DEF FilesInv, CompileFun, Call, Single
  <2>2. TreeInv'
    BY <1>4 DEF FilesInv, CompileFun, Call, Single
  <2>3. CreateInv'
    BY <1>4 DEF FilesInv, CompileFun, Call, Single
  <2>4. WholeInv'
    BY <1>4 DEF FilesInv, CompileFun, Call, Single
  <2>5. CreatedUsable'
    BY <1>4 DEF FilesInv, CompileFun, Call, Single
  <2>6. GeneratedHasMakefile'
    BY <1>4 DEF FilesInv, CompileFun, Call, Single
  <2>7. OutputBeforeRun'
    BY <1>4 DEF FilesInv, CompileFun, Call, Single
  <2> QED BY <2>1, <2>2, <2>3, <2>4, <2>5, <2>6, <2>7 DEF FilesInv
<1>5. ASSUME NEW f \in Fun, NEW s \in Sep, NEW positive \in BOOLEAN, FuzzFun(f, s, positive) PROVE FilesInv'
  <2>1. TypeOK'
    BY <1>5 DEF FilesInv, FuzzFun, Call, Single
  <2>2. TreeInv'
    BY <1>5 DEF FilesInv, FuzzFun, Call, Single
  <2>3. CreateInv'
    BY <1>5 DEF FilesInv, FuzzFun, Call, Single
  <2>4. WholeInv'
    BY <1>5 DEF FilesInv, FuzzFun, Call, Single
  <2>5. CreatedUsable'
    BY <1>5 DEF FilesInv, FuzzFun, Call, Single
  <2>6. GeneratedHasMakefile'
    BY <1>5 DEF FilesInv, FuzzFun, Call, Single
  <2>7. OutputBeforeRun'
    BY <1>5 DEF FilesInv, FuzzFun, Call, Single
  <2> QED BY <2>1, <2>2, <2>3, <2>4, <2>5, <2>6, <2>7 DEF FilesInv
<1>6. ASSUME NEW f \in Fun, CompileRunStops(f) PROVE FilesInv'
  <2>1. TypeOK'
    BY <1>6 DEF FilesInv, CompileRunStops, Call, Single
  <2>2. TreeInv'
    BY <1>6 DEF FilesInv, CompileRunStops, Call, Single
  <2>3. CreateInv'
    BY <1>6 DEF FilesInv, CompileRunStops, Call, Single
  <2>4. WholeInv'
    BY <1>6 DEF FilesInv, CompileRunStops, Call, Single
  <2>5. CreatedUsable'
    BY <1>6 DEF FilesInv, CompileRunStops, Call, Single
  <2>6. GeneratedHasMakefile'
    BY <1>6 DEF FilesInv, CompileRunStops, Call, Single
  <2>7. OutputBeforeRun'
    BY <1>6 DEF FilesInv, CompileRunStops, Call, Single
  <2> QED BY <2>1, <2>2, <2>3, <2>4, <2>5, <2>6, <2>7 DEF FilesInv
<1>7. ASSUME NEW f \in Fun, NEW t \in Top, NEW continue \in BOOLEAN, CompileSep(t, f, continue) PROVE FilesInv'
  <2>1. TypeOK'
    BY <1>7 DEF FilesInv, CompileSep, Call, Single, SepOf
  <2>2. TreeInv'
    BY <1>7 DEF FilesInv, CompileSep, Call, Single, SepOf
  <2>3. CreateInv'
    BY <1>7 DEF FilesInv, CompileSep, Call, Single, SepOf
  <2>4. WholeInv'
    BY <1>7 DEF FilesInv, CompileSep, Call, Single, SepOf
  <2>5. CreatedUsable'
    BY <1>7 DEF FilesInv, CompileSep, Call, Single, SepOf
  <2>6. GeneratedHasMakefile'
    BY <1>7 DEF FilesInv, CompileSep, Call, Single, SepOf
  <2>7. OutputBeforeRun'
    BY <1>7 DEF FilesInv, CompileSep, Call, Single, SepOf
  <2> QED BY <2>1, <2>2, <2>3, <2>4, <2>5, <2>6, <2>7 DEF FilesInv
<1> QED BY <1>1, <1>2, <1>3, <1>4, <1>5, <1>6, <1>7

\* A step of cleaning up or of creating a harness.
LEMMA CreateStep ==
  ASSUME FilesInv,
         \/ \E f \in Fun : NextDir(f)
         \/ \E kind \in Kind, s \in Sep : CleanFile(kind, s)
         \/ DirCleaned
         \/ MakeRun
         \/ CompileAttributes
         \/ \E f \in Fun : NextFun(f)
         \/ PkgCreated
         \/ CreateStops
         \/ CreateExisting
         \/ CreateUnsupported
         \/ CreateDir
         \/ CreateNew
         \/ BuildShared
         \/ MakeOutput
         \/ NewMakefile
         \/ WriteMakefile
  PROVE  FilesInv'
<1>1. ASSUME NEW f \in Fun, NextDir(f) PROVE FilesInv'
  <2>1. TypeOK'
    BY <1>1 DEF FilesInv, NextDir
  <2>2. TreeInv'
    BY <1>1 DEF FilesInv, NextDir
  <2>3. CreateInv'
    BY <1>1 DEF FilesInv, NextDir
  <2>4. WholeInv'
    BY <1>1 DEF FilesInv, NextDir
  <2>5. CreatedUsable'
    BY <1>1 DEF FilesInv, NextDir
  <2>6. GeneratedHasMakefile'
    BY <1>1 DEF FilesInv, NextDir
  <2>7. OutputBeforeRun'
    BY <1>1 DEF FilesInv, NextDir
  <2> QED BY <2>1, <2>2, <2>3, <2>4, <2>5, <2>6, <2>7 DEF FilesInv
<1>2. ASSUME NEW kind \in Kind, NEW s \in Sep, CleanFile(kind, s) PROVE FilesInv'
  <2>a. /\ pc = "cleandir"
        /\ UNCHANGED <<pkgVars, dir, pc, argVars, cur, sep, after, loopVars, result, torn>>
    BY <1>2 DEF CleanFile
  <2>b. /\ cpp' \in [Fun -> [Sep -> Text]] /\ make' \in [Fun -> [Sep -> Rules]]
        /\ obj' \in [Fun -> [Sep -> Text]] /\ exe' \in [Fun -> [Sep -> Text]]
        /\ out' \in [Fun -> SUBSET Sep]
        /\ \A h \in Fun, x \in Sep :
              /\ cpp'[h][x] \in {cpp[h][x], "none"} /\ make'[h][x] \in {make[h][x], "none"}
              /\ obj'[h][x] \in {obj[h][x], "none"} /\ exe'[h][x] \in {exe[h][x], "none"}
              /\ x = "infun" => cpp'[h][x] = cpp[h][x]
              /\ h # cur => /\ cpp'[h][x] = cpp[h][x] /\ make'[h][x] = make[h][x]
                            /\ obj'[h][x] = obj[h][x] /\ exe'[h][x] = exe[h][x]
                            /\ out'[h] = out[h]
    BY <1>2, CleanFileEffect
  <2>1. TypeOK'
    BY <2>a, <2>b DEF FilesInv
  <2>2. TreeInv'
    BY <2>a, <2>b DEF FilesInv
  <2>3. CreateInv'
    BY <2>a, <2>b DEF FilesInv
  <2>4. WholeInv'
    BY <2>a, <2>b DEF FilesInv
  <2>5. CreatedUsable'
    BY <2>a, <2>b DEF FilesInv
  <2>6. GeneratedHasMakefile'
    BY <2>a, <2>b DEF FilesInv
  <2>7. OutputBeforeRun'
    BY <2>a, <2>b DEF FilesInv
  <2> QED BY <2>1, <2>2, <2>3, <2>4, <2>5, <2>6, <2>7 DEF FilesInv
<1>3. ASSUME DirCleaned PROVE FilesInv'
  <2>a. /\ pc = "cleandir" /\ pc' = "clean" /\ torn' = torn \ {cur}
        /\ UNCHANGED <<pkgVars, treeVars, argVars, cur, sep, after, loopVars, result>>
    BY <1>3 DEF DirCleaned
  <2>b. \A x \in Sep : /\ x # "infun" => cpp[cur][x] = "none"
                       /\ make[cur][x] = "none" /\ obj[cur][x] = "none"
                       /\ exe[cur][x] = "none" /\ x \notin out[cur]
    BY <1>3 DEF DirCleaned, Doomed, Kind
  <2>1. TypeOK'
    BY <2>a, <2>b DEF FilesInv
  <2>2. TreeInv'
    BY <2>a, <2>b DEF FilesInv
  <2>3. CreateInv'
    BY <2>a, <2>b DEF FilesInv
  <2>4. WholeInv'
    BY <2>a, <2>b DEF FilesInv
  <2>5. CreatedUsable'
    BY <2>a, <2>b DEF FilesInv
  <2>6. GeneratedHasMakefile'
    BY <2>a, <2>b DEF FilesInv
  <2>7. OutputBeforeRun'
    BY <2>a, <2>b DEF FilesInv
  <2> QED BY <2>1, <2>2, <2>3, <2>4, <2>5, <2>6, <2>7 DEF FilesInv
<1>4. ASSUME MakeRun PROVE FilesInv'
  <2>1. TypeOK'
    BY <1>4 DEF FilesInv, MakeRun
  <2>2. TreeInv'
    BY <1>4 DEF FilesInv, MakeRun
  <2>3. CreateInv'
    BY <1>4 DEF FilesInv, MakeRun
  <2>4. WholeInv'
    BY <1>4 DEF FilesInv, MakeRun
  <2>5. CreatedUsable'
    BY <1>4 DEF FilesInv, MakeRun
  <2>6. GeneratedHasMakefile'
    BY <1>4 DEF FilesInv, MakeRun
  <2>7. OutputBeforeRun'
    BY <1>4 DEF FilesInv, MakeRun
  <2> QED BY <2>1, <2>2, <2>3, <2>4, <2>5, <2>6, <2>7 DEF FilesInv
<1>5. ASSUME CompileAttributes PROVE FilesInv'
  <2>1. TypeOK'
    BY <1>5 DEF FilesInv, CompileAttributes, End
  <2>2. TreeInv'
    BY <1>5 DEF FilesInv, CompileAttributes, End
  <2>3. CreateInv'
    BY <1>5 DEF FilesInv, CompileAttributes, End
  <2>4. WholeInv'
    BY <1>5 DEF FilesInv, CompileAttributes, End
  <2>5. CreatedUsable'
    BY <1>5 DEF FilesInv, CompileAttributes, End
  <2>6. GeneratedHasMakefile'
    BY <1>5 DEF FilesInv, CompileAttributes, End
  <2>7. OutputBeforeRun'
    BY <1>5 DEF FilesInv, CompileAttributes, End
  <2> QED BY <2>1, <2>2, <2>3, <2>4, <2>5, <2>6, <2>7 DEF FilesInv
<1>6. ASSUME NEW f \in Fun, NextFun(f) PROVE FilesInv'
  <2>1. TypeOK'
    BY <1>6 DEF FilesInv, NextFun
  <2>2. TreeInv'
    BY <1>6 DEF FilesInv, NextFun
  <2>3. CreateInv'
    BY <1>6 DEF FilesInv, NextFun
  <2>4. WholeInv'
    BY <1>6 DEF FilesInv, NextFun
  <2>5. CreatedUsable'
    BY <1>6 DEF FilesInv, NextFun
  <2>6. GeneratedHasMakefile'
    BY <1>6 DEF FilesInv, NextFun
  <2>7. OutputBeforeRun'
    BY <1>6 DEF FilesInv, NextFun
  <2> QED BY <2>1, <2>2, <2>3, <2>4, <2>5, <2>6, <2>7 DEF FilesInv
<1>7. ASSUME PkgCreated PROVE FilesInv'
  <2>1. TypeOK'
    BY <1>7 DEF FilesInv, PkgCreated, End
  <2>2. TreeInv'
    BY <1>7 DEF FilesInv, PkgCreated, End
  <2>3. CreateInv'
    BY <1>7 DEF FilesInv, PkgCreated, End
  <2>4. WholeInv'
    BY <1>7 DEF FilesInv, PkgCreated, End
  <2>5. CreatedUsable'
    BY <1>7 DEF FilesInv, PkgCreated, End
  <2>6. GeneratedHasMakefile'
    BY <1>7 DEF FilesInv, PkgCreated, End
  <2>7. OutputBeforeRun'
    BY <1>7 DEF FilesInv, PkgCreated, End
  <2> QED BY <2>1, <2>2, <2>3, <2>4, <2>5, <2>6, <2>7 DEF FilesInv
<1>8. ASSUME CreateStops PROVE FilesInv'
  <2>1. TypeOK'
    BY <1>8 DEF FilesInv, CreateStops, End
  <2>2. TreeInv'
    BY <1>8 DEF FilesInv, CreateStops, End
  <2>3. CreateInv'
    BY <1>8 DEF FilesInv, CreateStops, End
  <2>4. WholeInv'
    BY <1>8 DEF FilesInv, CreateStops, End
  <2>5. CreatedUsable'
    BY <1>8 DEF FilesInv, CreateStops, End
  <2>6. GeneratedHasMakefile'
    BY <1>8 DEF FilesInv, CreateStops, End
  <2>7. OutputBeforeRun'
    BY <1>8 DEF FilesInv, CreateStops, End
  <2> QED BY <2>1, <2>2, <2>3, <2>4, <2>5, <2>6, <2>7 DEF FilesInv
<1>9. ASSUME CreateExisting PROVE FilesInv'
  <2>1. TypeOK'
    BY <1>9 DEF FilesInv, CreateExisting
  <2>2. TreeInv'
    BY <1>9 DEF FilesInv, CreateExisting
  <2>3. CreateInv'
    BY <1>9 DEF FilesInv, CreateExisting
  <2>4. WholeInv'
    BY <1>9 DEF FilesInv, CreateExisting
  <2>5. CreatedUsable'
    BY <1>9 DEF FilesInv, CreateExisting
  <2>6. GeneratedHasMakefile'
    BY <1>9 DEF FilesInv, CreateExisting
  <2>7. OutputBeforeRun'
    BY <1>9 DEF FilesInv, CreateExisting
  <2> QED BY <2>1, <2>2, <2>3, <2>4, <2>5, <2>6, <2>7 DEF FilesInv
<1>10. ASSUME CreateUnsupported PROVE FilesInv'
  <2>1. TypeOK'
    BY <1>10 DEF FilesInv, CreateUnsupported, FunReturn, End
  <2>2. TreeInv'
    BY <1>10 DEF FilesInv, CreateUnsupported, FunReturn, End
  <2>3. CreateInv'
    BY <1>10 DEF FilesInv, CreateUnsupported, FunReturn, End
  <2>4. WholeInv'
    BY <1>10 DEF FilesInv, CreateUnsupported, FunReturn, End
  <2>5. CreatedUsable'
    BY <1>10 DEF FilesInv, CreateUnsupported, FunReturn, End
  <2>6. GeneratedHasMakefile'
    BY <1>10 DEF FilesInv, CreateUnsupported, FunReturn, End
  <2>7. OutputBeforeRun'
    BY <1>10 DEF FilesInv, CreateUnsupported, FunReturn, End
  <2> QED BY <2>1, <2>2, <2>3, <2>4, <2>5, <2>6, <2>7 DEF FilesInv
<1>11. ASSUME CreateDir PROVE FilesInv'
  <2>1. TypeOK'
    BY <1>11 DEF FilesInv, CreateDir
  <2>2. TreeInv'
    BY <1>11 DEF FilesInv, CreateDir
  <2>3. CreateInv'
    BY <1>11 DEF FilesInv, CreateDir
  <2>4. WholeInv'
    BY <1>11 DEF FilesInv, CreateDir
  <2>5. CreatedUsable'
    BY <1>11 DEF FilesInv, CreateDir
  <2>6. GeneratedHasMakefile'
    BY <1>11 DEF FilesInv, CreateDir
  <2>7. OutputBeforeRun'
    BY <1>11 DEF FilesInv, CreateDir
  <2> QED BY <2>1, <2>2, <2>3, <2>4, <2>5, <2>6, <2>7 DEF FilesInv
<1>12. ASSUME CreateNew PROVE FilesInv'
  <2>a. /\ pc = "create" /\ cpp[cur][sep] = "none" /\ cur \in dir
        /\ \/ pc' = "sepfile" /\ sep # "infun" /\ make[cur]["infun"] # "none" /\ after' = after
           \/ pc' = "makefile" /\ after' = (IF sep = "infun" THEN "write" ELSE "sepnew")
        /\ UNCHANGED <<pkgVars, dir, make, obj, exe, out, argVars, cur, sep, loopVars,
                       result, torn>>
    BY <1>12 DEF CreateNew
  <2>b. /\ cpp' \in [Fun -> [Sep -> Text]]
        /\ \A h \in Fun, x \in Sep :
              cpp'[h][x] = IF h = cur /\ x = sep THEN "empty" ELSE cpp[h][x]
    BY <1>12, TextUpdate DEF CreateNew
  <2>1. TypeOK'
    BY <2>a, <2>b DEF FilesInv
  <2>2. TreeInv'
    BY <2>a, <2>b DEF FilesInv
  <2>3. CreateInv'
    BY <2>a, <2>b DEF FilesInv
  <2>4. WholeInv'
    BY <2>a, <2>b DEF FilesInv
  <2>5. CreatedUsable'
    BY <2>a, <2>b DEF FilesInv
  <2>6. GeneratedHasMakefile'
    <3> SUFFICES ASSUME NEW h \in Fun, NEW s \in Sep \ {"infun"},
                        Intact(h)', cpp'[h][s] = "generated"
                 PROVE  make'[h][s] = s /\ s \in out'[h]
      OBVIOUS
    <3>1. Intact(h) /\ cpp[h][s] = "generated" /\ ~(h = cur /\ s = sep)
      BY <2>a, <2>b DEF FilesInv
    <3>2. make[h][s] = s /\ s \in out[h]
      BY <3>1 DEF FilesInv
    <3> QED BY <2>a, <2>b, <3>1, <3>2
  <2>7. OutputBeforeRun'
    BY <2>a, <2>b DEF FilesInv
  <2> QED BY <2>1, <2>2, <2>3, <2>4, <2>5, <2>6, <2>7 DEF FilesInv
<1>13. ASSUME BuildShared PROVE FilesInv'
  <2>1. TypeOK'
    BY <1>13 DEF FilesInv, BuildShared, End
  <2>2. TreeInv'
    BY <1>13 DEF FilesInv, BuildShared, End
  <2>3. CreateInv'
    BY <1>13 DEF FilesInv, BuildShared, End
  <2>4. WholeInv'
    BY <1>13 DEF FilesInv, BuildShared, End
  <2>5. CreatedUsable'
    BY <1>13 DEF FilesInv, BuildShared, End
  <2>6. GeneratedHasMakefile'
    BY <1>13 DEF FilesInv, BuildShared, End
  <2>7. OutputBeforeRun'
    BY <1>13 DEF FilesInv, BuildShared, End
  <2> QED BY <2>1, <2>2, <2>3, <2>4, <2>5, <2>6, <2>7 DEF FilesInv
<1>14. ASSUME MakeOutput PROVE FilesInv'
  <2>a. /\ pc = "makefile" /\ pc' = "newmake" /\ so # 0
        /\ UNCHANGED <<pkgVars, dir, cpp, make, obj, exe, argVars, cur, sep, after,
                       loopVars, result, torn>>
    BY <1>14 DEF MakeOutput
  <2>b. /\ out' \in [Fun -> SUBSET Sep]
        /\ \A h \in Fun : out'[h] = IF h = cur THEN out[h] \cup {"infun"} ELSE out[h]
    BY <1>14, OutUpdate DEF MakeOutput
  <2>1. TypeOK'
    BY <2>a, <2>b DEF FilesInv
  <2>2. TreeInv'
    <3> SUFFICES ASSUME NEW h \in Fun, NEW s \in Sep
                 PROVE  /\ h \notin dir' => /\ cpp'[h][s] = "none" /\ make'[h][s] = "none"
                                            /\ obj'[h][s] = "none" /\ exe'[h][s] = "none"
                        /\ Intact(h)' /\ make'[h][s] # "none" /\ ~BeingMade(h, s)' =>
                              make'[h][s] = s /\ s \in out'[h]
                        /\ Intact(h)' /\ obj'[h][s] # "none" => s \in out'[h]
      OBVIOUS
    <3>1. /\ h \notin dir => /\ cpp[h][s] = "none" /\ make[h][s] = "none"
                             /\ obj[h][s] = "none" /\ exe[h][s] = "none"
          /\ Intact(h) /\ make[h][s] # "none" /\ ~BeingMade(h, s) =>
                make[h][s] = s /\ s \in out[h]
          /\ Intact(h) /\ obj[h][s] # "none" => s \in out[h]
      BY DEF FilesInv
    <3> QED BY <2>a, <2>b, <3>1
  <2>3. CreateInv'
    BY <2>a, <2>b DEF FilesInv
  <2>4. WholeInv'
    BY <2>a, <2>b DEF FilesInv
  <2>5. CreatedUsable'
    <3>1. Working => \A h \in created :
            /\ h \in Fun /\ cpp[h]["infun"] # "none" /\ make[h]["infun"] = "infun"
            /\ "infun" \in out[h] /\ so # 0 /\ h # cur
      BY <2>a DEF FilesInv
    <3> QED BY <2>a, <2>b, <3>1
  <2>6. GeneratedHasMakefile'
    <3> SUFFICES ASSUME NEW h \in Fun, NEW s \in Sep \ {"infun"},
                        Intact(h)', cpp'[h][s] = "generated"
                 PROVE  make'[h][s] = s /\ s \in out'[h]
      OBVIOUS
    <3>1. Intact(h) /\ cpp[h][s] = "generated"
      BY <2>a, <2>b
    <3>2. make[h][s] = s /\ s \in out[h]
      BY <3>1 DEF FilesInv
    <3> QED BY <2>a, <2>b, <3>1, <3>2
  <2>7. OutputBeforeRun'
    BY <2>a, <2>b DEF FilesInv
  <2> QED BY <2>1, <2>2, <2>3, <2>4, <2>5, <2>6, <2>7 DEF FilesInv
<1>15. ASSUME NewMakefile PROVE FilesInv'
  <2>a. /\ pc = "newmake" /\ pc' = "rules"
        /\ UNCHANGED <<pkgVars, dir, cpp, obj, exe, out, argVars, cur, sep, after,
                       loopVars, result, torn>>
    BY <1>15 DEF NewMakefile
  <2>b. /\ make' \in [Fun -> [Sep -> Rules]]
        /\ \A h \in Fun, x \in Sep :
              make'[h][x] = IF h = cur /\ x = "infun" THEN "empty" ELSE make[h][x]
    BY <1>15, MakeUpdate DEF FilesInv, NewMakefile
  <2>1. TypeOK'
    BY <2>a, <2>b DEF FilesInv
  <2>2. TreeInv'
    BY <2>a, <2>b DEF FilesInv
  <2>3. CreateInv'
    BY <2>a, <2>b DEF FilesInv
  <2>4. WholeInv'
    BY <2>a, <2>b DEF FilesInv
  <2>5. CreatedUsable'
    <3>1. Working => \A h \in created :
            /\ h \in Fun /\ cpp[h]["infun"] # "none" /\ make[h]["infun"] = "infun"
            /\ "infun" \in out[h] /\ so # 0 /\ h # cur
      BY <2>a DEF FilesInv
    <3> QED BY <2>a, <2>b, <3>1
  <2>6. GeneratedHasMakefile'
    BY <2>a, <2>b DEF FilesInv
  <2>7. OutputBeforeRun'
    BY <2>a, <2>b DEF FilesInv
  <2> QED BY <2>1, <2>2, <2>3, <2>4, <2>5, <2>6, <2>7 DEF FilesInv
<1>16. ASSUME WriteMakefile PROVE FilesInv'
  <2>a. /\ pc = "rules"
        /\ IF after = "return" THEN FunReturn(TRUE)
           ELSE pc' = after /\ UNCHANGED <<created, sep, result>>
        /\ UNCHANGED <<pkgVars, dir, cpp, obj, exe, out, argVars, cur, after, todo, kept,
                       reported, torn>>
    BY <1>16 DEF WriteMakefile
  <2>b. /\ make' \in [Fun -> [Sep -> Rules]]
        /\ \A h \in Fun, x \in Sep :
              make'[h][x] = IF h = cur /\ x = "infun" THEN "infun" ELSE make[h][x]
    BY <1>16, MakeUpdate DEF FilesInv, WriteMakefile
  <2>1. TypeOK'
    BY <2>a, <2>b DEF FilesInv, FunReturn, End
  <2>2. TreeInv'
    BY <2>a, <2>b DEF FilesInv, FunReturn, End
  <2>3. CreateInv'
    BY <2>a, <2>b DEF FilesInv, FunReturn, End
  <2>4. WholeInv'
    BY <2>a, <2>b DEF FilesInv, FunReturn, End
  <2>5. CreatedUsable'
    BY <2>a, <2>b DEF FilesInv, FunReturn, End
  <2>6. GeneratedHasMakefile'
    BY <2>a, <2>b DEF FilesInv, FunReturn, End
  <2>7. OutputBeforeRun'
    BY <2>a, <2>b DEF FilesInv, FunReturn, End
  <2> QED BY <2>1, <2>2, <2>3, <2>4, <2>5, <2>6, <2>7 DEF FilesInv
<1> QED BY <1>1, <1>2, <1>3, <1>4, <1>5, <1>6, <1>7, <1>8, <1>9, <1>10, <1>11, <1>12, <1>13, <1>14, <1>15, <1>16

\* A step of making an editable harness, and of writing any harness's text.
LEMMA EditableStep ==
  ASSUME FilesInv,
         \/ CopyMakefile
         \/ NewSepMakefile
         \/ WriteSepMakefile
         \/ RemoveMakefile
         \/ MakeSepOutput
         \/ WriteHarness
  PROVE  FilesInv'
<1>1. ASSUME CopyMakefile PROVE FilesInv'
  <2>a. /\ pc = "sepfile" /\ pc' = "sepnew"
        /\ UNCHANGED <<pkgVars, dir, cpp, obj, exe, out, argVars, cur, sep, after,
                       loopVars, result, torn>>
    BY <1>1 DEF CopyMakefile
  <2>b. /\ make' \in [Fun -> [Sep -> Rules]]
        /\ \A h \in Fun, x \in Sep :
              ~(h = cur /\ x = sep) => make'[h][x] = make[h][x]
    <3>1. CASE make[cur][sep] = "none"
      <4>1. sep \in Sep /\ make[cur]["infun"] \in Rules
        BY DEF FilesInv
      <4>2. make' = [make EXCEPT ![cur][sep] = make[cur]["infun"]]
        BY <1>1, <3>1 DEF CopyMakefile
      <4> HIDE DEF Sep, Rules
      <4> QED BY <4>1, <4>2, MakeUpdate
    <3>2. CASE make[cur][sep] # "none"
      BY <1>1, <3>2 DEF CopyMakefile, FilesInv
    <3> QED BY <3>1, <3>2
  <2>1. TypeOK'
    BY <2>a, <2>b DEF FilesInv
  <2>2. TreeInv'
    BY <2>a, <2>b DEF FilesInv
  <2>3. CreateInv'
    BY <2>a, <2>b DEF FilesInv
  <2>4. WholeInv'
    BY <2>a, <2>b DEF FilesInv
  <2>5. CreatedUsable'
    BY <2>a, <2>b DEF FilesInv
  <2>6. GeneratedHasMakefile'
    <3> SUFFICES ASSUME NEW h \in Fun, NEW s \in Sep \ {"infun"},
                        Intact(h)', cpp'[h][s] = "generated"
                 PROVE  make'[h][s] = s /\ s \in out'[h]
      OBVIOUS
    <3>1. Intact(h) /\ cpp[h][s] = "generated" /\ ~(h = cur /\ s = sep)
      BY <2>a, <2>b DEF FilesInv
    <3>2. make[h][s] = s /\ s \in out[h]
      BY <3>1 DEF FilesInv
    <3> QED BY <2>a, <2>b, <3>1, <3>2
  <2>7. OutputBeforeRun'
    BY <2>a, <2>b DEF FilesInv
  <2> QED BY <2>1, <2>2, <2>3, <2>4, <2>5, <2>6, <2>7 DEF FilesInv
<1>2. ASSUME NewSepMakefile PROVE FilesInv'
  <2>a. /\ pc = "sepnew" /\ pc' = "seprules"
        /\ UNCHANGED <<pkgVars, dir, cpp, obj, exe, out, argVars, cur, sep, after,
                       loopVars, result, torn>>
    BY <1>2 DEF NewSepMakefile
  <2>b. /\ make' \in [Fun -> [Sep -> Rules]]
        /\ \A h \in Fun, x \in Sep :
              make'[h][x] = IF h = cur /\ x = sep THEN "empty" ELSE make[h][x]
    BY <1>2, MakeUpdate DEF FilesInv, NewSepMakefile
  <2>1. TypeOK'
    BY <2>a, <2>b DEF FilesInv
  <2>2. TreeInv'
    BY <2>a, <2>b DEF FilesInv
  <2>3. CreateInv'
    BY <2>a, <2>b DEF FilesInv
  <2>4. WholeInv'
    BY <2>a, <2>b DEF FilesInv
  <2>5. CreatedUsable'
    BY <2>a, <2>b DEF FilesInv
  <2>6. GeneratedHasMakefile'
    BY <2>a, <2>b DEF FilesInv
  <2>7. OutputBeforeRun'
    BY <2>a, <2>b DEF FilesInv
  <2> QED BY <2>1, <2>2, <2>3, <2>4, <2>5, <2>6, <2>7 DEF FilesInv
<1>3. ASSUME WriteSepMakefile PROVE FilesInv'
  <2>a. /\ pc = "seprules" /\ pc' = "sepmove"
        /\ UNCHANGED <<pkgVars, dir, cpp, obj, exe, out, argVars, cur, sep, after,
                       loopVars, result, torn>>
    BY <1>3 DEF WriteSepMakefile
  <2>b. /\ make' \in [Fun -> [Sep -> Rules]]
        /\ \A h \in Fun, x \in Sep :
              make'[h][x] = IF h = cur /\ x = sep THEN (IF make[cur]["infun"] = "infun" THEN sep ELSE "empty") ELSE make[h][x]
    BY <1>3, MakeUpdate DEF FilesInv, WriteSepMakefile
  <2>1. TypeOK'
    BY <2>a, <2>b DEF FilesInv
  <2>2. TreeInv'
    BY <2>a, <2>b DEF FilesInv
  <2>3. CreateInv'
    BY <2>a, <2>b DEF FilesInv
  <2>4. WholeInv'
    BY <2>a, <2>b DEF FilesInv
  <2>5. CreatedUsable'
    BY <2>a, <2>b DEF FilesInv
  <2>6. GeneratedHasMakefile'
    BY <2>a, <2>b DEF FilesInv
  <2>7. OutputBeforeRun'
    BY <2>a, <2>b DEF FilesInv
  <2> QED BY <2>1, <2>2, <2>3, <2>4, <2>5, <2>6, <2>7 DEF FilesInv
<1>4. ASSUME RemoveMakefile PROVE FilesInv'
  <2>a. /\ pc = "sepmove" /\ pc' = "sepout"
        /\ UNCHANGED <<pkgVars, dir, cpp, obj, exe, out, argVars, cur, sep, after,
                       loopVars, result, torn>>
    BY <1>4 DEF RemoveMakefile
  <2>b. /\ make' \in [Fun -> [Sep -> Rules]]
        /\ \A h \in Fun, x \in Sep :
              make'[h][x] = IF h = cur /\ x = "infun" THEN "none" ELSE make[h][x]
    BY <1>4, MakeUpdate DEF FilesInv, RemoveMakefile
  <2>1. TypeOK'
    BY <2>a, <2>b DEF FilesInv
  <2>2. TreeInv'
    BY <2>a, <2>b DEF FilesInv
  <2>3. CreateInv'
    BY <2>a, <2>b DEF FilesInv
  <2>4. WholeInv'
    BY <2>a, <2>b DEF FilesInv
  <2>5. CreatedUsable'
    BY <2>a, <2>b DEF FilesInv
  <2>6. GeneratedHasMakefile'
    BY <2>a, <2>b DEF FilesInv
  <2>7. OutputBeforeRun'
    BY <2>a, <2>b DEF FilesInv
  <2> QED BY <2>1, <2>2, <2>3, <2>4, <2>5, <2>6, <2>7 DEF FilesInv
<1>5. ASSUME MakeSepOutput PROVE FilesInv'
  <2>a. /\ pc = "sepout" /\ pc' = "write"
        /\ UNCHANGED <<pkgVars, dir, cpp, make, obj, exe, argVars, cur, sep, after,
                       loopVars, result, torn>>
    BY <1>5 DEF MakeSepOutput
  <2>b. /\ out' \in [Fun -> SUBSET Sep]
        /\ \A h \in Fun : out'[h] = IF h = cur THEN out[h] \cup {sep} ELSE out[h]
    <3>1. sep \in Sep /\ out' = [out EXCEPT ![cur] = @ \cup {sep}]
      BY <1>5 DEF MakeSepOutput, FilesInv
    <3> HIDE DEF Sep
    <3> QED BY <3>1, OutUpdate
  <2>1. TypeOK'
    BY <2>a, <2>b DEF FilesInv
  <2>2. TreeInv'
    BY <2>a, <2>b DEF FilesInv
  <2>3. CreateInv'
    BY <2>a, <2>b DEF FilesInv
  <2>4. WholeInv'
    BY <2>a, <2>b DEF FilesInv
  <2>5. CreatedUsable'
    BY <2>a, <2>b DEF FilesInv
  <2>6. GeneratedHasMakefile'
    <3> SUFFICES ASSUME NEW h \in Fun, NEW s \in Sep \ {"infun"},
                        Intact(h)', cpp'[h][s] = "generated"
                 PROVE  make'[h][s] = s /\ s \in out'[h]
      OBVIOUS
    <3>1. Intact(h) /\ cpp[h][s] = "generated" /\ ~(h = cur /\ s = sep)
      BY <2>a, <2>b DEF FilesInv
    <3>2. make[h][s] = s /\ s \in out[h]
      BY <3>1 DEF FilesInv
    <3> QED BY <2>a, <2>b, <3>1, <3>2
  <2>7. OutputBeforeRun'
    BY <2>a, <2>b DEF FilesInv
  <2> QED BY <2>1, <2>2, <2>3, <2>4, <2>5, <2>6, <2>7 DEF FilesInv
<1>6. ASSUME WriteHarness PROVE FilesInv'
  <2>a. /\ pc = "write"
        /\ \/ FunReturn(TRUE)
           \/ End("stop") /\ cpp' = cpp /\ UNCHANGED <<created, sep>>
        /\ UNCHANGED <<pkgVars, dir, make, obj, exe, out, argVars, cur, after, todo, kept,
                       reported, torn>>
    BY <1>6 DEF WriteHarness
  <2>b. /\ cpp' \in [Fun -> [Sep -> Text]]
        /\ \A h \in Fun, x \in Sep :
              cpp'[h][x] # cpp[h][x] => h = cur /\ x = sep /\ cpp'[h][x] = "generated"
    <3>1. CASE cpp' = [cpp EXCEPT ![cur][sep] = "generated"]
      <4>1. "generated" \in Text
        OBVIOUS
      <4>2. /\ cpp' \in [Fun -> [Sep -> Text]]
            /\ \A h \in Fun, x \in Sep :
                  cpp'[h][x] = IF h = cur /\ x = sep THEN "generated" ELSE cpp[h][x]
        <5> HIDE DEF Sep, Text
        <5> QED BY <3>1, <4>1, TextUpdate
      <4> QED BY <4>2
    <3>2. CASE cpp' = cpp
      BY <3>2 DEF FilesInv
    <3> QED BY <1>6, <3>1, <3>2 DEF WriteHarness
  <2>1. TypeOK'
    BY <2>a, <2>b DEF FilesInv, FunReturn, End
  <2>2. TreeInv'
    BY <2>a, <2>b DEF FilesInv, FunReturn, End
  <2>3. CreateInv'
    BY <2>a, <2>b DEF FilesInv, FunReturn, End
  <2>4. WholeInv'
    BY <2>a, <2>b DEF FilesInv, FunReturn, End
  <2>5. CreatedUsable'
    BY <2>a, <2>b DEF FilesInv, FunReturn, End
  <2>6. GeneratedHasMakefile'
    BY <2>a, <2>b DEF FilesInv, FunReturn, End
  <2>7. OutputBeforeRun'
    BY <2>a, <2>b DEF FilesInv, FunReturn, End
  <2> QED BY <2>1, <2>2, <2>3, <2>4, <2>5, <2>6, <2>7 DEF FilesInv
<1> QED BY <1>1, <1>2, <1>3, <1>4, <1>5, <1>6

\* A step of compiling and running.
LEMMA FuzzStep ==
  ASSUME FilesInv,
         \/ \E f \in Fun : NextFuzz(f)
         \/ CompileRunReturns
         \/ Fuzz
         \/ CompileStops
         \/ Compile
         \/ Run
  PROVE  FilesInv'
<1>1. ASSUME NEW f \in Fun, NextFuzz(f) PROVE FilesInv'
  <2>1. TypeOK'
    BY <1>1 DEF FilesInv, NextFuzz
  <2>2. TreeInv'
    BY <1>1 DEF FilesInv, NextFuzz
  <2>3. CreateInv'
    BY <1>1 DEF FilesInv, NextFuzz
  <2>4. WholeInv'
    BY <1>1 DEF FilesInv, NextFuzz
  <2>5. CreatedUsable'
    BY <1>1 DEF FilesInv, NextFuzz
  <2>6. GeneratedHasMakefile'
    BY <1>1 DEF FilesInv, NextFuzz
  <2>7. OutputBeforeRun'
    BY <1>1 DEF FilesInv, NextFuzz
  <2> QED BY <2>1, <2>2, <2>3, <2>4, <2>5, <2>6, <2>7 DEF FilesInv
<1>2. ASSUME CompileRunReturns PROVE FilesInv'
  <2>1. TypeOK'
    BY <1>2 DEF FilesInv, CompileRunReturns, End
  <2>2. TreeInv'
    BY <1>2 DEF FilesInv, CompileRunReturns, End
  <2>3. CreateInv'
    BY <1>2 DEF FilesInv, CompileRunReturns, End
  <2>4. WholeInv'
    BY <1>2 DEF FilesInv, CompileRunReturns, End
  <2>5. CreatedUsable'
    BY <1>2 DEF FilesInv, CompileRunReturns, End
  <2>6. GeneratedHasMakefile'
    BY <1>2 DEF FilesInv, CompileRunReturns, End
  <2>7. OutputBeforeRun'
    BY <1>2 DEF FilesInv, CompileRunReturns, End
  <2> QED BY <2>1, <2>2, <2>3, <2>4, <2>5, <2>6, <2>7 DEF FilesInv
<1>3. ASSUME Fuzz PROVE FilesInv'
  <2>1. TypeOK'
    BY <1>3 DEF FilesInv, Fuzz
  <2>2. TreeInv'
    BY <1>3 DEF FilesInv, Fuzz
  <2>3. CreateInv'
    BY <1>3 DEF FilesInv, Fuzz
  <2>4. WholeInv'
    BY <1>3 DEF FilesInv, Fuzz
  <2>5. CreatedUsable'
    BY <1>3 DEF FilesInv, Fuzz
  <2>6. GeneratedHasMakefile'
    BY <1>3 DEF FilesInv, Fuzz
  <2>7. OutputBeforeRun'
    BY <1>3 DEF FilesInv, Fuzz
  <2> QED BY <2>1, <2>2, <2>3, <2>4, <2>5, <2>6, <2>7 DEF FilesInv
<1>4. ASSUME CompileStops PROVE FilesInv'
  <2>1. TypeOK'
    BY <1>4 DEF FilesInv, CompileStops, End
  <2>2. TreeInv'
    BY <1>4 DEF FilesInv, CompileStops, End
  <2>3. CreateInv'
    BY <1>4 DEF FilesInv, CompileStops, End
  <2>4. WholeInv'
    BY <1>4 DEF FilesInv, CompileStops, End
  <2>5. CreatedUsable'
    BY <1>4 DEF FilesInv, CompileStops, End
  <2>6. GeneratedHasMakefile'
    BY <1>4 DEF FilesInv, CompileStops, End
  <2>7. OutputBeforeRun'
    BY <1>4 DEF FilesInv, CompileStops, End
  <2> QED BY <2>1, <2>2, <2>3, <2>4, <2>5, <2>6, <2>7 DEF FilesInv
<1>5. ASSUME Compile PROVE FilesInv'
  <2>a. /\ pc = "compile" /\ pc' \in {"idle", "run"} /\ make[cur][sep] # "none"
        /\ pc' = "idle" => result' = "value"
        /\ pc' # "idle" => result' = result
        /\ cpp[cur][sep] # "none"
        /\ UNCHANGED <<pkgVars, dir, cpp, make, out, argVars, cur, sep, after, loopVars, torn>>
    BY <1>5 DEF Compile, Compiled, End
  <2>b. /\ obj' \in [Fun -> [Sep -> Text]] /\ exe' \in [Fun -> [Sep -> Text]]
        /\ \A h \in Fun, s \in Sep :
              /\ h # cur => obj'[h][s] = obj[h][s] /\ exe'[h][s] = exe[h][s]
              /\ obj'[cur][s] # "none" => obj'[cur][s] = cpp[cur][s] /\ make[cur][sep] = s
              /\ exe'[cur][s] # exe[cur][s] =>
                    /\ make[cur][sep] = s /\ obj'[cur][s] # "none"
                    /\ exe'[cur][s] # "none" => exe'[cur][s] = cpp[cur][s]
    BY <1>5, CompileEffect
  <2>1. TypeOK'
    BY <2>a, <2>b DEF FilesInv
  <2>2. TreeInv'
    BY <2>a, <2>b DEF FilesInv
  <2>3. CreateInv'
    BY <2>a, <2>b DEF FilesInv
  <2>4. WholeInv'
    BY <2>a, <2>b DEF FilesInv
  <2>5. CreatedUsable'
    BY <2>a, <2>b DEF FilesInv
  <2>6. GeneratedHasMakefile'
    BY <2>a, <2>b DEF FilesInv
  <2>7. OutputBeforeRun'
    BY <2>a, <2>b DEF FilesInv
  <2> QED BY <2>1, <2>2, <2>3, <2>4, <2>5, <2>6, <2>7 DEF FilesInv
<1>6. ASSUME Run PROVE FilesInv'
  <2>1. TypeOK'
    BY <1>6 DEF FilesInv, Run, End
  <2>2. TreeInv'
    BY <1>6 DEF FilesInv, Run, End
  <2>3. CreateInv'
    BY <1>6 DEF FilesInv, Run, End
  <2>4. WholeInv'
    BY <1>6 DEF FilesInv, Run, End
  <2>5. CreatedUsable'
    BY <1>6 DEF FilesInv, Run, End
  <2>6. GeneratedHasMakefile'
    BY <1>6 DEF FilesInv, Run, End
  <2>7. OutputBeforeRun'
    BY <1>6 DEF FilesInv, Run, End
  <2> QED BY <2>1, <2>2, <2>3, <2>4, <2>5, <2>6, <2>7 DEF FilesInv
<1> QED BY <1>1, <1>2, <1>3, <1>4, <1>5, <1>6

\* What the user does between two calls, and an interruption.
LEMMA UserEventStep ==
  ASSUME FilesInv,
         \/ \E f \in Fun, s \in Sep, e \in Edits : EditHarness(f, s, e)
         \/ \E f \in Fun, e \in Edits : ProvideHarness(f, e)
         \/ \E f \in Fun : RemoveHarness(f)
         \/ \E v \in Ver : ChangeSource(v)
         \/ \E v \in 0..MaxVer : ChangeShared(v)
         \/ ChangeDeps
         \/ Killed
  PROVE  FilesInv'
<1>1. ASSUME NEW f \in Fun, NEW s \in Sep, NEW e \in Edits, EditHarness(f, s, e) PROVE FilesInv'
  <2>1. TypeOK'
    BY <1>1 DEF FilesInv, EditHarness, Happens, userFrame
  <2>2. TreeInv'
    BY <1>1 DEF FilesInv, EditHarness, Happens, userFrame
  <2>3. CreateInv'
    BY <1>1 DEF FilesInv, EditHarness, Happens, userFrame
  <2>4. WholeInv'
    BY <1>1 DEF FilesInv, EditHarness, Happens, userFrame
  <2>5. CreatedUsable'
    BY <1>1 DEF FilesInv, EditHarness, Happens, userFrame
  <2>6. GeneratedHasMakefile'
    BY <1>1 DEF FilesInv, EditHarness, Happens, userFrame
  <2>7. OutputBeforeRun'
    BY <1>1 DEF FilesInv, EditHarness, Happens, userFrame
  <2> QED BY <2>1, <2>2, <2>3, <2>4, <2>5, <2>6, <2>7 DEF FilesInv
<1>2. ASSUME NEW f \in Fun, NEW e \in Edits, ProvideHarness(f, e) PROVE FilesInv'
  <2>1. TypeOK'
    BY <1>2 DEF FilesInv, ProvideHarness, Happens, userFrame
  <2>2. TreeInv'
    BY <1>2 DEF FilesInv, ProvideHarness, Happens, userFrame
  <2>3. CreateInv'
    BY <1>2 DEF FilesInv, ProvideHarness, Happens, userFrame
  <2>4. WholeInv'
    BY <1>2 DEF FilesInv, ProvideHarness, Happens, userFrame
  <2>5. CreatedUsable'
    BY <1>2 DEF FilesInv, ProvideHarness, Happens, userFrame
  <2>6. GeneratedHasMakefile'
    BY <1>2 DEF FilesInv, ProvideHarness, Happens, userFrame
  <2>7. OutputBeforeRun'
    BY <1>2 DEF FilesInv, ProvideHarness, Happens, userFrame
  <2> QED BY <2>1, <2>2, <2>3, <2>4, <2>5, <2>6, <2>7 DEF FilesInv
<1>3. ASSUME NEW f \in Fun, RemoveHarness(f) PROVE FilesInv'
  <2>1. TypeOK'
    BY <1>3 DEF FilesInv, RemoveHarness, Happens, userFrame
  <2>2. TreeInv'
    BY <1>3 DEF FilesInv, RemoveHarness, Happens, userFrame
  <2>3. CreateInv'
    BY <1>3 DEF FilesInv, RemoveHarness, Happens, userFrame
  <2>4. WholeInv'
    BY <1>3 DEF FilesInv, RemoveHarness, Happens, userFrame
  <2>5. CreatedUsable'
    BY <1>3 DEF FilesInv, RemoveHarness, Happens, userFrame
  <2>6. GeneratedHasMakefile'
    BY <1>3 DEF FilesInv, RemoveHarness, Happens, userFrame
  <2>7. OutputBeforeRun'
    BY <1>3 DEF FilesInv, RemoveHarness, Happens, userFrame
  <2> QED BY <2>1, <2>2, <2>3, <2>4, <2>5, <2>6, <2>7 DEF FilesInv
<1>4. ASSUME NEW v \in Ver, ChangeSource(v) PROVE FilesInv'
  BY <1>4 DEF FilesInv, ChangeSource, Happens, userFrame
<1>5. ASSUME NEW v \in 0..MaxVer, ChangeShared(v) PROVE FilesInv'
  BY <1>5 DEF FilesInv, ChangeShared, Happens, userFrame
<1>6. ASSUME ChangeDeps PROVE FilesInv'
  BY <1>6 DEF FilesInv, ChangeDeps, Happens, userFrame
<1>7. ASSUME Killed PROVE FilesInv'
  <2>1. TypeOK'
    BY <1>7 DEF FilesInv, Killed, End
  <2>2. TreeInv'
    BY <1>7 DEF FilesInv, Killed, End
  <2>3. CreateInv'
    BY <1>7 DEF FilesInv, Killed, End
  <2>4. WholeInv'
    BY <1>7 DEF FilesInv, Killed, End
  <2>5. CreatedUsable'
    BY <1>7 DEF FilesInv, Killed, End
  <2>6. GeneratedHasMakefile'
    BY <1>7 DEF FilesInv, Killed, End
  <2>7. OutputBeforeRun'
    BY <1>7 DEF FilesInv, Killed, End
  <2> QED BY <2>1, <2>2, <2>3, <2>4, <2>5, <2>6, <2>7 DEF FilesInv
<1> QED BY <1>1, <1>2, <1>3, <1>4, <1>5, <1>6, <1>7

\* Every step preserves the inductive invariant.
LEMMA NextFiles == FilesInv /\ [Next]_vars => FilesInv'
<1> SUFFICES ASSUME FilesInv, [Next]_vars PROVE FilesInv'
  OBVIOUS
<1>1. ASSUME UserCall PROVE FilesInv'
  BY <1>1, UserCallStep DEF UserCall, PkgCreate, CompileSep
<1>2. ASSUME SessionStep PROVE FilesInv'
  BY <1>2, CreateStep, EditableStep, FuzzStep DEF SessionStep, Advance
<1>3. ASSUME UserEvent \/ Killed PROVE FilesInv'
  BY <1>3, UserEventStep DEF UserEvent
<1>4. ASSUME UNCHANGED vars PROVE FilesInv'
  BY <1>4 DEF vars, FilesInv, TypeOK, TreeInv, CreateInv, WholeInv, CreatedUsable,
              GeneratedHasMakefile, OutputBeforeRun
<1> QED BY <1>1, <1>2, <1>3, <1>4 DEF Next

\* Every call of the user starts in one of a few places, or is refused.
LEMMA CallStarts ==
  ASSUME UserCall
  PROVE  \E t \in Top, q \in {"idle", "clean", "create", "compile", "fuzz"},
            f \in Fun, s \in Sep :
               Call(t, q, f, s) /\ (t \in Whole => q \in {"idle", "clean"})
<1>1. ASSUME NEW f \in Fun, NEW t \in Top, NEW continue \in BOOLEAN, CompileSep(t, f, continue)
      PROVE  \E q \in {"idle", "fuzz"}, s \in Sep : Call(t, q, f, s) /\ t \notin Whole
  <2>1. PICK q \in {"idle", "fuzz"} : Call(t, q, f, SepOf(t))
    BY <1>1 DEF CompileSep
  <2> QED BY <1>1, <2>1 DEF CompileSep, SepOf
<1>2. CASE \E f \in Fun, t \in Whole : PkgCreate(t, f)
  BY <1>2 DEF PkgCreate
<1>3. CASE \E f \in Fun, s \in Sep : FunCreate(f, s)
  BY <1>3 DEF FunCreate
<1>4. CASE \E f \in Fun : EditableFun(f)
  BY <1>4 DEF EditableFun
<1>5. CASE \E f \in Fun, s \in Sep : CompileFun(f, s)
  BY <1>5 DEF CompileFun
<1>6. CASE \E f \in Fun, s \in Sep, positive \in BOOLEAN : FuzzFun(f, s, positive)
  BY <1>6 DEF FuzzFun
<1>7. CASE \E f \in Fun : CompileRunStops(f)
  BY <1>7 DEF CompileRunStops
<1> QED BY <1>1, <1>2, <1>3, <1>4, <1>5, <1>6, <1>7 DEF UserCall

\* Once fuzzing has started, an executable comes from a link with the shared
\* object there is, and no shared object is built.
LEMMA NextLink == FilesInv /\ LinkInv /\ [Next]_vars => LinkInv'
<1> SUFFICES ASSUME FilesInv, LinkInv, [Next]_vars, Working', pc' \in Fuzzing,
                    NEW f \in Fun \ kept', exe'[f]["infun"] = "generated"
             PROVE  so' # 0 /\ f \in Exports[so']
  BY DEF LinkInv
<1>1. CASE PkgCreated
  BY <1>1 DEF PkgCreated, End, FilesInv, WholeInv
<1>2. CASE Compile
  <2>1. top \in Whole /\ pc = "compile" /\ UNCHANGED <<so, kept>>
    BY <1>2 DEF Compile, Compiled, End
  <2>2. CASE exe'[f]["infun"] = exe[f]["infun"]
    BY <2>1, <2>2 DEF LinkInv
  <2>3. CASE exe'[f]["infun"] # exe[f]["infun"]
    <3>1. f = cur /\ Links(cur, "generated")
      BY <1>2, <2>3, CompileEffect
    <3> QED BY <2>1, <3>1 DEF Links
  <2> QED BY <2>2, <2>3
<1>3. CASE (\E h \in Fun : NextFuzz(h)) \/ Fuzz \/ Run
  BY <1>3 DEF NextFuzz, Fuzz, Run, End, LinkInv, FilesInv, WholeInv
<1>4. CASE UNCHANGED vars
  BY <1>4 DEF vars, LinkInv
<1>5. ASSUME ~PkgCreated, ~Compile, ~\E h \in Fun : NextFuzz(h), ~Fuzz, ~Run, Next
      PROVE  FALSE
  <2>1. CASE UserCall
    BY <2>1, CallStarts DEF Call
  <2>2. CASE SessionStep
    <3>1. CASE \/ \E h \in Fun : NextDir(h) \/ NextFun(h)
               \/ (\E kind \in Kind, s \in Sep : CleanFile(kind, s)) \/ DirCleaned
      BY <3>1 DEF NextDir, NextFun, CleanFile, DirCleaned
    <3>2. CASE MakeRun \/ CompileAttributes \/ CreateStops
      BY <3>2 DEF MakeRun, CompileAttributes, CreateStops, End
    <3>3. CASE CreateExisting \/ CreateUnsupported \/ CreateDir \/ CreateNew
      BY <3>3 DEF CreateExisting, CreateUnsupported, FunReturn, End, CreateDir, CreateNew
    <3>4. CASE BuildShared \/ MakeOutput \/ NewMakefile
      BY <3>4 DEF BuildShared, End, MakeOutput, NewMakefile
    <3>5. CASE WriteMakefile \/ WriteHarness
      BY <3>5 DEF WriteMakefile, WriteHarness, FunReturn, End, FilesInv
    <3>7. CASE CopyMakefile \/ NewSepMakefile \/ WriteSepMakefile
      BY <3>7 DEF CopyMakefile, NewSepMakefile, WriteSepMakefile
    <3>8. CASE RemoveMakefile \/ MakeSepOutput
      BY <3>8 DEF RemoveMakefile, MakeSepOutput
    <3>6. CASE CompileRunReturns \/ CompileStops
      BY <3>6 DEF CompileRunReturns, CompileStops, End
    <3> QED BY <1>5, <2>2, <3>1, <3>2, <3>3, <3>4, <3>5, <3>6, <3>7, <3>8
            DEF SessionStep, Advance
  <2>3. CASE UserEvent \/ Killed
    BY <2>3 DEF UserEvent, EditHarness, ProvideHarness, RemoveHarness, ChangeSource,
                ChangeShared, ChangeDeps, Happens, userFrame, Killed, End
  <2> QED BY <1>5, <2>1, <2>2, <2>3 DEF Next
<1> QED BY <1>1, <1>2, <1>3, <1>4, <1>5

LEMMA InitInv == Init => IInv
  BY InitFiles DEF Init, IInv, LinkInv

LEMMA NextInv == IInv /\ [Next]_vars => IInv'
  BY NextFiles, NextLink DEF IInv

\* IInv holds in every reachable state.
THEOREM Invariance == Spec => []IInv
  BY InitInv, NextInv, PTL DEF Spec

-----------------------------------------------------------------------------
(* The properties of HarnessBuild.                                         *)

\* Every variable keeps its type, whatever calls, edits and interruptions come.
THEOREM TypeCorrect == Spec => []TypeOK
<1>1. IInv => TypeOK
  BY DEF IInv, FilesInv
<1> QED BY <1>1, Invariance, PTL

\* What deepstate_pkg_create counts as created has its harness, Makefile,
\* output directory and shared object until the call ends.
THEOREM CreatedIsUsable == Spec => []CreatedUsable
<1>1. IInv => CreatedUsable
  BY DEF IInv, FilesInv
<1> QED BY <1>1, Invariance, PTL

\* What deepstate_harness_compile_run reports was run from the harness that is
\* there, unless the cleanup had left the directory alone.
THEOREM ReportedWasCompiled == Spec => []ReportedIsCurrent
<1>1. IInv => ReportedIsCurrent
  BY DEF IInv, FilesInv, WholeInv, ReportedIsCurrent
<1> QED BY <1>1, Invariance, PTL

\* The executable of a reported function, made from a generated harness, calls a
\* function that the package's shared object has.
THEOREM ReportedCallsFunction == Spec => []ReportedHasFunction
<1>1. IInv => ReportedHasFunction
  BY DEF IInv, FilesInv, TypeOK, WholeInv, LinkInv, ReportedHasFunction
<1> QED BY <1>1, Invariance, PTL

\* A generated editable harness always has its Makefile and output directory, but
\* in a directory a call left half way.
THEOREM GeneratedCanBeCompiled == Spec => []GeneratedHasMakefile
<1>1. IInv => GeneratedHasMakefile
  BY DEF IInv, FilesInv
<1> QED BY <1>1, Invariance, PTL

\* No harness runs without a directory to save its inputs in, but in a directory a
\* call left half way.
THEOREM RunHasOutput == Spec => []OutputBeforeRun
<1>1. IInv => OutputBeforeRun
  BY DEF IInv, FilesInv
<1> QED BY <1>1, Invariance, PTL

\* A default harness that has a text survives every call.
THEOREM HarnessSurvives == Spec => DefaultHarnessKept
<1> DEFINE Kept == pc # "idle" => \A f \in Fun :
                     cpp[f]["infun"] \notin {"none", "empty"} =>
                         cpp'[f]["infun"] = cpp[f]["infun"]
<1>1. IInv /\ [Next]_vars => [Kept]_vars
  <2> SUFFICES ASSUME IInv, Next, pc # "idle", NEW h \in Fun,
                      cpp[h]["infun"] \notin {"none", "empty"}
               PROVE  cpp'[h]["infun"] = cpp[h]["infun"]
    BY DEF vars
  <2>1. SessionStep \/ Killed
    BY DEF Next, UserCall, UserEvent, PkgCreate, FunCreate, EditableFun,
           CompileFun, FuzzFun, CompileRunStops, CompileSep, Call, EditHarness,
           ProvideHarness, RemoveHarness, ChangeSource, ChangeShared,
           ChangeDeps, Happens
  <2>2. ASSUME NEW kind \in Kind, NEW s \in Sep, CleanFile(kind, s)
        PROVE  cpp'[h]["infun"] = cpp[h]["infun"]
    BY <2>2, CleanFileEffect DEF IInv
  <2>3. ASSUME NEW v \in Text, cpp' = [cpp EXCEPT ![cur][sep] = v],
               cpp[cur][sep] \in {"none", "empty"}
        PROVE  cpp'[h]["infun"] = cpp[h]["infun"]
    BY <2>3 DEF IInv, FilesInv
  <2>4. CASE CreateNew
    BY <2>3, <2>4 DEF CreateNew
  <2>5. CASE WriteHarness
    <3>1. cpp[cur][sep] = "empty"
      BY <2>5 DEF IInv, FilesInv, WriteHarness
    <3> QED BY <2>3, <2>5, <3>1 DEF WriteHarness
  <2>6. ASSUME ~ \E kind \in Kind, s \in Sep : CleanFile(kind, s), ~CreateNew, ~WriteHarness
        PROVE  cpp' = cpp
    BY <2>1, <2>6 DEF SessionStep, Advance, NextDir, DirCleaned, MakeRun,
       CompileAttributes, NextFun, PkgCreated, CreateStops, CreateExisting,
       CreateUnsupported, CreateDir, BuildShared, MakeOutput, NewMakefile, WriteMakefile,
       CopyMakefile, NewSepMakefile, WriteSepMakefile, RemoveMakefile, MakeSepOutput,
       NextFuzz, CompileRunReturns, Fuzz, CompileStops, Compile, Compiled, Run, Killed
  <2> QED BY <2>2, <2>4, <2>5, <2>6
<1> QED BY <1>1, Invariance, PTL DEF Spec, DefaultHarnessKept

-----------------------------------------------------------------------------
(* HarnessBuild implements HarnessTree.                                    *)

\* Compiling touches one row of the objects and executables, and an executable only
\* where there is an object afterwards.
LEMMA CompileRows ==
  ASSUME FilesInv, Compile
  PROVE  /\ \A h \in Fun \ {cur} : obj'[h] = obj[h] /\ exe'[h] = exe[h]
         /\ exe'[cur]["infun"] # exe[cur]["infun"] => obj'[cur]["infun"] # "none"
<1>1. exe'[cur]["infun"] # exe[cur]["infun"] => obj'[cur]["infun"] # "none"
  BY CompileEffect DEF FilesInv
<1>2. \A h \in Fun \ {cur} : obj'[h] = obj[h] /\ exe'[h] = exe[h]
  BY DEF Compile, FilesInv
<1> QED BY <1>1, <1>2

\* A step takes the default harnesses' objects and executables through a step of
\* HarnessTree: only the cleanup, a new harness and the compiler touch them.
LEMMA TreeStep == FilesInv /\ [Next]_vars => [Tree!Next]_(Tree!vars)
<1> SUFFICES ASSUME FilesInv, [Next]_vars PROVE [Tree!Next]_(Tree!vars)
  OBVIOUS
<1> USE DEF Tree!vars, Tree!Next, Objects, Executables
<1>0. /\ cur \in Fun /\ sep \in Sep /\ dir \subseteq Fun
      /\ obj \in [Fun -> [Sep -> Text]] /\ exe \in [Fun -> [Sep -> Text]]
  BY DEF FilesInv, TypeOK
<1>1. ASSUME NEW kind \in Kind, NEW s \in Sep, CleanFile(kind, s)
      PROVE  [Tree!Next]_(Tree!vars)
  <2>1. \A h \in Fun : /\ obj'[h]["infun"] \in {obj[h]["infun"], "none"}
                       /\ exe'[h]["infun"] \in {exe[h]["infun"], "none"}
                       /\ h # cur => /\ obj'[h]["infun"] = obj[h]["infun"]
                                     /\ exe'[h]["infun"] = exe[h]["infun"]
    BY <1>1, CleanFileEffect
  <2>2. /\ Objects' \in {Objects, Objects \ {cur}}
        /\ Executables' \in {Executables, Executables \ {cur}}
    <3>1. Objects' = IF obj'[cur]["infun"] = obj[cur]["infun"] THEN Objects ELSE Objects \ {cur}
      BY <1>0, <2>1
    <3>2. Executables' = IF exe'[cur]["infun"] = exe[cur]["infun"] THEN Executables
                                                                 ELSE Executables \ {cur}
      BY <1>0, <2>1
    <3> QED BY <3>1, <3>2
  <2>3. dir' = dir
    BY <1>1 DEF CleanFile
  <2> QED BY <1>0, <2>2, <2>3 DEF Tree!Unlink
<1>2. ASSUME NEW f \in Fun, dir' = dir \cup {f}, UNCHANGED <<obj, exe>>
      PROVE  [Tree!Next]_(Tree!vars)
  <2>1. Objects' = Objects /\ Executables' = Executables
    BY <1>2
  <2>2. f \notin dir => f \notin Objects /\ f \notin Executables
    BY DEF FilesInv, TreeInv
  <2> QED BY <1>2, <2>1, <2>2 DEF Tree!Create
<1>3. CASE Compile
  <2>1. dir' = dir /\ cpp[cur][sep] # "none"
    BY <1>3 DEF Compile, Compiled
  <2>2. cur \in dir
    BY <1>0, <2>1 DEF FilesInv
  <2>3. /\ \A h \in Fun \ {cur} : obj'[h] = obj[h] /\ exe'[h] = exe[h]
        /\ exe'[cur]["infun"] # exe[cur]["infun"] => obj'[cur]["infun"] # "none"
    BY <1>0, <1>3, CompileRows
  <2>4. CASE obj'[cur]["infun"] # "none"
    <3>1. Objects' = Objects \cup {cur}
      BY <1>0, <2>3, <2>4
    <3>2. Executables' \in {Executables \ {cur}, Executables \cup {cur}}
      BY <1>0, <2>3
    <3> QED BY <1>0, <2>1, <2>2, <3>1, <3>2 DEF Tree!Compile
  <2>5. CASE obj'[cur]["infun"] = "none"
    <3>1. Objects' = Objects \ {cur}
      BY <1>0, <2>3, <2>5
    <3>2. Executables' = Executables
      BY <2>3, <2>5
    <3> QED BY <1>0, <2>1, <2>2, <3>1, <3>2 DEF Tree!Compile
  <2> QED BY <2>4, <2>5
<1>4. CASE CreateDir
  BY <1>0, <1>2, <1>4 DEF CreateDir
<1>5. CASE \E f \in Fun, e \in Edits : ProvideHarness(f, e)
  BY <1>2, <1>5 DEF ProvideHarness
<1>6. CASE UNCHANGED <<dir, obj, exe>>
  BY <1>6
<1>7. CASE UserCall
  BY <1>6, <1>7, CallStarts DEF Call
<1>8. CASE SessionStep
  <2>1. CASE MakeRun \/ CompileAttributes \/ (\E f \in Fun : NextFun(f)) \/ PkgCreated
    BY <1>6, <2>1 DEF MakeRun, CompileAttributes, NextFun, PkgCreated
  <2>2. CASE CreateStops \/ CreateExisting \/ CreateUnsupported \/ CreateNew \/ BuildShared
    BY <1>6, <2>2 DEF CreateStops, CreateExisting, CreateUnsupported, CreateNew, BuildShared
  <2>3. CASE MakeOutput \/ NewMakefile \/ WriteMakefile \/ WriteHarness
    BY <1>6, <2>3 DEF MakeOutput, NewMakefile, WriteMakefile, WriteHarness
  <2>4. CASE \/ CopyMakefile \/ NewSepMakefile \/ WriteSepMakefile \/ RemoveMakefile
             \/ MakeSepOutput
    BY <1>6, <2>4 DEF CopyMakefile, NewSepMakefile, WriteSepMakefile, RemoveMakefile,
                      MakeSepOutput
  <2>5. CASE (\E f \in Fun : NextFuzz(f)) \/ CompileRunReturns \/ Fuzz \/ CompileStops \/ Run
    BY <1>6, <2>5 DEF NextFuzz, CompileRunReturns, Fuzz, CompileStops, Run
  <2>6. CASE (\E f \in Fun : NextDir(f)) \/ DirCleaned
    BY <1>6, <2>6 DEF NextDir, DirCleaned
  <2> QED BY <1>1, <1>3, <1>4, <1>8, <2>1, <2>2, <2>3, <2>4, <2>5, <2>6 DEF SessionStep, Advance
<1>9. CASE UserEvent \/ Killed
  BY <1>5, <1>6, <1>9 DEF UserEvent, EditHarness, RemoveHarness, ChangeSource,
     ChangeShared, ChangeDeps, Killed
<1>10. CASE UNCHANGED vars
  BY <1>6, <1>10 DEF vars
<1> QED BY <1>7, <1>8, <1>9, <1>10 DEF Next

\* What Analysis rests on: the calls of the build side change the objects and
\* executables it looks at as HarnessTree says, and in no other way.
THEOREM ImplementsTree == Spec => TreeKept
<1>1. Init => Tree!Init
  BY DEF Init, Tree!Init, Objects, Executables
<1>2. IInv /\ [Next]_vars => [Tree!Next]_(Tree!vars)
  BY TreeStep DEF IInv
<1> QED BY <1>1, <1>2, Invariance, PTL DEF Spec, TreeKept, Tree!Spec

-----------------------------------------------------------------------------
(* HarnessBuild implements HarnessFiles.                                   *)

\* A step that changes no text either leaves the mode and the harness that is
\* being made alone, ends the cleanup, or ends the call.
LEMMA FilesQuiet ==
  ASSUME cpp' = cpp,
         \/ Mode' = Mode /\ Made' = Made
         \/ Mode = "cleaning" /\ Mode' = "working" /\ Made' = Made
         \/ Mode # "user" /\ Mode' = "user" /\ Made' = {}
  PROVE  [Files!Next]_(Files!vars)
BY DEF Files!vars, Files!Next, Files!CleanedUp, Files!EndCall

LEMMA FilesIdle ==
  ASSUME pc # "idle", pc' = "idle", cpp' = cpp
  PROVE  [Files!Next]_(Files!vars)
<1>1. Mode # "user" /\ Mode' = "user" /\ Made' = {}
  BY DEF Mode, Made, Making
<1> QED BY <1>1, FilesQuiet

\* Nothing is being made, before and after, in a call that goes on.
LEMMA FilesNone ==
  ASSUME cpp' = cpp, pc \in PC \ ({"idle"} \cup Cleaning),
         pc' \in PC \ ({"idle"} \cup Cleaning), ~Making, ~Making'
  PROVE  [Files!Next]_(Files!vars)
<1>1. Mode = "working" /\ Mode' = "working" /\ Made = {} /\ Made' = {}
  BY DEF Mode, Made
<1> QED BY <1>1, FilesQuiet

\* The same harness is being made, before and after.
LEMMA FilesSame ==
  ASSUME cpp' = cpp, Making, Making', UNCHANGED <<cur, sep>>
  PROVE  [Files!Next]_(Files!vars)
<1>1. Mode = "working" /\ Mode' = "working" /\ Made' = Made
  BY DEF Mode, Made, Making
<1> QED BY <1>1, FilesQuiet

\* A step of the call that is under way.
LEMMA FilesSession ==
  ASSUME FilesInv, SessionStep
  PROVE  [Files!Next]_(Files!vars)
<1>0. /\ cur \in Fun /\ sep \in Sep /\ after \in {"return", "sepnew", "write"}
      /\ cpp \in [Fun -> [Sep -> Text]] /\ pc \in PC
  BY DEF FilesInv, TypeOK
<1>1. ASSUME NEW kind \in Kind, NEW s \in Sep, CleanFile(kind, s)
      PROVE  [Files!Next]_(Files!vars)
  <2>1. pc = "cleandir" /\ pc' = "cleandir"
    BY <1>1 DEF CleanFile
  <2>2. Mode = "cleaning" /\ Mode' = "cleaning" /\ Made = {} /\ Made' = {}
    BY <2>1 DEF Mode, Made
  <2>3. CASE kind = "cpp"
    <3>1. cpp' = [cpp EXCEPT ![cur][s] = "none"] /\ s # "infun"
      BY <1>1, <2>3 DEF CleanFile, Doomed
    <3>2. cpp[cur]["infun"] # "none"
      BY <2>1 DEF FilesInv
    <3> QED BY <1>0, <2>2, <3>1, <3>2 DEF Files!Next, Files!CleanUp
  <2>4. CASE kind # "cpp"
    BY <1>1, <2>2, <2>4, FilesQuiet DEF CleanFile
  <2> QED BY <2>3, <2>4
<1>14. CASE (\E f \in Fun : NextDir(f)) \/ DirCleaned
  <2>1. pc \in Cleaning /\ pc' \in Cleaning /\ cpp' = cpp
    BY <1>14 DEF NextDir, DirCleaned
  <2>2. Mode = "cleaning" /\ Mode' = "cleaning" /\ Made = {} /\ Made' = {}
    BY <2>1 DEF Mode, Made
  <2> QED BY <2>1, <2>2, FilesQuiet
<1>2. CASE MakeRun
  <2>1. Mode = "cleaning" /\ Mode' = "working" /\ Made = {} /\ Made' = {} /\ cpp' = cpp
    BY <1>2 DEF MakeRun, Mode, Made, Making
  <2> QED BY <2>1, FilesQuiet
<1>3. CASE CompileAttributes \/ PkgCreated \/ \E f \in Fun : NextFun(f)
  <2>1. /\ pc \in {"library", "loop"} /\ pc' \in {"idle", "loop", "fuzzloop", "create"}
        /\ cpp' = cpp
    BY <1>3 DEF CompileAttributes, PkgCreated, NextFun, End
  <2> QED BY <2>1, FilesIdle, FilesNone DEF Making
<1>4. CASE CreateStops
  BY <1>4, FilesIdle DEF CreateStops, End
<1>5. CASE CreateExisting \/ CreateDir
  BY <1>5, FilesNone DEF CreateExisting, CreateDir
<1>6. CASE CreateUnsupported
  <2>1. pc = "create" /\ pc' \in {"idle", "loop", "create"} /\ cpp' = cpp
    BY <1>6 DEF CreateUnsupported, FunReturn, End
  <2> QED BY <2>1, FilesIdle, FilesNone DEF Making
<1>7. CASE CreateNew
  <2>1. /\ pc = "create" /\ cpp[cur][sep] = "none"
        /\ pc' = "sepfile" \/ (pc' = "makefile" /\ after' # "return")
        /\ cpp' = [cpp EXCEPT ![cur][sep] = "empty"] /\ UNCHANGED <<cur, sep>>
    BY <1>7 DEF CreateNew
  <2>2. /\ Mode = "working" /\ Mode' = "working"
        /\ Made = {} /\ Made' = {<<cur, sep>>}
    BY <2>1 DEF Mode, Made, Making
  <2> QED BY <1>0, <2>1, <2>2 DEF Files!Next, Files!Make
<1>8. CASE BuildShared
  <2>1. CASE pc' = "idle"
    BY <1>8, <2>1, FilesIdle DEF BuildShared
  <2>2. CASE pc' # "idle"
    <3>1. pc = "makefile" /\ UNCHANGED <<cpp, pc, after, cur, sep>>
      BY <1>8, <2>2 DEF BuildShared, End
    <3> QED BY <3>1, FilesNone, FilesSame DEF Making
  <2> QED BY <2>1, <2>2
<1>9. CASE MakeOutput \/ NewMakefile
  <2>1. /\ pc \in {"makefile", "newmake"} /\ pc' \in {"newmake", "rules"}
        /\ UNCHANGED <<cpp, after, cur, sep>>
    BY <1>9 DEF MakeOutput, NewMakefile
  <2> QED BY <2>1, FilesNone, FilesSame
<1>10. CASE WriteMakefile
  <2>1. CASE after = "return"
    <3>1. pc = "rules" /\ pc' \in {"idle", "loop", "create"} /\ cpp' = cpp
      BY <1>10, <2>1 DEF WriteMakefile, FunReturn, End
    <3> QED BY <2>1, <3>1, FilesIdle, FilesNone
  <2>2. CASE after # "return"
    <3>1. /\ pc = "rules" /\ pc' \in {"sepnew", "write"}
          /\ UNCHANGED <<cpp, cur, sep>>
      BY <1>0, <1>10, <2>2 DEF WriteMakefile
    <3> QED BY <2>2, <3>1, FilesSame
  <2> QED BY <2>1, <2>2
<1>15. CASE \/ CopyMakefile \/ NewSepMakefile \/ WriteSepMakefile \/ RemoveMakefile
            \/ MakeSepOutput
  <2>1. Making /\ Making' /\ UNCHANGED <<cpp, cur, sep>>
    BY <1>15 DEF CopyMakefile, NewSepMakefile, WriteSepMakefile, RemoveMakefile,
                 MakeSepOutput
  <2> QED BY <2>1, FilesSame
<1>11. CASE WriteHarness
  <2>1. CASE cur \in Listed
    <3>1. /\ pc = "write" /\ pc' \in {"idle", "loop", "create"}
          /\ cpp' = [cpp EXCEPT ![cur][sep] = "generated"]
      BY <1>11, <2>1 DEF WriteHarness, FunReturn, End
    <3>2. Made = {<<cur, sep>>} /\ Made' = {} /\ Mode' \in {"working", "user"}
      BY <3>1 DEF Mode, Made, Making
    <3> QED BY <1>0, <3>1, <3>2 DEF Files!Next, Files!Write
  <2>2. CASE cur \notin Listed
    BY <1>11, <2>2, FilesIdle DEF WriteHarness, End
  <2> QED BY <2>1, <2>2
<1>12. CASE (\E f \in Fun : NextFuzz(f)) \/ Fuzz \/ CompileRunReturns \/ CompileStops
  <2>1. /\ pc \in {"fuzzloop", "fuzz", "compile"}
        /\ pc' \in {"idle", "fuzz", "compile", "run"} /\ cpp' = cpp
    BY <1>12 DEF NextFuzz, Fuzz, CompileRunReturns, CompileStops, End
  <2> QED BY <2>1, FilesIdle, FilesNone DEF Making
<1>13. CASE Compile \/ Run
  <2>1. /\ pc \in {"compile", "run"} /\ pc' \in {"idle", "run", "fuzzloop"}
        /\ cpp' = cpp
    BY <1>13 DEF Compile, Compiled, Run, End
  <2> QED BY <2>1, FilesIdle, FilesNone DEF Making
<1> QED BY <1>1, <1>2, <1>3, <1>4, <1>5, <1>6, <1>7, <1>8, <1>9, <1>10, <1>11, <1>12,
           <1>13, <1>14, <1>15 DEF SessionStep, Advance

\* A step of the user, who calls or changes the files, and an interruption.
LEMMA FilesUser ==
  ASSUME FilesInv, UserCall \/ UserEvent \/ Killed
  PROVE  [Files!Next]_(Files!vars)
<1>1. CASE UserCall
  <2>1. /\ pc = "idle" /\ pc' \in {"idle", "clean", "create", "compile", "fuzz"}
        /\ cpp' = cpp
    BY <1>1, CallStarts DEF Call
  <2>2. Mode = "user" /\ Made = {} /\ Made' = {}
    BY <2>1 DEF Mode, Made, Making
  <2>3. CASE pc' = "idle"
    <3>1. Mode' = "user"
      BY <2>3 DEF Mode
    <3> QED BY <2>1, <2>2, <3>1, FilesQuiet
  <2>4. CASE pc' # "idle"
    <3>1. Mode' \in {"cleaning", "working"}
      BY <2>1, <2>4 DEF Mode
    <3> QED BY <2>1, <2>2, <3>1 DEF Files!Next, Files!BeginCall
  <2> QED BY <2>3, <2>4
<1>2. CASE UserEvent
  <2>1. pc = "idle" /\ pc' = pc
    BY <1>2 DEF UserEvent, EditHarness, ProvideHarness, RemoveHarness, ChangeSource,
                ChangeShared, ChangeDeps, Happens, userFrame
  <2>2. Mode = "user" /\ Mode' = "user" /\ Made = {} /\ Made' = {}
    BY <2>1 DEF Mode, Made, Making
  <2>3. ASSUME NEW f \in Fun, NEW s \in Sep, NEW e \in Edits \cup {"none"},
               cpp' = [cpp EXCEPT ![f][s] = e]
        PROVE  [Files!Next]_(Files!vars)
    BY <2>2, <2>3 DEF Files!Next, Files!UserWrites
  <2>4. CASE cpp' = cpp
    BY <2>2, <2>4, FilesQuiet
  <2> QED BY <1>2, <2>3, <2>4 DEF UserEvent, EditHarness, ProvideHarness, RemoveHarness,
             ChangeSource, ChangeShared, ChangeDeps
<1>3. CASE Killed
  BY <1>3, FilesIdle DEF Killed, End
<1> QED BY <1>1, <1>2, <1>3

\* The harness files belong to the user: whatever calls, failures, interruptions
\* and edits come, the calls treat them as HarnessFiles promises.
THEOREM ImplementsFiles == Spec => FilesKept
<1>1. Init => Files!Init
  BY DEF Init, Files!Init, Mode, Made, Making
<1>2. IInv /\ [Next]_vars => [Files!Next]_(Files!vars)
  <2> SUFFICES ASSUME IInv, [Next]_vars PROVE [Files!Next]_(Files!vars)
    OBVIOUS
  <2>1. CASE UNCHANGED vars
    <3>1. cpp' = cpp /\ Mode' = Mode /\ Made' = Made
      BY <2>1 DEF vars, Mode, Made, Making
    <3> QED BY <3>1, FilesQuiet
  <2> QED BY <2>1, FilesSession, FilesUser DEF IInv, Next
<1> QED BY <1>1, <1>2, Invariance, PTL DEF Spec, FilesKept, Files!Spec
=============================================================================
