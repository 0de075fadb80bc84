-------------------------- MODULE TestRunner_proofs --------------------------
(***************************************************************************)
(* The runner's result is true: for any number of tests and of saved test  *)
(* cases, whatever names, options and exit codes there are, the number of  *)
(* failed tests is that of the runs that failed and could be seen to.      *)
(***************************************************************************)
EXTENDS TestRunner, TLAPS

-----------------------------------------------------------------------------
(* One run of a test: what its result says of how it went.                 *)

\* The status a child that ends in the way e leaves.
ChildResult(soft, e, n) ==
    CASE e = "crash" -> Crash
      [] e = "exit" -> ExitStatus(n)
      [] OTHER -> Caught(Marked(soft, e), e = "abandon")

\* A run is not passed if, and only if, it went wrong and could be seen to.
\* Where neither a passing, failing nor crashing test's status comes back, the
\* run is lost for the modes that count failures and crashes.
LEMMA ResultTells ==
  ASSUME NEW soft \in BOOLEAN, NEW e \in End, NEW n \in Nat
  PROVE  /\ ChildResult(soft, e, n) \in 0..255
         /\ Went(soft, e, n) \in {"pass", "fail", "abandon", "crash"}
         /\ (Went(soft, e, n) # "pass") <=>
               (ChildResult(soft, e, n) # Pass \/ Unseen(soft, e, n))
         /\ Unseen(soft, e, n) => ChildResult(soft, e, n) = Pass
         /\ Lost(soft, e, n) <=> (ChildResult(soft, e, n) \notin {Pass, Fail, Crash})
<1>1. ExitStatus(n) \in 0..255 /\ ExitStatus(n) = n % 256
  BY DEF ExitStatus
<1>2. CASE e = "exit"
  BY <1>1, <1>2 DEF ChildResult, Went, Unseen, Lost, Marked, Pass, Fail, Crash
<1>3. CASE e = "abandon"
  BY <1>3 DEF ChildResult, Caught, Went, Unseen, Lost, Marked,
              Pass, Fail, Crash, Abandon
<1>4. CASE e \in {"pass", "fail", "throw", "crash"}
  BY <1>4 DEF ChildResult, Caught, Went, Unseen, Lost, Marked,
              Pass, Fail, Crash, Abandon
<1> QED BY <1>2, <1>3, <1>4 DEF End

\* A test case is saved under the name of how its run went.
LEMMA SavedTrue ==
  ASSUME NEW soft \in BOOLEAN, NEW e \in End, NEW n \in Nat
  PROVE  Saved(ChildResult(soft, e, n), e, Went(soft, e, n)) \subseteq
             {<<".pass", "pass">>, <<".fail", "fail">>,
              <<".crash", "crash">>, <<".crash", "fail">>}
<1>1. CASE e = "exit"
  <2>1. Went(soft, e, n) \in {"pass", "fail"}
    BY <1>1 DEF Went, Marked
  <2>2. ExitStatus(n) = Crash => Went(soft, e, n) = "fail"
    BY <1>1 DEF Went, Marked, Pass, Crash
  <2>3. Saved(ExitStatus(n), e, Went(soft, e, n)) \subseteq
            (IF ExitStatus(n) = Crash THEN {".crash"} ELSE {}) \X {Went(soft, e, n)}
    BY <1>1 DEF Saved, Pass, Fail, Crash
  <2> QED BY <1>1, <2>2, <2>3 DEF ChildResult
<1>2. CASE e # "exit"
  BY <1>2 DEF ChildResult, Caught, Went, Marked, Saved, End,
              Pass, Fail, Crash, Abandon
<1> QED BY <1>1, <1>2

\* The steps that run a test, forked or not, as IInv sees them: the runner goes
\* on to p or ends; if it goes on, its counts and saved test cases are true.
LEMMA RunsTest ==
  ASSUME IInv, pc # "end", NEW p, p # "end", ForkAndRunTest(p)
  PROVE  /\ failure' \in BOOLEAN /\ abandoned' \in BOOLEAN
         /\ verdict' \in 0..255 /\ dead' \subseteq dead
         /\ bad' \in Nat /\ lost' \in Nat /\ unseen' \in Nat
         /\ kept' \subseteq {<<".pass", "pass">>, <<".fail", "fail">>,
                             <<".crash", "crash">>, <<".crash", "fail">>}
         /\ \/ pc' = p /\ status' = status
            \/ pc' = "end" /\ status' \in {"exited", "killed"}
         /\ pc' = p =>
               /\ \/ verdict' = Pass /\ bad' = bad /\ unseen' = unseen
                  \/ verdict' = Pass /\ bad' = bad + 1 /\ unseen' = unseen + 1
                  \/ verdict' # Pass /\ bad' = bad + 1 /\ unseen' = unseen
               /\ dead = {} =>
                     lost' = IF verdict' \in {Pass, Fail, Crash} THEN lost ELSE lost + 1
<1> USE NumbersAssumption, FlagsAssumption, EndsAssumption
<1>0. /\ failure \in BOOLEAN /\ abandoned \in BOOLEAN /\ verdict \in 0..255
      /\ bad \in Nat /\ lost \in Nat /\ unseen \in Nat
      /\ kept \subseteq {<<".pass", "pass">>, <<".fail", "fail">>,
                         <<".crash", "crash">>, <<".crash", "fail">>}
  BY DEF IInv, TypeOK, KeptTrue
<1>1. CASE ForkedRun(p) /\ UNCHANGED dead
  <2>1. PICK soft \in BOOLEAN, e \in Ends, n \in ExitCodes :
            /\ verdict' = ChildResult(soft, e, n)
            /\ kept' = kept \cup Saved(ChildResult(soft, e, n), e, Went(soft, e, n))
            /\ Happened(Went(soft, e, n), Lost(soft, e, n), Unseen(soft, e, n))
    BY <1>1 DEF ForkedRun, ChildResult, Began
  <2>2. e \in End /\ n \in Nat
    OBVIOUS
  <2>3. failure' = FALSE /\ abandoned' = FALSE /\ pc' = p /\ status' = status
    BY <1>1 DEF ForkedRun, Began, Goto
  <2>4. kept' \subseteq {<<".pass", "pass">>, <<".fail", "fail">>,
                         <<".crash", "crash">>, <<".crash", "fail">>}
    BY <1>0, <2>1, <2>2, SavedTrue
  <2>5. bad' \in Nat /\ lost' \in Nat /\ unseen' \in Nat
    BY <1>0, <2>1 DEF Happened
  <2>6. verdict' \in 0..255
    BY <2>1, <2>2, ResultTells
  <2>7. \/ verdict' = Pass /\ bad' = bad /\ unseen' = unseen
        \/ verdict' = Pass /\ bad' = bad + 1 /\ unseen' = unseen + 1
        \/ verdict' # Pass /\ bad' = bad + 1 /\ unseen' = unseen
    BY <2>1, <2>2, ResultTells DEF Happened
  <2>8. lost' = IF verdict' \in {Pass, Fail, Crash} THEN lost ELSE lost + 1
    BY <2>1, <2>2, ResultTells DEF Happened
  <2> QED BY <1>1, <2>3, <2>4, <2>5, <2>6, <2>7, <2>8
<1>2. CASE NoForkRun(p) /\ UNCHANGED dead
  <2>1. PICK soft \in BOOLEAN, e \in Ends, n \in ExitCodes :
           /\ failure' = Began(failure, Marked(soft, e))
           /\ abandoned' = Began(abandoned, e = "abandon")
           /\ Happened(Went(soft, e, n), Lost(soft, e, n), Unseen(soft, e, n))
           /\ IF e \in {"crash", "exit"}
              THEN /\ Stop(IF e = "crash" THEN "killed" ELSE "exited")
                   /\ UNCHANGED <<verdict, kept>>
              ELSE /\ verdict' = Caught(failure', abandoned')
                   /\ kept' = kept \cup Saved(Caught(failure', abandoned'), e, Went(soft, e, n))
                   /\ IF Caught(failure', abandoned') = Fail /\ flag.abort_given
                      THEN Stop("killed") ELSE Goto(p)
    BY <1>2 DEF NoForkRun
  <2>2. e \in End /\ n \in Nat
    OBVIOUS
  <2>3. /\ failure' = Marked(soft, e) /\ abandoned' = (e = "abandon")
        /\ failure' \in BOOLEAN /\ abandoned' \in BOOLEAN
    BY <2>1 DEF Began, Marked
  <2>4. bad' \in Nat /\ lost' \in Nat /\ unseen' \in Nat
    BY <1>0, <2>1 DEF Happened
  <2>5. CASE e \in {"crash", "exit"}
    BY <1>0, <1>2, <2>1, <2>3, <2>4, <2>5 DEF Stop
  <2>6. CASE e \notin {"crash", "exit"}
    <3>1. Caught(failure', abandoned') = ChildResult(soft, e, n)
      BY <2>3, <2>6 DEF ChildResult
    <3>2. /\ verdict' = ChildResult(soft, e, n)
          /\ kept' = kept \cup Saved(ChildResult(soft, e, n), e, Went(soft, e, n))
          /\ \/ pc' = p /\ status' = status
             \/ pc' = "end" /\ status' = "killed"
      BY <2>1, <2>6, <3>1 DEF Stop, Goto
    <3>3. kept' \subseteq {<<".pass", "pass">>, <<".fail", "fail">>,
                           <<".crash", "crash">>, <<".crash", "fail">>}
      BY <1>0, <2>2, <3>2, SavedTrue
    <3>4. \/ verdict' = Pass /\ bad' = bad /\ unseen' = unseen
          \/ verdict' = Pass /\ bad' = bad + 1 /\ unseen' = unseen + 1
          \/ verdict' # Pass /\ bad' = bad + 1 /\ unseen' = unseen
      BY <2>1, <2>2, <3>2, ResultTells DEF Happened
    <3>5. lost' = IF verdict' \in {Pass, Fail, Crash} THEN lost ELSE lost + 1
      BY <2>1, <2>2, <3>2, ResultTells DEF Happened
    <3>6. verdict' \in 0..255
      BY <2>2, <3>2, ResultTells
    <3> QED BY <1>2, <2>3, <2>4, <3>2, <3>3, <3>4, <3>5, <3>6
  <2> QED BY <2>5, <2>6
<1>3. CASE NotForked(p)
  <2>1. PICK c \in Test \cup {NoTest} :
           /\ ReapAny(c)
           /\ verdict' \in IF c = NoTest THEN {Pass} ELSE {Pass, Fail, Crash, Abandon}
    BY <1>3 DEF NotForked
  <2>2. /\ Happened("none", FALSE, verdict' = Pass) /\ pc' = p /\ status' = status
        /\ UNCHANGED kept /\ failure' = FALSE /\ abandoned' = FALSE
    BY <1>3 DEF NotForked, Goto, Began
  <2>3. verdict' \in {Pass, Fail, Crash, Abandon}
    BY <2>1
  <2>4. dead' \subseteq dead /\ (dead = {} => c = NoTest)
    BY <2>1 DEF ReapAny
  <2>5. dead = {} => verdict' = Pass
    BY <2>1, <2>4
  <2>6. failure' \in BOOLEAN /\ abandoned' \in BOOLEAN
    BY <2>2
  <2>7. /\ bad' = bad + 1 /\ lost' = lost
        /\ unseen' = IF verdict' = Pass THEN unseen + 1 ELSE unseen
    BY <2>2 DEF Happened
  <2>8. /\ verdict' \in 0..255 /\ bad' \in Nat /\ lost' \in Nat /\ unseen' \in Nat
        /\ \/ verdict' = Pass /\ bad' = bad + 1 /\ unseen' = unseen + 1
           \/ verdict' # Pass /\ bad' = bad + 1 /\ unseen' = unseen
    BY <1>0, <2>3, <2>7 DEF Pass, Fail, Crash, Abandon
  <2>9. dead = {} => lost' = IF verdict' \in {Pass, Fail, Crash} THEN lost ELSE lost + 1
    BY <2>5, <2>7
  <2> QED BY <1>0, <2>2, <2>4, <2>6, <2>8, <2>9
<1> QED BY <1>1, <1>2, <1>3 DEF ForkAndRunTest

-----------------------------------------------------------------------------
(* IInv is inductive.                                                      *)

USE NumbersAssumption, FlagsAssumption, EndsAssumption

LEMMA InitInv == Init => IInv
<1> SUFFICES ASSUME Init PROVE IInv
  OBVIOUS
<1>1. flag \in Flags /\ flag.mode \in {"plain", "file", "dir", "cases"}
  BY DEF Init, Flag
<1>2. /\ flag.mode = "plain" => pc = "test"
      /\ flag.mode = "cases" => pc = "open"
      /\ flag.mode \in {"file", "dir"} => pc = "find"
  BY DEF Init
<1>3. pc \in {"test", "open", "find"}
  BY <1>1, <1>2
<1>4. TypeOK
  <2>1. /\ t = 1 /\ files = 0 /\ failure = FALSE /\ abandoned = FALSE
        /\ verdict = 0 /\ failed = 0 /\ bad = 0 /\ lost = 0 /\ unseen = 0
        /\ alive = {} /\ dead = {} /\ kept = {} /\ status = "running"
    BY DEF Init, Pass
  <2>2. t \in 1..(NTest + 1) /\ files \in 0..NFile /\ verdict \in 0..255
    BY <2>1
  <2>3. pc \in PC
    BY <1>3 DEF PC
  <2>4. failure \in BOOLEAN /\ abandoned \in BOOLEAN
    BY <2>1
  <2> QED BY <1>1, <2>1, <2>2, <2>3, <2>4 DEF TypeOK
<1>5. ModeInv
  BY <1>1, <1>2, <1>3 DEF Init, ModeInv
<1>6. CountTrue /\ CountTrueButLost /\ KeptTrue
  BY <1>3 DEF Init, CountTrue, CountTrueButLost, KeptTrue, Pending
<1> QED BY <1>4, <1>5, <1>6 DEF IInv

\* A test run by the loop over all tests leaves the counts true.
LEMMA CountedRun ==
  ASSUME IInv, flag.mode = "plain", pc # "end", NEW p \in {"filter", "test"},
         ForkAndRunTest(p), CountFailed, t' \in 1..(NTest + 1), p = "filter" => t' \in Test,
         UNCHANGED <<flag, files, alive>>
  PROVE  IInv'
<1>1. /\ status = "running" /\ flag \in Flags /\ files \in 0..NFile \cup {1}
      /\ failed \in Nat /\ alive \subseteq Test /\ dead \subseteq Test
      /\ pc # "count"
  BY DEF IInv, TypeOK, ModeInv
<1>2. bad \in Nat /\ unseen \in Nat /\ failed + unseen = bad
  BY <1>1 DEF IInv, TypeOK, CountTrue, Stopped, Pending
<1>3. /\ failure' \in BOOLEAN /\ abandoned' \in BOOLEAN
      /\ verdict' \in 0..255 /\ dead' \subseteq dead
      /\ bad' \in Nat /\ lost' \in Nat /\ unseen' \in Nat
      /\ KeptTrue'
      /\ \/ pc' = p /\ status' = "running"
         \/ pc' = "end" /\ status' \in {"exited", "killed"}
  BY <1>1, RunsTest DEF KeptTrue
<1>4. TypeOK'
  <2>1. pc' \in PC /\ status' \in {"running", "returned", "exited", "killed"}
    BY <1>3 DEF PC
  <2>2. kept' \subseteq {".pass", ".fail", ".crash"} \X {"pass", "fail", "abandon", "crash"}
    BY <1>3 DEF KeptTrue
  <2>3. failed' \in Nat
    BY <1>1 DEF CountFailed
  <2> QED BY <1>1, <1>3, <2>1, <2>2, <2>3 DEF TypeOK
<1>5. ModeInv'
  BY <1>1, <1>3 DEF ModeInv
<1>6. CountTrue'
  <2> SUFFICES ASSUME ~Stopped' PROVE failed' + Pending' + unseen' = bad'
    BY DEF CountTrue
  <2>1. pc' = p /\ pc' # "end" /\ Pending' = 0
    BY <1>3 DEF Stopped, Pending
  <2>2. \/ verdict' = Pass /\ bad' = bad /\ unseen' = unseen
        \/ verdict' = Pass /\ bad' = bad + 1 /\ unseen' = unseen + 1
        \/ verdict' # Pass /\ bad' = bad + 1 /\ unseen' = unseen
    BY <1>1, <2>1, RunsTest
  <2>3. failed' = IF verdict' # Pass THEN failed + 1 ELSE failed
    BY <2>1 DEF CountFailed
  <2> QED BY <1>1, <1>2, <2>1, <2>2, <2>3
<1>7. CountTrueButLost'
  BY DEF CountTrueButLost
<1> QED BY <1>3, <1>4, <1>5, <1>6, <1>7 DEF IInv

\* A step of the loop over all tests.
LEMMA PlainStep ==
  ASSUME IInv, Plain
  PROVE  IInv'
<1> USE DEF IInv, TypeOK, ModeInv, CountTrue, CountTrueButLost, KeptTrue,
            Flag, PC, Stopped, Pending, Test
<1>1. CASE PickTest
  BY <1>1 DEF PickTest, Goto, Stop, markVars, truthVars
<1>2. CASE RunBoring
  <2>1. flag.mode = "plain" /\ pc = "boring" /\ t \in Test
    BY <1>2 DEF RunBoring
  <2> HIDE DEF IInv
  <2> QED BY <1>2, <2>1, CountedRun DEF RunBoring
<1>3. CASE FilterTest
  BY <1>3 DEF FilterTest, Goto, markVars, truthVars
<1>4. CASE RunTest
  <2>1. flag.mode = "plain" /\ pc = "run" /\ t \in Test
    BY <1>4 DEF RunTest
  <2> HIDE DEF IInv
  <2> QED BY <1>4, <2>1, CountedRun DEF RunTest
<1>5. CASE RunDrFuzz
  <2>1. flag.mode = "plain" /\ t \in Test
    BY <1>5 DEF RunDrFuzz
  <2>2. alive' \subseteq Test /\ t' \in 1..(NTest + 1)
    <3>1. alive' = alive \cup {t} \/ alive' = alive
      BY <1>5 DEF RunDrFuzz
    <3>2. t' = t + 1 /\ t \in 1..NTest /\ alive \subseteq Test
      BY <1>5, <2>1 DEF RunDrFuzz
    <3> HIDE DEF IInv
    <3>3. t + 1 \in 1..(NTest + 1)
      BY <3>2
    <3> QED BY <3>1, <3>2, <3>3
  <2>3. pc' = "test" /\ status' = status
    BY <1>5 DEF RunDrFuzz, Goto
  <2>4. UNCHANGED <<flag, files, failure, abandoned, verdict, failed, dead, kept, bad, lost, unseen>>
    BY <1>5 DEF RunDrFuzz, markVars, truthVars
  <2> QED BY <1>5, <2>1, <2>2, <2>3, <2>4 DEF RunDrFuzz
<1>6. CASE WaitDrFuzz
  BY <1>6 DEF WaitDrFuzz, ReapAny, Stop, markVars, truthVars
<1> QED BY <1>1, <1>2, <1>3, <1>4, <1>5, <1>6 DEF Plain

\* A saved test case's run leaves the counts true, its own result pending.
LEMMA CaseRun ==
  ASSUME IInv, RunCase
  PROVE  IInv'
<1>1. /\ ForkAndRunTest("count") /\ UNCHANGED <<flag, t, files, failed, alive>>
      /\ pc = "saved"
  BY DEF RunCase
<1>2. /\ flag \in Flags /\ t \in Test /\ files \in 0..NFile \cup {1}
      /\ failed \in Nat /\ alive = {} /\ dead = {} /\ status = "running"
      /\ flag.mode \in {"file", "dir", "cases"}
      /\ flag.mode \in {"file", "dir"} /\ (flag.exit \/ flag.abort) => failed = 0
  BY <1>1 DEF IInv, TypeOK, ModeInv, Flag
<1>3. /\ failure' \in BOOLEAN /\ abandoned' \in BOOLEAN
      /\ verdict' \in 0..255 /\ dead' = {}
      /\ bad' \in Nat /\ lost' \in Nat /\ unseen' \in Nat
      /\ KeptTrue'
      /\ \/ pc' = "count" /\ status' = "running"
         \/ pc' = "end" /\ status' \in {"exited", "killed"}
  BY <1>1, <1>2, RunsTest DEF KeptTrue
<1>4. TypeOK'
  <2>1. pc' \in PC /\ status' \in {"running", "returned", "exited", "killed"}
    BY <1>3 DEF PC
  <2>2. kept' \subseteq {".pass", ".fail", ".crash"} \X {"pass", "fail", "abandon", "crash"}
    BY <1>3 DEF KeptTrue
  <2>3. t' \in 1..(NTest + 1)
    BY <1>1, <1>2 DEF Test
  <2> QED BY <1>1, <1>2, <1>3, <2>1, <2>2, <2>3 DEF TypeOK
<1>5. ModeInv'
  BY <1>1, <1>2, <1>3 DEF ModeInv
<1>6. pc' = "count" =>
          /\ \/ verdict' = Pass /\ bad' = bad /\ unseen' = unseen
             \/ verdict' = Pass /\ bad' = bad + 1 /\ unseen' = unseen + 1
             \/ verdict' # Pass /\ bad' = bad + 1 /\ unseen' = unseen
          /\ lost' = IF verdict' \in {Pass, Fail, Crash} THEN lost ELSE lost + 1
  BY <1>1, <1>2, RunsTest
<1>7. bad \in Nat /\ lost \in Nat /\ unseen \in Nat
  BY DEF IInv, TypeOK
<1>8. CountTrue'
  <2> SUFFICES ASSUME flag.mode = "cases", ~Stopped'
               PROVE  failed' + Pending' + unseen' = bad'
    BY <1>1, <1>2 DEF CountTrue
  <2>1. failed + unseen = bad
    BY <1>1, <1>2, <1>7 DEF IInv, CountTrue, Stopped, Pending
  <2>2. pc' = "count" /\ failed' = failed
    BY <1>1, <1>3 DEF Stopped
  <2>3. Pending' = IF verdict' # Pass THEN 1 ELSE 0
    BY <2>2 DEF Pending
  <2> QED BY <1>2, <1>6, <1>7, <2>1, <2>2, <2>3
<1>9. CountTrueButLost'
  <2> SUFFICES ASSUME flag.mode \in {"file", "dir"}, ~Stopped'
               PROVE  failed' + (IF pc' = "count" /\ verdict' \in {Fail, Crash} THEN 1 ELSE 0)
                          + lost' + unseen' = bad'
    BY <1>1, <1>2 DEF CountTrueButLost
  <2>1. failed + lost + unseen = bad
    BY <1>1, <1>2, <1>7 DEF IInv, CountTrueButLost, Stopped
  <2>2. pc' = "count" /\ failed' = failed
    BY <1>1, <1>3 DEF Stopped
  <2> QED BY <1>2, <1>6, <1>7, <2>1, <2>2 DEF Pass, Fail, Crash
<1> QED BY <1>3, <1>4, <1>5, <1>8, <1>9 DEF IInv

\* A step on saved test cases.
LEMMA SavedCasesStep ==
  ASSUME IInv, SavedCases
  PROVE  IInv'
<1> USE DEF IInv, TypeOK, ModeInv, CountTrue, CountTrueButLost, KeptTrue,
            Flag, PC, Stopped, Pending, Test
<1>1. CASE FindTest
  BY <1>1 DEF FindTest, Goto, Stop, markVars, truthVars
<1>2. CASE OpenCases
  BY <1>2 DEF OpenCases, Goto, Stop, markVars, truthVars
<1>3. CASE LoadCase
  <2>1. /\ flag.mode # "plain" /\ pc = "load" /\ status' = "running"
        /\ files' \in 0..NFile \cup {1}
        /\ UNCHANGED <<flag, t, failed, alive, dead, kept, failure, lost, unseen>>
    BY <1>3 DEF LoadCase, Goto, Happened, markVars, truthVars
  <2>2. \/ pc' = "saved" /\ UNCHANGED <<abandoned, verdict, bad>>
        \/ pc' = "count" /\ abandoned' = TRUE /\ verdict' = Crash /\ bad' = bad + 1
    BY <1>3 DEF LoadCase, Goto, Happened, markVars, truthVars
  <2>3. /\ flag' \in Flags /\ t' \in 1..(NTest + 1) /\ failure' \in BOOLEAN
        /\ failed' \in Nat /\ alive' \subseteq Test /\ dead' \subseteq Test
        /\ kept' \subseteq {".pass", ".fail", ".crash"} \X {"pass", "fail", "abandon", "crash"}
        /\ lost' \in Nat /\ unseen' \in Nat
    BY <2>1
  <2>4. abandoned' \in BOOLEAN /\ verdict' \in 0..255 /\ pc' \in PC
    <3>1. abandoned \in BOOLEAN /\ verdict \in 0..255
      OBVIOUS
    <3> HIDE DEF IInv, TypeOK
    <3>2. CASE pc' = "saved" /\ UNCHANGED <<abandoned, verdict>>
      BY <3>1, <3>2
    <3>3. CASE pc' = "count" /\ abandoned' = TRUE /\ verdict' = Crash
      BY <3>3 DEF Crash
    <3> QED BY <2>2, <3>2, <3>3
  <2>5. bad' \in Nat
    <3>1. bad \in Nat
      OBVIOUS
    <3> HIDE DEF IInv, TypeOK
    <3> QED BY <2>2, <3>1
  <2>6. TypeOK'
    BY <2>1, <2>3, <2>4, <2>5
  <2>7. ModeInv'
    BY <2>1, <2>2
  <2>8. KeptTrue'
    BY <2>1
  <2>9. CountTrue'
    BY <2>1, <2>2 DEF Pass, Crash
  <2>10. CountTrueButLost'
    BY <2>1, <2>2 DEF Fail, Crash
  <2> QED BY <2>6, <2>7, <2>8, <2>9, <2>10
<1>4. CASE RunCase
  BY <1>4, CaseRun
<1>5. CASE EndCases
  BY <1>5 DEF EndCases, Goto, Stop, markVars, truthVars
<1>6. CASE CountCase
  BY <1>6 DEF CountCase, CountOfCases, CountOfChosen, Goto, Stop, Pass, Fail, Crash,
              markVars, truthVars
<1> QED BY <1>1, <1>2, <1>3, <1>4, <1>5, <1>6 DEF SavedCases

LEMMA NextInv == IInv /\ [Next]_vars => IInv'
<1> SUFFICES ASSUME IInv, [Next]_vars PROVE IInv'
  OBVIOUS
<1>1. CASE Runner
  BY <1>1, PlainStep, SavedCasesStep DEF Runner
<1>2. CASE DrFuzzEnds
  BY <1>2 DEF DrFuzzEnds, IInv, TypeOK, ModeInv, CountTrue, CountTrueButLost, KeptTrue,
              Stopped, Pending, markVars, truthVars
<1>3. CASE UNCHANGED vars
  BY <1>3 DEF vars, markVars, truthVars, IInv, TypeOK, ModeInv, CountTrue,
              CountTrueButLost, KeptTrue, Stopped, Pending
<1> QED BY <1>1, <1>2, <1>3 DEF Next

\* What every step of the runner preserves.
THEOREM Invariance == Spec => []IInv
  BY InitInv, NextInv, PTL DEF Spec

-----------------------------------------------------------------------------
(* The properties of TestRunner.                                           *)

\* Over all tests, and all saved cases of all tests, the number DeepState_Run
\* returns is that of the runs that did not pass and could be seen not to.
THEOREM CountIsTrue == Spec => []CountTrue
<1>1. IInv => CountTrue
  BY DEF IInv
<1> QED BY <1>1, Invariance, PTL

\* With one file or directory it is that of the runs that failed or crashed.
THEOREM CountIsTrueButLost == Spec => []CountTrueButLost
<1>1. IInv => CountTrueButLost
  BY DEF IInv
<1> QED BY <1>1, Invariance, PTL

\* Asked to stop at a failure, the runner takes up no test case after one.
THEOREM StopsAtFailure == Spec => []StopsAtFirst
<1>1. IInv => StopsAtFirst
  BY DEF IInv, TypeOK, ModeInv, CountTrueButLost, StopsAtFirst, Stopped
<1> QED BY <1>1, Invariance, PTL

\* A saved test case's suffix says how its run went.
THEOREM KeptIsTrue == Spec => []KeptTrue
<1>1. IInv => KeptTrue
  BY DEF IInv
<1> QED BY <1>1, Invariance, PTL
=============================================================================
