---------------------------- MODULE FixturesProofs ----------------------------
(***************************************************************************)
(* Theorems about Fixtures, for any sessions, any number of tests and of   *)
(* exceptions.  What they need of the tables is TableAssumption, which TLC *)
(* evaluates.                                                              *)
(***************************************************************************)
EXTENDS Fixtures, TLAPS

\* The rows of a session.
SessionRows ==
    [scope : Scopes, auto : BOOLEAN, needs : SUBSET Names, setup : Seq(Steps), undo : Seq(Steps)]
RowsInv ==
    /\ DOMAIN rows \subseteq Names
    /\ \A f \in DOMAIN rows : rows[f] \in SessionRows

LEMMA InitialRows ==
    ASSUME NEW s \in Suites
    PROVE  /\ DOMAIN RowsFor(s) \subseteq Names
           /\ \A f \in DOMAIN RowsFor(s) : RowsFor(s)[f] \in SessionRows
  <1> DEFINE table == [f \in Names |->
            IF s.mode = "destructive" /\ f \in DOMAIN DestructiveRows THEN DestructiveRows[f]
            ELSE Table[f]]
             needs == [f \in Names |-> table[f].needs \cup WayOf(table[f], s.param).asks]
             autouse == {f \in Names : table[f].auto}
             asked == Closure(autouse \cup UNION s.tests, needs)
  <1>1. \A f \in Names : table[f] \in Rows /\ table[f].ways # << >>
    BY TableAssumption DEF Names
  <1>2. \A f \in Names : WayOf(table[f], s.param) \in Ways
    <2> SUFFICES ASSUME NEW f \in Names  PROVE WayOf(table[f], s.param) \in Ways
      OBVIOUS
    <2>1. table[f].ways \in Seq(Ways) /\ table[f].ways # << >>
      BY <1>1 DEF Rows
    <2> QED  BY <2>1 DEF WayOf
  <1> HIDE DEF table
  <1>3. asked \subseteq Names
    BY DEF Closure
  <1>4. RowsFor(s) = [f \in asked |->
           [scope |-> table[f].scope, auto |-> table[f].auto, needs |-> needs[f],
            setup |-> WayOf(table[f], s.param).setup, undo |-> WayOf(table[f], s.param).undo]]
    BY DEF RowsFor, table
  <1> HIDE DEF asked
  <1>5. ASSUME NEW f \in asked  PROVE RowsFor(s)[f] \in SessionRows
    <2>1. f \in Names /\ needs[f] = table[f].needs \cup WayOf(table[f], s.param).asks
      BY <1>3
    <2>2. table[f] \in Rows /\ WayOf(table[f], s.param) \in Ways
      BY <1>1, <1>2, <2>1
    <2> HIDE DEF needs
    <2>3. /\ table[f].scope \in Scopes /\ table[f].auto \in BOOLEAN
          /\ needs[f] \subseteq Names
          /\ WayOf(table[f], s.param).setup \in Seq(Steps)
          /\ WayOf(table[f], s.param).undo \in Seq(Steps)
      BY <2>1, <2>2 DEF Rows, Ways
    <2> QED  BY <1>4, <2>3 DEF SessionRows
  <1> QED  BY <1>3, <1>4, <1>5

-----------------------------------------------------------------------------
(***************************************************************************)
(* The types.                                                              *)
(***************************************************************************)
Values == DOMAIN rows \cup {Found}
ThingTypes ==
    /\ has \cup held \cup clean \cup rough \subseteq (DOMAIN rows) \X STRING
    /\ \A k \in DOMAIN value : value[k] \in DOMAIN rows
    /\ \A x \in DOMAIN saved : saved[x] \in Values
    /\ \A k \in DOMAIN copy : copy[k] \in Values
PytestTypes ==
    /\ suite \in Suites
    /\ phase \in {"idle", "setup", "ran", "teardown", "over"}
    /\ wanted \subseteq DOMAIN rows
    /\ up \in [Scopes -> Seq(DOMAIN rows)]
    /\ broken \subseteq DOMAIN rows /\ failed \subseteq DOMAIN rows
    /\ doing \in DOMAIN rows \cup {NoFixture} /\ step \in Nat \ {0}
    /\ due \in Endings \cup {{}}
    /\ tests \in 0..MaxTests /\ failures \in 0..MaxFailures
TypeInv == RowsInv /\ PytestTypes /\ ThingTypes

LEMMA InitTypeInv == Init => TypeInv
  <1> SUFFICES ASSUME Init  PROVE TypeInv
    OBVIOUS
  <1>1. RowsInv
    BY InitialRows DEF Init, RowsInv
  <1>2. PytestTypes
    BY BoundsAssumption DEF Init, PytestTypes
  <1>3. ThingTypes
    BY DEF Init, ThingTypes
  <1> QED  BY <1>1, <1>2, <1>3 DEF TypeInv

LEMMA StepsOfARow ==
    ASSUME RowsInv, NEW f \in DOMAIN rows, NEW n \in Nat \ {0}
    PROVE  /\ Setup(f) \in Seq(Steps) /\ Undo(f) \in Seq(Steps)
           /\ n <= Len(Setup(f)) => Setup(f)[n] \in Steps
           /\ n <= Len(Undo(f)) => Undo(f)[n] \in Steps
           /\ Scope(f) \in Scopes /\ Needs(f) \subseteq Names
  BY DEF RowsInv, SessionRows, Setup, Undo, Scope, Needs

\* The values of a function that is extended, or restricted.
LEMMA WithValues ==
    ASSUME NEW S, NEW f, NEW x, NEW v \in S, \A y \in DOMAIN f : f[y] \in S
    PROVE  \A y \in DOMAIN With(f, x, v) : With(f, x, v)[y] \in S
  BY DEF With

LEMMA WithoutValues ==
    ASSUME NEW S, NEW f, NEW X, \A y \in DOMAIN f : f[y] \in S
    PROVE  \A y \in DOMAIN Without(f, X) : Without(f, X)[y] \in S
  BY DEF Without

LEMMA AssignValues ==
    ASSUME ThingTypes, NEW k, NEW v \in Values
    PROVE  \A y \in DOMAIN Assign(k, v) : Assign(k, v)[y] \in DOMAIN rows
  <1>1. CASE v = Found
    BY <1>1, WithoutValues DEF Assign, ThingTypes
  <1>2. CASE v # Found
    <2>1. v \in DOMAIN rows
      BY <1>2 DEF Values
    <2> QED  BY <1>2, <2>1, WithValues DEF Assign, ThingTypes
  <1> QED  BY <1>1, <1>2

LEMMA PerformKeepsTypes ==
    ASSUME ThingTypes, NEW f \in DOMAIN rows, NEW s \in Steps, Perform(f, s), rows' = rows
    PROVE  ThingTypes'
  <1> USE DEF ThingTypes, thingVars, settingVars
  <1>0. s.what \in STRING
    BY DEF Steps
  <1>v. \A k : Value(k) \in Values
    BY DEF Value, Values
  <1>1. CASE UNCHANGED <<thingVars, settingVars>>
    BY <1>1 DEF Values
  <1>2. CASE Acquire(f, s)
    BY <1>0, <1>2 DEF Acquire, Values
  <1>3. CASE Enter(f, s)
    BY <1>0, <1>3 DEF Enter, Values
  <1>4. CASE TearHostDown(f, s)
    BY <1>0, <1>4 DEF TearHostDown, Values
  <1>5. CASE Delete(f, s)
    BY <1>0, <1>5 DEF Delete, Values
  <1>6. CASE GiveBack(f, s)
    <2>1. \A k \in DOMAIN value' : value'[k] \in DOMAIN rows
      BY <1>6, WithoutValues DEF GiveBack
    <2>2. has' \cup held' \cup clean' \cup rough' \subseteq (DOMAIN rows) \X STRING
      BY <1>0, <1>6 DEF GiveBack
    <2>3. \A k \in DOMAIN copy' : copy'[k] \in Values
      BY <1>6, WithoutValues DEF GiveBack
    <2> QED  BY <1>6, <2>1, <2>2, <2>3 DEF GiveBack, Values
  <1>7. CASE Write(f, s)
    <2>1. \A k \in DOMAIN value' : value'[k] \in DOMAIN rows
      BY <1>7, AssignValues DEF Write, Values
    <2>2. \A x \in DOMAIN saved' : saved'[x] \in Values
      BY <1>7, <1>v, WithValues DEF Write
    <2> QED  BY <1>7, <2>1, <2>2 DEF Write, Values
  <1>8. CASE Restore(f, s)
    <2>1. \A k \in DOMAIN value' : value'[k] \in DOMAIN rows
      BY <1>8, AssignValues DEF Restore, Values
    <2> QED  BY <1>8, <2>1 DEF Restore, Values
  <1>9. CASE BackUp(f, s)
    <2>1. \A k \in DOMAIN copy' : copy'[k] \in Values
      BY <1>9, <1>v, WithValues DEF BackUp
    <2> QED  BY <1>9, <2>1 DEF BackUp, Values
  <1>10. CASE RecoverBackUp(f, s)
    <2>1. \A k \in DOMAIN copy' : copy'[k] \in Values
      BY <1>10, WithoutValues DEF RecoverBackUp
    <2>2. \A k \in DOMAIN value' : value'[k] \in DOMAIN rows
      BY <1>10, AssignValues DEF RecoverBackUp
    <2> QED  BY <1>10, <2>1, <2>2 DEF RecoverBackUp, Values
  <1> QED
    BY <1>1, <1>2, <1>3, <1>4, <1>5, <1>6, <1>7, <1>8, <1>9, <1>10 DEF Perform

LEMMA LeaveKeepsTypes ==
    ASSUME ThingTypes, NEW f, Leave(f), rows' = rows
    PROVE  ThingTypes'
  <1>1. \A x \in DOMAIN saved' : saved'[x] \in Values
    BY WithoutValues DEF Leave, ThingTypes
  <1> QED  BY <1>1 DEF Leave, ThingTypes, Values

\* The fixture that is next has a row.
LEMMA ComingIsWanted ==
    ASSUME TypeInv, Candidates # {}
    PROVE  /\ Coming \in Candidates
           /\ \A g \in Candidates : Width[Scope(g)] <= Width[Scope(Coming)]
           /\ Coming \in DOMAIN rows
  <1> DEFINE W(f) == Width[Scope(f)]
  <1>1. \A f \in Candidates : f \in DOMAIN rows
    BY DEF Candidates, TypeInv, PytestTypes
  <1>2. \A f \in Candidates : W(f) \in {1, 2, 3, 4}
    BY <1>1, StepsOfARow DEF TypeInv, Width, Scopes
  <1>3. \E f \in Candidates : \A g \in Candidates : W(g) <= W(f)
    <2>4. CASE \E f \in Candidates : W(f) = 4
      BY <1>2, <2>4
    <2>3. CASE (\E f \in Candidates : W(f) = 3) /\ \A f \in Candidates : W(f) # 4
      BY <1>2, <2>3
    <2>2. CASE (\E f \in Candidates : W(f) = 2) /\ \A f \in Candidates : W(f) \notin {3, 4}
      BY <1>2, <2>2
    <2>1. CASE \A f \in Candidates : W(f) \notin {2, 3, 4}
      BY <1>2, <2>1
    <2> QED  BY <2>1, <2>2, <2>3, <2>4
  <1> QED  BY <1>1, <1>3 DEF Coming

\* The next to leave is the last of its stack; nothing is left on those that are narrower.
LEMMA LeavingIsLast ==
    ASSUME TypeInv, DueStacks # {}
    PROVE  \E s \in DueStacks : /\ up[s] \in Seq(DOMAIN rows) /\ up[s] # << >>
                                /\ Leaving = up[s][Len(up[s])]
                                /\ \A t \in DueStacks : Width[s] <= Width[t]
                                /\ Leaving \in DOMAIN rows
  <1>1. \A s \in DueStacks : s \in Scopes
    BY DEF DueStacks, TypeInv, PytestTypes, Endings, Scopes
  <1>2. \A s \in DueStacks : Width[s] \in {1, 2, 3, 4}
    BY <1>1 DEF Width, Scopes
  <1>3. \E s \in DueStacks : \A t \in DueStacks : Width[s] <= Width[t]
    <2>1. CASE \E s \in DueStacks : Width[s] = 1
      BY <1>2, <2>1
    <2>2. CASE (\E s \in DueStacks : Width[s] = 2) /\ \A s \in DueStacks : Width[s] # 1
      BY <1>2, <2>2
    <2>3. CASE (\E s \in DueStacks : Width[s] = 3) /\ \A s \in DueStacks : Width[s] \notin {1, 2}
      BY <1>2, <2>3
    <2>4. CASE \A s \in DueStacks : Width[s] \notin {1, 2, 3}
      BY <1>2, <2>4
    <2> QED  BY <2>1, <2>2, <2>3, <2>4
  <1> DEFINE s == CHOOSE s \in DueStacks : \A t \in DueStacks : Width[s] <= Width[t]
  <1>4. s \in DueStacks /\ \A t \in DueStacks : Width[s] <= Width[t]
    BY <1>3
  <1>5. Leaving = up[s][Len(up[s])]
    BY DEF Leaving
  <1> HIDE DEF s
  <1>6. up[s] \in Seq(DOMAIN rows) /\ up[s] # << >>
    BY <1>1, <1>4 DEF TypeInv, PytestTypes, DueStacks
  <1>7. up[s][Len(up[s])] \in DOMAIN rows
    BY <1>6
  <1> QED  BY <1>4, <1>5, <1>6, <1>7

LEMMA PopKeepsStacks ==
    ASSUME TypeInv, doing \in DOMAIN rows, Pop(doing), rows' = rows
    PROVE  up' \in [Scopes -> Seq(DOMAIN rows)]
  <1>1. Scope(doing) \in Scopes
    BY StepsOfARow, 1 \in Nat \ {0} DEF TypeInv
  <1>2. up[Scope(doing)] \in Seq(DOMAIN rows)
    BY <1>1 DEF TypeInv, PytestTypes
  <1>3. SubSeq(up[Scope(doing)], 1, Len(up[Scope(doing)]) - 1) \in Seq(DOMAIN rows)
    BY <1>2
  <1> QED  BY <1>1, <1>3 DEF Pop, TypeInv, PytestTypes

LEMMA StepKeepsTypeInv == TypeInv /\ [Next]_vars => TypeInv'
  <1> SUFFICES ASSUME TypeInv, [Next]_vars  PROVE TypeInv'
    OBVIOUS
  <1> USE DEF thingVars, settingVars
  <1>t. RowsInv /\ PytestTypes /\ ThingTypes
    BY DEF TypeInv
  <1>n. MaxTests \in Nat /\ MaxFailures \in Nat /\ tests \in Nat /\ failures \in Nat
    BY <1>t, BoundsAssumption DEF PytestTypes
  <1>r. ASSUME rows' = rows, PytestTypes', ThingTypes'  PROVE TypeInv'
    BY <1>t, <1>r DEF TypeInv, RowsInv
  <1>q. ASSUME rows' = rows, UNCHANGED <<thingVars, settingVars>>  PROVE ThingTypes'
    BY <1>t, <1>q DEF ThingTypes, Values
  <1>1. ASSUME NEW test \in suite.tests, StartTest(test)  PROVE TypeInv'
    <2>1. wanted' \subseteq DOMAIN rows
      BY <1>1 DEF StartTest, Closure
    <2>3. tests' \in 0..MaxTests
      BY <1>1, <1>n DEF StartTest
    <2>2. PytestTypes'
      BY <1>1, <1>t, <2>1, <2>3 DEF StartTest, PytestTypes
    <2> QED  BY <1>1, <1>r, <1>q, <2>2 DEF StartTest
  <1>2. CASE BeginSetUp
    <2>1. Coming \in DOMAIN rows
      BY <1>2, ComingIsWanted DEF BeginSetUp
    <2>2. PytestTypes'
      BY <1>2, <1>t, <2>1 DEF BeginSetUp, PytestTypes
    <2> QED  BY <1>2, <1>r, <1>q, <2>2 DEF BeginSetUp
  <1>3. CASE Refuse
    <2>1. Coming \in DOMAIN rows
      BY <1>3, ComingIsWanted DEF Refuse
    <2>2. PytestTypes'
      BY <1>3, <1>t, <2>1 DEF Refuse, PytestTypes
    <2> QED  BY <1>3, <1>r, <1>q, <2>2 DEF Refuse
  <1>4. CASE SetUpStep
    <2>1. doing \in DOMAIN rows /\ step \in Nat \ {0}
      BY <1>4, <1>t DEF SetUpStep, PytestTypes
    <2>2. Setup(doing)[step] \in Steps
      BY <1>4, <1>t, <2>1, StepsOfARow DEF SetUpStep
    <2>3. ThingTypes'
      BY <1>4, <1>t, <2>1, <2>2, PerformKeepsTypes DEF SetUpStep
    <2>4. PytestTypes'
      BY <1>4, <1>t DEF SetUpStep, PytestTypes
    <2> QED  BY <1>4, <1>r, <2>3, <2>4 DEF SetUpStep
  <1>5. CASE SetUpDone
    <2>1. doing \in DOMAIN rows /\ Scope(doing) \in Scopes
      BY <1>5, <1>t, StepsOfARow, 1 \in Nat \ {0} DEF SetUpDone, PytestTypes
    <2>2. Append(up[Scope(doing)], doing) \in Seq(DOMAIN rows)
      BY <1>t, <2>1 DEF PytestTypes
    <2>3. up' \in [Scopes -> Seq(DOMAIN rows)]
      BY <1>5, <1>t, <2>1, <2>2 DEF SetUpDone, PytestTypes
    <2>4. PytestTypes'
      BY <1>5, <1>t, <2>3 DEF SetUpDone, PytestTypes
    <2> QED  BY <1>5, <1>r, <1>q, <2>4 DEF SetUpDone
  <1>6. CASE SetUpFails
    <2>1. doing \in DOMAIN rows
      BY <1>6, <1>t DEF SetUpFails, PytestTypes
    <2>2. failures' \in 0..MaxFailures
      BY <1>6, <1>n DEF SetUpFails
    <2>3. PytestTypes'
      BY <1>6, <1>t, <2>1, <2>2 DEF SetUpFails, PytestTypes
    <2> QED  BY <1>6, <1>t, <1>r, <2>3, LeaveKeepsTypes DEF SetUpFails
  <1>7. CASE Run1
    <2>1. PytestTypes'
      BY <1>7, <1>t DEF Run1, PytestTypes
    <2> QED  BY <1>7, <1>r, <1>q, <2>1 DEF Run1
  <1>8. ASSUME NEW scopes \in Endings, EndTest(scopes)  PROVE TypeInv'
    <2>1. PytestTypes'
      BY <1>8, <1>t DEF EndTest, PytestTypes
    <2> QED  BY <1>8, <1>r, <1>q, <2>1 DEF EndTest
  <1>9. CASE BeginTearDown
    <2>1. Leaving \in DOMAIN rows
      BY <1>9, LeavingIsLast DEF BeginTearDown
    <2>2. PytestTypes'
      BY <1>9, <1>t, <2>1 DEF BeginTearDown, PytestTypes
    <2> QED  BY <1>9, <1>r, <1>q, <2>2 DEF BeginTearDown
  <1>10. CASE TearDownStep
    <2>1. doing \in DOMAIN rows /\ step \in Nat \ {0}
      BY <1>10, <1>t DEF TearDownStep, PytestTypes
    <2>2. Undo(doing)[step] \in Steps
      BY <1>10, <1>t, <2>1, StepsOfARow DEF TearDownStep
    <2>3. ThingTypes'
      BY <1>10, <1>t, <2>1, <2>2, PerformKeepsTypes DEF TearDownStep
    <2>4. PytestTypes'
      BY <1>10, <1>t DEF TearDownStep, PytestTypes
    <2> QED  BY <1>10, <1>r, <2>3, <2>4 DEF TearDownStep
  <1>11. CASE TearDownDone
    <2>1. doing \in DOMAIN rows
      BY <1>11, <1>t DEF TearDownDone, PytestTypes
    <2>2. up' \in [Scopes -> Seq(DOMAIN rows)]
      BY <1>11, <2>1, PopKeepsStacks DEF TearDownDone
    <2>3. PytestTypes'
      BY <1>11, <1>t, <2>2 DEF TearDownDone, PytestTypes
    <2> QED  BY <1>11, <1>t, <1>r, <2>3, LeaveKeepsTypes DEF TearDownDone
  <1>12. CASE TearDownFails
    <2>1. doing \in DOMAIN rows
      BY <1>12, <1>t DEF TearDownFails, PytestTypes
    <2>2. up' \in [Scopes -> Seq(DOMAIN rows)]
      BY <1>12, <2>1, PopKeepsStacks DEF TearDownFails
    <2>3. failures' \in 0..MaxFailures
      BY <1>12, <1>n DEF TearDownFails
    <2>4. PytestTypes'
      BY <1>12, <1>t, <2>1, <2>2, <2>3 DEF TearDownFails, PytestTypes
    <2> QED  BY <1>12, <1>t, <1>r, <2>4, LeaveKeepsTypes DEF TearDownFails
  <1>13. CASE AllDown
    <2>1. PytestTypes'
      BY <1>13, <1>t DEF AllDown, PytestTypes
    <2> QED  BY <1>13, <1>r, <1>q, <2>1 DEF AllDown
  <1>14. CASE UNCHANGED vars
    <2>1. PytestTypes'
      BY <1>14, <1>t DEF vars, pytestVars, PytestTypes
    <2> QED  BY <1>14, <1>r, <1>q, <2>1 DEF vars, pytestVars
  <1> QED
    BY <1>1, <1>2, <1>3, <1>4, <1>5, <1>6, <1>7, <1>8, <1>9, <1>10, <1>11, <1>12, <1>13, <1>14
       DEF Next, Over

THEOREM TypeInvariance == Spec => []TypeInv
  BY InitTypeInv, StepKeepsTypeInv, PTL DEF Spec

\* The types of the variables, whatever the tests are and whatever fails.
THEOREM TypeCorrect == Spec => []TypeOK
  <1>1. TypeInv => TypeOK
    BY DEF TypeInv, PytestTypes, ThingTypes, TypeOK
  <1> QED  BY TypeInvariance, <1>1, PTL

-----------------------------------------------------------------------------
(***************************************************************************)
(* The stacks.  Each has the fixtures of one scope, and what a fixture     *)
(* needs is below it on the same stack, or on one of a wider scope.  The   *)
(* stacks of all narrower scopes are empty when a fixture is torn down.    *)
(***************************************************************************)
Supported(s, i, n) ==
    \/ Scope(n) = s /\ \E j \in 1..(i - 1) : up[s][j] = n
    \/ /\ Scope(n) \in Scopes /\ Width[s] < Width[Scope(n)]
       /\ \E j \in DOMAIN up[Scope(n)] : up[Scope(n)][j] = n
StackInv ==
    \A s \in Scopes : \A i \in DOMAIN up[s] :
        Scope(up[s][i]) = s /\ \A n \in Needs(up[s][i]) : Supported(s, i, n)

Last(s) == up[s] # << >> /\ doing = up[s][Len(up[s])]
DoingInv ==
    doing # NoFixture =>
        /\ phase \in {"setup", "teardown"}
        /\ phase = "setup" => Needs(doing) \subseteq Up /\ ~Mismatch(doing)
        /\ phase = "teardown" =>
              /\ Last(Scope(doing))
              /\ \A t \in Scopes : Width[t] < Width[Scope(doing)] => up[t] = << >>

LEMMA Widths ==
    /\ \A s \in Scopes : Width[s] \in {1, 2, 3, 4}
    /\ \A s, t \in Scopes : Width[s] = Width[t] => s = t
  BY DEF Scopes, Width

LEMMA UpIsOnAStack ==
    ASSUME TypeInv, StackInv, NEW n \in Up
    PROVE  /\ n \in DOMAIN rows /\ Scope(n) \in Scopes
           /\ \E j \in DOMAIN up[Scope(n)] : up[Scope(n)][j] = n
  <1>1. PICK s \in Scopes : \E j \in DOMAIN up[s] : up[s][j] = n
    BY DEF Up, InStack
  <1>2. PICK j \in DOMAIN up[s] : up[s][j] = n
    BY <1>1
  <1>3. up[s] \in Seq(DOMAIN rows)
    BY DEF TypeInv, PytestTypes
  <1>4. n \in DOMAIN rows
    BY <1>2, <1>3
  <1> QED  BY <1>2, <1>4 DEF StackInv

LEMMA SupportedIsUp ==
    ASSUME TypeInv, NEW s \in Scopes, NEW i \in DOMAIN up[s], NEW n, Supported(s, i, n)
    PROVE  n \in Up
  <1>1. up[s] \in Seq(DOMAIN rows)
    BY DEF TypeInv, PytestTypes
  <1>2. CASE \E j \in 1..(i - 1) : up[s][j] = n
    <2>1. PICK j \in 1..(i - 1) : up[s][j] = n
      BY <1>2
    <2>2. j \in DOMAIN up[s]
      BY <1>1
    <2> QED  BY <2>1, <2>2 DEF Up, InStack
  <1>3. CASE \E j \in DOMAIN up[Scope(n)] : Scope(n) \in Scopes /\ up[Scope(n)][j] = n
    BY <1>3 DEF Up, InStack
  <1> QED  BY <1>2, <1>3 DEF Supported

\* A fixture whose needs are up may be put on the stack of its scope.
LEMMA PushKeepsStackInv ==
    ASSUME TypeInv, StackInv, doing \in DOMAIN rows, Needs(doing) \subseteq Up, ~Mismatch(doing),
           up' = [up EXCEPT ![Scope(doing)] = Append(@, doing)], rows' = rows
    PROVE  StackInv'
  <1>d. PICK s0 \in Scopes, d \in DOMAIN rows, m \in Nat :
            s0 = Scope(doing) /\ d = doing /\ m = Len(up[s0]) + 1
    <2>1. Scope(doing) \in Scopes /\ up[Scope(doing)] \in Seq(DOMAIN rows)
      BY StepsOfARow, 1 \in Nat \ {0} DEF TypeInv, PytestTypes
    <2> QED  BY <2>1
  <1> DEFINE q == up[s0]
  <1>0. \A f : Scope(f)' = Scope(f) /\ Needs(f)' = Needs(f)
    BY DEF Scope, Needs
  <1>1. s0 \in Scopes /\ up \in [Scopes -> Seq(DOMAIN rows)] /\ q \in Seq(DOMAIN rows)
    BY <1>d DEF TypeInv, PytestTypes
  <1>2. /\ up'[s0] = Append(q, d)
        /\ \A s \in Scopes : s # s0 => up'[s] = up[s]
    BY <1>1, <1>d
  <1>3. /\ DOMAIN up'[s0] = 1..m /\ DOMAIN q = 1..Len(q) /\ Len(q) \in Nat
        /\ \A i \in 1..Len(q) : up'[s0][i] = q[i]
        /\ up'[s0][m] = d
    BY <1>1, <1>2, <1>d
  <1>4. \A s \in Scopes : \A i \in DOMAIN up[s] : i \in DOMAIN up'[s] /\ up'[s][i] = up[s][i]
    BY <1>2, <1>3
  <1>5. ASSUME NEW s \in Scopes, NEW i \in DOMAIN up[s], NEW n, Supported(s, i, n)
        PROVE  Supported(s, i, n)'
    <2>1. DOMAIN up[s] = 1..Len(up[s]) /\ Len(up[s]) \in Nat
      BY <1>1
    <2>2. \A j \in 1..(i - 1) : up'[s][j] = up[s][j]
      BY <1>4, <2>1
    <2> QED  BY <1>0, <1>4, <1>5, <2>2 DEF Supported
  <1>6. ASSUME NEW n \in Needs(d)  PROVE Supported(s0, m, n)'
    <2>1. /\ Scope(n) \in Scopes
          /\ \E j \in DOMAIN up[Scope(n)] : up[Scope(n)][j] = n
      BY <1>6, <1>d, UpIsOnAStack
    <2>2. Width[s0] <= Width[Scope(n)]
      <3>1. ~(Width[Scope(n)] < Width[s0])
        BY <1>d, <1>6 DEF Mismatch
      <3>2. Width[Scope(n)] \in {1, 2, 3, 4} /\ Width[s0] \in {1, 2, 3, 4}
        BY <2>1, Widths
      <3> QED  BY <3>1, <3>2
    <2>3. PICK j \in DOMAIN up[Scope(n)] : up[Scope(n)][j] = n
      BY <2>1
    <2>4. CASE Scope(n) = s0
      <3>1. j \in 1..Len(q) /\ up'[s0][j] = n
        BY <1>3, <2>3, <2>4
      <3>2. j \in 1..(m - 1)
        BY <1>3, <1>d, <3>1
      <3> QED  BY <1>0, <2>4, <3>1, <3>2 DEF Supported
    <2>5. CASE Scope(n) # s0
      <3>1. Width[s0] < Width[Scope(n)]
        BY <2>1, <2>2, <2>5, Widths
      <3> QED  BY <1>0, <1>4, <2>1, <2>3, <3>1 DEF Supported
    <2> QED  BY <2>4, <2>5
  <1> HIDE DEF q
  <1>7. ASSUME NEW s \in Scopes, NEW i \in DOMAIN up'[s]
        PROVE  Scope(up[s][i])' = s /\ \A n \in Needs(up[s][i])' : Supported(s, i, n)'
    <2>1. CASE i \in DOMAIN up[s]
      <3>1. up'[s][i] = up[s][i]
        BY <1>4, <2>1
      <3> QED  BY <1>0, <1>5, <2>1, <3>1 DEF StackInv
    <2>2. CASE i \notin DOMAIN up[s]
      <3>1. s = s0
        BY <1>2, <1>7, <2>2
      <3>2. i = m
        BY <1>3, <1>7, <1>d, <2>2, <3>1 DEF q
      <3>3. up'[s][i] = d /\ Scope(d) = s
        BY <1>3, <1>d, <3>1, <3>2
      <3> QED  BY <1>0, <1>6, <3>1, <3>2, <3>3
    <2> QED  BY <2>1, <2>2
  <1> QED  BY <1>7 DEF StackInv

\* The last of the narrowest stack may be taken away.
LEMMA PopKeepsStackInv ==
    ASSUME TypeInv, StackInv, doing \in DOMAIN rows, Last(Scope(doing)),
           \A t \in Scopes : Width[t] < Width[Scope(doing)] => up[t] = << >>,
           Pop(doing), rows' = rows
    PROVE  StackInv'
  <1> DEFINE s0 == Scope(doing)
             q == up[s0]
  <1>0. \A f : Scope(f)' = Scope(f) /\ Needs(f)' = Needs(f)
    BY DEF Scope, Needs
  <1>1. /\ s0 \in Scopes /\ up \in [Scopes -> Seq(DOMAIN rows)] /\ q \in Seq(DOMAIN rows)
        /\ q # << >>
    BY StepsOfARow, 1 \in Nat \ {0} DEF TypeInv, PytestTypes, Last
  <1>2. /\ up'[s0] = SubSeq(q, 1, Len(q) - 1)
        /\ \A s \in Scopes : s # s0 => up'[s] = up[s]
    BY <1>1 DEF Pop
  <1>3. /\ DOMAIN up'[s0] = 1..(Len(q) - 1) /\ DOMAIN q = 1..Len(q) /\ Len(q) \in Nat
        /\ \A i \in 1..(Len(q) - 1) : up'[s0][i] = q[i]
    BY <1>1, <1>2
  <1>4. ASSUME NEW s \in Scopes, NEW i \in DOMAIN up'[s]
        PROVE  Scope(up[s][i])' = s /\ \A n \in Needs(up[s][i])' : Supported(s, i, n)'
    <2>1. i \in DOMAIN up[s] /\ up'[s][i] = up[s][i]
      BY <1>2, <1>3, <1>4
    <2>2. Width[s0] <= Width[s]
      <3>1. up[s] # << >>
        BY <2>1
      <3> QED  BY <1>1, <3>1, Widths, SMTT(30)
    <2>3. ASSUME NEW n \in Needs(up[s][i])  PROVE Supported(s, i, n)'
      <3>1. Supported(s, i, n)
        BY <2>1, <2>3 DEF StackInv
      <3>2. CASE Scope(n) = s /\ \E j \in 1..(i - 1) : up[s][j] = n
        <4>1. PICK j \in 1..(i - 1) : up[s][j] = n
          BY <3>2
        <4>2. up'[s][j] = up[s][j]
          BY <1>2, <1>3, <1>4
        <4> QED  BY <1>0, <3>2, <4>1, <4>2 DEF Supported
      <3>3. CASE /\ Scope(n) \in Scopes /\ Width[s] < Width[Scope(n)]
                 /\ \E j \in DOMAIN up[Scope(n)] : up[Scope(n)][j] = n
        <4>1. Scope(n) # s0
          BY <1>1, <2>2, <3>3, Widths, SMTT(30)
        <4>2. up'[Scope(n)] = up[Scope(n)]
          BY <1>2, <3>3, <4>1
        <4> QED  BY <1>0, <3>3, <4>2 DEF Supported
      <3> QED  BY <3>1, <3>2, <3>3 DEF Supported
    <2>4. Scope(up[s][i]) = s
      BY <2>1 DEF StackInv
    <2> QED  BY <1>0, <2>1, <2>3, <2>4
  <1> QED  BY <1>4 DEF StackInv

\* When the scopes of Endings end, those that are narrower end, too.
LEMMA EndingsAreClosed ==
    ASSUME NEW e \in Endings, NEW s \in e, NEW t \in Scopes, Width[t] < Width[s]
    PROVE  t \in e
  BY DEF Endings, Scopes, Width

\* Nothing but a push and a pop touches the stacks, and then nothing is being done.
LEMMA SameStacks ==
    ASSUME StackInv, DoingInv, UNCHANGED <<rows, up>>,
           doing' = NoFixture \/ (doing' = doing /\ phase' = phase)
    PROVE  StackInv' /\ DoingInv'
  <1> USE DEF Scope, Needs
  <1>1. StackInv'
    BY DEF StackInv, Supported
  <1>2. CASE doing' = NoFixture
    BY <1>1, <1>2 DEF DoingInv
  <1>3. CASE doing' = doing /\ phase' = phase
    BY <1>1, <1>3 DEF DoingInv, Last, Mismatch, Up, InStack
  <1> QED  BY <1>2, <1>3

LEMMA StepKeepsStackInv ==
    TypeInv /\ StackInv /\ DoingInv /\ [Next]_vars => StackInv' /\ DoingInv'
  <1> SUFFICES ASSUME TypeInv, StackInv, DoingInv, [Next]_vars
               PROVE  StackInv' /\ DoingInv'
    OBVIOUS
  <1>d. doing \in DOMAIN rows \cup {NoFixture} /\ (doing = NoFixture \/ doing \in DOMAIN rows)
    BY DEF TypeInv, PytestTypes
  <1>n. ASSUME UNCHANGED <<rows, up>>, doing = NoFixture, doing' = doing
        PROVE  StackInv' /\ DoingInv'
    BY <1>n, SameStacks
  <1>p. ASSUME doing' = NoFixture  PROVE DoingInv'
    BY <1>p DEF DoingInv
  <1>1. ASSUME NEW test \in suite.tests, StartTest(test)  PROVE StackInv' /\ DoingInv'
    <2>1. doing = NoFixture
      BY <1>1 DEF StartTest, DoingInv
    <2> QED  BY <1>1, <1>n, <2>1 DEF StartTest
  <1>2. CASE BeginSetUp
    <2>1. UNCHANGED <<rows, up, phase>> /\ phase = "setup"
      BY <1>2 DEF BeginSetUp
    <2>2. PICK c : c = Coming /\ doing' = c /\ Needs(c) \subseteq Up /\ ~Mismatch(c)
      BY <1>2, ComingIsWanted DEF BeginSetUp, Candidates
    <2>3. StackInv'
      BY <2>1 DEF StackInv, Supported, Scope, Needs
    <2>4. Up' = Up
      BY <2>1 DEF Up, InStack
    <2>5. Needs(c)' \subseteq Up' /\ ~Mismatch(c)'
      BY <2>1, <2>2, <2>4 DEF Needs, Mismatch, Scope
    <2> QED  BY <2>1, <2>2, <2>3, <2>5 DEF DoingInv, Needs, Mismatch, Scope
  <1>3. CASE Refuse
    BY <1>3, <1>n DEF Refuse
  <1>4. CASE SetUpStep
    BY <1>4, SameStacks DEF SetUpStep
  <1>5. CASE SetUpDone
    <2>1. doing \in DOMAIN rows /\ Needs(doing) \subseteq Up /\ ~Mismatch(doing)
      BY <1>5, <1>d DEF SetUpDone, DoingInv
    <2>2. rows' = rows /\ up' = [up EXCEPT ![Scope(doing)] = Append(@, doing)]
      BY <1>5 DEF SetUpDone
    <2> QED  BY <1>5, <1>p, <2>1, <2>2, PushKeepsStackInv DEF SetUpDone
  <1>6. CASE SetUpFails
    BY <1>6, SameStacks DEF SetUpFails
  <1>7. CASE Run1
    BY <1>7, <1>n DEF Run1
  <1>8. ASSUME NEW scopes \in Endings, EndTest(scopes)  PROVE StackInv' /\ DoingInv'
    <2>1. doing = NoFixture
      BY <1>8 DEF EndTest, DoingInv
    <2> QED  BY <1>8, <1>n, <2>1 DEF EndTest
  <1>9. CASE BeginTearDown
    <2>1. UNCHANGED <<rows, up, phase>> /\ phase = "teardown" /\ DueStacks # {}
      BY <1>9 DEF BeginTearDown
    <2>2. PICK s \in DueStacks, c \in DOMAIN rows :
              /\ up[s] \in Seq(DOMAIN rows) /\ up[s] # << >>
              /\ c = up[s][Len(up[s])] /\ doing' = c
              /\ \A t \in DueStacks : Width[s] <= Width[t]
      BY <1>9, <2>1, LeavingIsLast DEF BeginTearDown
    <2>3. due \in Endings /\ s \in due /\ s \in Scopes
      BY <2>2 DEF DueStacks, TypeInv, PytestTypes, Endings, Scopes
    <2>4. Scope(c) = s
      <3>1. Len(up[s]) \in DOMAIN up[s]
        BY <2>2
      <3> QED  BY <2>2, <2>3, <3>1 DEF StackInv
    <2>5. ASSUME NEW t \in Scopes, Width[t] < Width[s]  PROVE up[t] = << >>
      <3>1. t \in due
        BY <2>3, <2>5, EndingsAreClosed
      <3>2. ~(Width[s] <= Width[t])
        BY <2>3, <2>5, Widths
      <3> QED  BY <2>2, <3>1, <3>2 DEF DueStacks
    <2>6. StackInv'
      BY <2>1 DEF StackInv, Supported, Scope, Needs
    <2>7. Scope(c)' = s /\ up'[s] = up[s] /\ up'= up
      BY <2>1, <2>4 DEF Scope
    <2>8. DoingInv'
      BY <2>1, <2>2, <2>3, <2>5, <2>7 DEF DoingInv, Last, Scope
    <2> QED  BY <2>6, <2>8
  <1>10. CASE TearDownStep
    BY <1>10, SameStacks DEF TearDownStep
  <1>11. CASE TearDownDone \/ TearDownFails
    <2>1. doing \in DOMAIN rows /\ rows' = rows /\ Pop(doing) /\ doing' = NoFixture
      BY <1>11, <1>d DEF TearDownDone, TearDownFails
    <2>2. /\ Last(Scope(doing))
          /\ \A t \in Scopes : Width[t] < Width[Scope(doing)] => up[t] = << >>
      BY <1>11 DEF TearDownDone, TearDownFails, DoingInv
    <2> QED  BY <1>p, <2>1, <2>2, PopKeepsStackInv
  <1>12. CASE AllDown
    BY <1>12, <1>n DEF AllDown
  <1>13. CASE UNCHANGED vars
    BY <1>13, SameStacks DEF vars, pytestVars
  <1> QED
    BY <1>1, <1>2, <1>3, <1>4, <1>5, <1>6, <1>7, <1>8, <1>9, <1>10, <1>11, <1>12, <1>13
       DEF Next, Over

LEMMA StacksAreInOrder == Spec => [](TypeInv /\ StackInv /\ DoingInv)
  <1>1. Init => StackInv /\ DoingInv
    BY DEF Init, StackInv, DoingInv
  <1>2. StackInv /\ DoingInv /\ TypeInv /\ [Next]_vars => (StackInv /\ DoingInv)'
    BY StepKeepsStackInv
  <1> QED  BY <1>1, <1>2, TypeInvariance, PTL DEF Spec

-----------------------------------------------------------------------------
(***************************************************************************)
(* What is taken is given back.  This is what a table of fixtures has to   *)
(* say for it: that what a fixture takes or makes in its set-up it gives   *)
(* back or deletes in its teardown, where it takes nothing.  The host that *)
(* a setting lets the session keep is left out.                            *)
(***************************************************************************)
Effective(s) == suite.mode \in s.modes
Acquires(s) == s.do \in {"take", "make"}
Releases(s, thing) == s.do \in {"give", "drop"} /\ s.what = thing /\ Effective(s)

GivesAllBack ==
    \A f \in DOMAIN rows :
        /\ \A i \in DOMAIN Setup(f) :
              Acquires(Setup(f)[i]) /\ Effective(Setup(f)[i])
                 /\ <<f, Setup(f)[i].what>> \notin KeptHosts =>
              \E j \in DOMAIN Undo(f) : Releases(Undo(f)[j], Setup(f)[i].what)
        /\ \A j \in DOMAIN Undo(f) : ~Acquires(Undo(f)[j])

Owned(x) == x[1] \in Up \cup {doing} \cup failed
Returnable(x) == \E j \in DOMAIN Undo(x[1]) : Releases(Undo(x[1])[j], x[2])
StillReturned(x) ==
    phase = "teardown" /\ doing = x[1] =>
        \E j \in DOMAIN Undo(x[1]) : step <= j /\ Releases(Undo(x[1])[j], x[2])
HasInv == \A x \in has \ KeptHosts : Owned(x) /\ Returnable(x) /\ StillReturned(x)
HeldInv == \A x \in held : x[1] \in Up \cup {doing}
BackInv == GivesAllBack => HasInv

\* What a step of a fixture adds to what it has and holds, and what it takes away.
LEMMA PerformedThings ==
    ASSUME NEW f, NEW s \in Steps, Perform(f, s)
    PROVE  /\ has' \subseteq has \cup {<<f, s.what>>}
           /\ has' \subseteq has \/ (Acquires(s) /\ Effective(s))
           /\ Releases(s, s.what) => <<f, s.what>> \notin has'
           /\ held' \subseteq held \cup {<<f, s.what>>}
  <1> USE DEF thingVars, settingVars, Acquires, Effective, Releases
  <1>1. CASE UNCHANGED <<thingVars, settingVars>> /\ (suite.mode \notin s.modes \/ s.do = "run")
    BY <1>1
  <1>2. CASE Acquire(f, s) /\ suite.mode \in s.modes
    BY <1>2 DEF Acquire
  <1>3. CASE Enter(f, s)
    BY <1>3 DEF Enter
  <1>4. CASE TearHostDown(f, s)
    BY <1>4 DEF TearHostDown
  <1>5. CASE Delete(f, s)
    BY <1>5 DEF Delete
  <1>6. CASE GiveBack(f, s)
    BY <1>6 DEF GiveBack
  <1>7. CASE Write(f, s)
    BY <1>7 DEF Write
  <1>8. CASE Restore(f, s)
    BY <1>8 DEF Restore
  <1>9. CASE BackUp(f, s)
    BY <1>9 DEF BackUp
  <1>10. CASE RecoverBackUp(f, s)
    BY <1>10 DEF RecoverBackUp
  <1> QED
    BY <1>1, <1>2, <1>3, <1>4, <1>5, <1>6, <1>7, <1>8, <1>9, <1>10 DEF Perform

\* A pop takes one fixture from the stacks, and a push adds one.
LEMMA PopTakesOne ==
    ASSUME TypeInv, doing \in DOMAIN rows, Last(Scope(doing)), Pop(doing)
    PROVE  Up \subseteq Up' \cup {doing}
  <1> DEFINE s0 == Scope(doing)
             q == up[s0]
  <1>1. /\ s0 \in Scopes /\ up \in [Scopes -> Seq(DOMAIN rows)] /\ q \in Seq(DOMAIN rows)
        /\ q # << >> /\ doing = q[Len(q)]
    BY StepsOfARow, 1 \in Nat \ {0} DEF TypeInv, PytestTypes, Last
  <1>2. /\ up'[s0] = SubSeq(q, 1, Len(q) - 1)
        /\ \A s \in Scopes : s # s0 => up'[s] = up[s]
    BY <1>1 DEF Pop
  <1>3. /\ DOMAIN up'[s0] = 1..(Len(q) - 1) /\ DOMAIN q = 1..Len(q) /\ Len(q) \in Nat
        /\ \A i \in 1..(Len(q) - 1) : up'[s0][i] = q[i]
    BY <1>1, <1>2
  <1>4. ASSUME NEW s \in Scopes, NEW i \in DOMAIN up[s], up[s][i] # doing
        PROVE  i \in DOMAIN up'[s] /\ up'[s][i] = up[s][i]
    <2>1. CASE s # s0
      BY <1>2, <2>1
    <2>2. CASE s = s0
      BY <1>1, <1>3, <1>4, <2>2
    <2> QED  BY <2>1, <2>2
  <1> HIDE DEF q, s0
  <1> QED  BY <1>4 DEF Up, InStack

LEMMA PushAddsOne ==
    ASSUME TypeInv, doing \in DOMAIN rows,
           up' = [up EXCEPT ![Scope(doing)] = Append(@, doing)]
    PROVE  Up \cup {doing} \subseteq Up'
  <1> DEFINE s0 == Scope(doing)
             q == up[s0]
  <1>1. /\ s0 \in Scopes /\ up \in [Scopes -> Seq(DOMAIN rows)] /\ q \in Seq(DOMAIN rows)
    BY StepsOfARow, 1 \in Nat \ {0} DEF TypeInv, PytestTypes
  <1>2. /\ up'[s0] = Append(q, doing)
        /\ \A s \in Scopes : s # s0 => up'[s] = up[s]
    BY <1>1
  <1>3. /\ DOMAIN up'[s0] = 1..(Len(q) + 1) /\ DOMAIN q = 1..Len(q) /\ Len(q) \in Nat
        /\ \A i \in 1..Len(q) : up'[s0][i] = q[i]
        /\ up'[s0][Len(q) + 1] = doing
    BY <1>1, <1>2
  <1>4. \A s \in Scopes : \A i \in DOMAIN up[s] : i \in DOMAIN up'[s] /\ up'[s][i] = up[s][i]
    BY <1>2, <1>3
  <1>5. Len(q) + 1 \in DOMAIN up'[s0]
    BY <1>3
  <1> HIDE DEF q, s0
  <1>6. doing \in Up'
    BY <1>1, <1>3, <1>5 DEF Up, InStack
  <1> QED  BY <1>4, <1>6 DEF Up, InStack

LEMMA RowsStay == [Next]_vars => UNCHANGED <<suite, rows>>
  BY DEF Next, StartTest, BeginSetUp, Refuse, SetUpStep, SetUpDone, SetUpFails, Run1, EndTest,
         BeginTearDown, TearDownStep, TearDownDone, TearDownFails, AllDown, Over, vars, pytestVars

\* The steps between the ones of fixtures.
LEMMA SameThings ==
    ASSUME TypeInv, HeldInv, BackInv, UNCHANGED <<suite, rows, up, failed, has, held>>,
           doing = NoFixture \/ (doing' = doing /\ phase' = phase /\ step' = step),
           doing' = NoFixture \/ phase' = "setup" \/ step' = 1
              \/ (doing' = doing /\ phase' = phase /\ step' = step)
    PROVE  HeldInv' /\ BackInv'
  <1>0. \A x \in has \cup held : x[1] # NoFixture
    BY TableAssumption DEF TypeInv, ThingTypes, RowsInv
  <1>1. Up' = Up
    BY DEF Up, InStack
  <1>2. HeldInv'
    BY <1>0, <1>1 DEF HeldInv
  <1>k. KeptHosts' = KeptHosts
    BY DEF KeptHosts
  <1>3. GivesAllBack' = GivesAllBack
    BY <1>k DEF GivesAllBack, Setup, Undo, Effective, Acquires, Releases
  <1>4. ASSUME GivesAllBack, NEW x \in has \ KeptHosts
        PROVE  Owned(x)' /\ Returnable(x)' /\ StillReturned(x)'
    <2>1. Owned(x) /\ Returnable(x) /\ StillReturned(x)
      BY <1>4 DEF BackInv, HasInv
    <2>2. Owned(x)'
      BY <1>0, <1>1, <2>1 DEF Owned
    <2>3. Returnable(x)'
      BY <2>1 DEF Returnable, Releases, Undo, Effective
    <2>4. CASE doing' = doing /\ phase' = phase /\ step' = step
      BY <2>1, <2>2, <2>3, <2>4 DEF StillReturned, Releases, Undo, Effective
    <2>5. CASE doing' = NoFixture \/ phase' = "setup"
      BY <1>0, <2>2, <2>3, <2>5 DEF StillReturned
    <2>6. CASE step' = 1
      <3>1. PICK j \in DOMAIN Undo(x[1]) : Releases(Undo(x[1])[j], x[2])
        BY <2>1 DEF Returnable
      <3>2. x[1] \in DOMAIN rows
        BY DEF TypeInv, ThingTypes
      <3>3. 1 <= j
        BY <3>2, StepsOfARow, 1 \in Nat \ {0} DEF TypeInv
      <3>4. StillReturned(x)'
        BY <2>6, <3>1, <3>3 DEF StillReturned, Releases, Undo, Effective
      <3> QED  BY <2>2, <2>3, <3>4
    <2> QED  BY <2>4, <2>5, <2>6
  <1>5. BackInv'
    BY <1>k, <1>3, <1>4 DEF BackInv, HasInv
  <1> QED  BY <1>2, <1>5

\* The end of the code of a fixture: by then it has given back what it has, or it has raised.
LEMMA EndKeepsThings ==
    ASSUME TypeInv, HeldInv, BackInv, UNCHANGED <<suite, rows>>, doing \in DOMAIN rows,
           doing' = NoFixture, failed \subseteq failed', has' = has,
           \/ Up \cup {doing} \subseteq Up' /\ held' = held
           \/ /\ Up \subseteq Up' \cup {doing} /\ Leave(doing)
              /\ \/ doing \in failed'
                 \/ GivesAllBack => \A x \in has \ KeptHosts : x[1] # doing
    PROVE  HeldInv' /\ BackInv'
  <1>0. \A x \in has \cup held : x[1] # NoFixture
    BY TableAssumption DEF TypeInv, ThingTypes, RowsInv
  <1>2. HeldInv'
    BY DEF HeldInv, Leave
  <1>k. KeptHosts' = KeptHosts
    BY DEF KeptHosts
  <1>3. GivesAllBack' = GivesAllBack
    BY <1>k DEF GivesAllBack, Setup, Undo, Effective, Acquires, Releases
  <1>4. ASSUME GivesAllBack, NEW x \in has \ KeptHosts
        PROVE  Owned(x)' /\ Returnable(x)' /\ StillReturned(x)'
    <2>1. Owned(x) /\ Returnable(x)
      BY <1>4 DEF BackInv, HasInv
    <2>2. Owned(x)'
      BY <1>4, <2>1 DEF Owned
    <2>3. Returnable(x)'
      BY <2>1 DEF Returnable, Releases, Undo, Effective
    <2> QED  BY <1>0, <2>2, <2>3 DEF StillReturned
  <1>5. BackInv'
    BY <1>k, <1>3, <1>4 DEF BackInv, HasInv
  <1> QED  BY <1>2, <1>5

LEMMA StepKeepsThings ==
    TypeInv /\ DoingInv /\ HeldInv /\ BackInv /\ [Next]_vars => HeldInv' /\ BackInv'
  <1> SUFFICES ASSUME TypeInv, DoingInv, HeldInv, BackInv, [Next]_vars
               PROVE  HeldInv' /\ BackInv'
    OBVIOUS
  <1> USE DEF thingVars, settingVars
  <1>r. UNCHANGED <<suite, rows>>
    BY RowsStay
  <1>d. doing = NoFixture \/ doing \in DOMAIN rows
    BY DEF TypeInv, PytestTypes
  <1>k. KeptHosts' = KeptHosts
    BY <1>r DEF KeptHosts
  <1>g. GivesAllBack' = GivesAllBack
    BY <1>r, <1>k DEF GivesAllBack, Setup, Undo, Effective, Acquires, Releases
  <1>h. ASSUME NEW t, held' \subseteq held \cup {<<doing, t>>}, doing' = doing, Up' = Up
        PROVE  HeldInv'
    <2>1. <<doing, t>>[1] = doing
      OBVIOUS
    <2> QED  BY <1>h, <2>1 DEF HeldInv
  <1>1. ASSUME NEW test \in suite.tests, StartTest(test)  PROVE HeldInv' /\ BackInv'
    <2>1. doing = NoFixture /\ phase' = "setup"
      BY <1>1 DEF StartTest, DoingInv
    <2> QED  BY <1>1, <1>r, <2>1, SameThings DEF StartTest
  <1>2. CASE BeginSetUp \/ Refuse \/ Run1 \/ BeginTearDown \/ AllDown
    BY <1>2, <1>r, SameThings DEF BeginSetUp, Refuse, Run1, BeginTearDown, AllDown
  <1>3. ASSUME NEW scopes \in Endings, EndTest(scopes)  PROVE HeldInv' /\ BackInv'
    <2>1. doing = NoFixture
      BY <1>3 DEF EndTest, DoingInv
    <2> QED  BY <1>3, <1>r, <2>1, SameThings DEF EndTest
  <1>4. CASE SetUpStep
    <2>1. doing \in DOMAIN rows /\ phase = "setup" /\ step \in Nat \ {0}
      BY <1>4, <1>d DEF SetUpStep, TypeInv, PytestTypes
    <2>2. PICK s \in Steps : s = Setup(doing)[step]
      BY <1>4, <2>1, StepsOfARow DEF SetUpStep, TypeInv
    <2>3. step \in DOMAIN Setup(doing)
      BY <1>4, <2>1, StepsOfARow DEF SetUpStep, TypeInv
    <2>4. Perform(doing, s) /\ UNCHANGED <<up, failed, doing, phase>>
      BY <1>4, <2>2 DEF SetUpStep
    <2>5. Up' = Up
      BY <2>4 DEF Up, InStack
    <2>6. HeldInv'
      <3>1. held' \subseteq held \cup {<<doing, s.what>>}
        BY <2>2, <2>4, PerformedThings
      <3> QED  BY <2>4, <2>5, <3>1, <1>h
    <2>7. ASSUME GivesAllBack, NEW x \in has' \ KeptHosts
          PROVE  Owned(x)' /\ Returnable(x)' /\ StillReturned(x)'
      <3>1. CASE x \in has
        <4>1. Owned(x) /\ Returnable(x)
          BY <2>7, <3>1 DEF BackInv, HasInv
        <4> QED
          BY <1>r, <2>1, <2>4, <2>5, <4>1
             DEF Owned, Returnable, StillReturned, Releases, Undo, Effective
      <3>2. CASE x \notin has
        <4>1. x = <<doing, s.what>> /\ Acquires(s) /\ Effective(s)
          BY <2>2, <2>4, <2>7, <3>2, PerformedThings
        <4>2. \E j \in DOMAIN Undo(doing) : Releases(Undo(doing)[j], s.what)
          BY <2>1, <2>2, <2>3, <2>7, <4>1 DEF GivesAllBack
        <4>3. Returnable(x)
          BY <4>1, <4>2 DEF Returnable
        <4>4. x[1] = doing
          BY <4>1
        <4> QED
          BY <1>r, <2>1, <2>4, <4>3, <4>4
             DEF Owned, Returnable, StillReturned, Releases, Undo, Effective
      <3> QED  BY <3>1, <3>2
    <2>8. BackInv'
      BY <1>k, <1>g, <2>7 DEF BackInv, HasInv
    <2> QED  BY <2>6, <2>8
  <1>5. CASE SetUpDone
    <2>1. doing \in DOMAIN rows /\ up' = [up EXCEPT ![Scope(doing)] = Append(@, doing)]
      BY <1>5, <1>d DEF SetUpDone
    <2>2. Up \cup {doing} \subseteq Up'
      BY <2>1, PushAddsOne
    <2>3. doing' = NoFixture /\ failed' = failed /\ has' = has /\ held' = held
      BY <1>5 DEF SetUpDone
    <2> QED  BY <1>r, <2>1, <2>2, <2>3, EndKeepsThings
  <1>6. CASE SetUpFails
    <2>1. doing \in DOMAIN rows /\ Up' = Up /\ Leave(doing) /\ doing \in failed'
      BY <1>6, <1>d DEF SetUpFails, Up, InStack
    <2>2. doing' = NoFixture /\ failed \subseteq failed' /\ has' = has
      BY <1>6 DEF SetUpFails, Leave
    <2> QED  BY <1>r, <2>1, <2>2, EndKeepsThings
  <1>7. CASE TearDownStep
    <2>1. doing \in DOMAIN rows /\ phase = "teardown" /\ step \in Nat \ {0}
      BY <1>7, <1>d DEF TearDownStep, TypeInv, PytestTypes
    <2>2. PICK s \in Steps : s = Undo(doing)[step]
      BY <1>7, <2>1, StepsOfARow DEF TearDownStep, TypeInv
    <2>3. step \in DOMAIN Undo(doing)
      BY <1>7, <2>1, StepsOfARow DEF TearDownStep, TypeInv
    <2>4. Perform(doing, s) /\ UNCHANGED <<up, failed, doing, phase>> /\ step' = step + 1
      BY <1>7, <2>2 DEF TearDownStep
    <2>5. Up' = Up
      BY <2>4 DEF Up, InStack
    <2>6. HeldInv'
      <3>1. held' \subseteq held \cup {<<doing, s.what>>}
        BY <2>2, <2>4, PerformedThings
      <3> QED  BY <2>4, <2>5, <3>1, <1>h
    <2>7. ASSUME GivesAllBack, NEW x \in has' \ KeptHosts
          PROVE  Owned(x)' /\ Returnable(x)' /\ StillReturned(x)'
      <3>0. ~Acquires(s)
        BY <2>1, <2>2, <2>3, <2>7 DEF GivesAllBack
      <3>1. x \in has
        BY <2>2, <2>4, <2>7, <3>0, PerformedThings
      <3>2. Owned(x) /\ Returnable(x) /\ StillReturned(x)
        BY <2>7, <3>1 DEF BackInv, HasInv
      <3>3. Owned(x)' /\ Returnable(x)'
        BY <1>r, <2>4, <2>5, <3>2 DEF Owned, Returnable, Releases, Undo, Effective
      <3>4. ASSUME doing = x[1]
            PROVE  \E j \in DOMAIN Undo(x[1]) : step + 1 <= j /\ Releases(Undo(x[1])[j], x[2])
        <4>1. PICK j \in DOMAIN Undo(x[1]) : step <= j /\ Releases(Undo(x[1])[j], x[2])
          BY <2>1, <3>2, <3>4 DEF StillReturned
        <4>2. j # step
          <5> SUFFICES ASSUME j = step  PROVE FALSE
            OBVIOUS
          <5>1. Releases(s, x[2]) /\ s.what = x[2]
            BY <2>2, <3>4, <4>1 DEF Releases
          <5>2. <<doing, s.what>> \notin has'
            BY <2>2, <2>4, <5>1, PerformedThings
          <5>3. x = <<x[1], x[2]>>
            BY <3>1 DEF TypeInv, ThingTypes
          <5> QED  BY <2>7, <3>4, <5>1, <5>2, <5>3
        <4>3. j \in Nat
          BY <2>1, <3>4, StepsOfARow DEF TypeInv
        <4> QED  BY <2>1, <4>1, <4>2, <4>3
      <3>5. StillReturned(x)'
        BY <1>r, <2>4, <3>4 DEF StillReturned, Releases, Undo, Effective
      <3> QED  BY <3>3, <3>5
    <2>8. BackInv'
      BY <1>k, <1>g, <2>7 DEF BackInv, HasInv
    <2> QED  BY <2>6, <2>8
  <1>8. CASE TearDownDone
    <2>1. doing \in DOMAIN rows /\ Pop(doing) /\ Last(Scope(doing)) /\ Leave(doing)
      BY <1>8, <1>d DEF TearDownDone, DoingInv
    <2>2. Up \subseteq Up' \cup {doing}
      BY <2>1, PopTakesOne
    <2>3. ASSUME GivesAllBack, NEW x \in has \ KeptHosts, x[1] = doing  PROVE FALSE
      <3>1. PICK j \in DOMAIN Undo(doing) : step <= j
        BY <1>8, <2>3 DEF BackInv, HasInv, StillReturned, TearDownDone
      <3>2. Undo(doing) \in Seq(Steps) /\ step \in Nat /\ step > Len(Undo(doing))
        BY <1>8, <2>1, StepsOfARow, 1 \in Nat \ {0} DEF TypeInv, TearDownDone, PytestTypes
      <3> QED  BY <3>1, <3>2
    <2>4. doing' = NoFixture /\ failed' = failed /\ has' = has
      BY <1>8 DEF TearDownDone, Leave
    <2> QED  BY <1>r, <2>1, <2>2, <2>3, <2>4, EndKeepsThings
  <1>9. CASE TearDownFails
    <2>1. doing \in DOMAIN rows /\ Pop(doing) /\ Last(Scope(doing)) /\ Leave(doing)
      BY <1>9, <1>d DEF TearDownFails, DoingInv
    <2>2. Up \subseteq Up' \cup {doing}
      BY <2>1, PopTakesOne
    <2>3. doing' = NoFixture /\ failed \subseteq failed' /\ has' = has /\ doing \in failed'
      BY <1>9 DEF TearDownFails, Leave
    <2> QED  BY <1>r, <2>1, <2>2, <2>3, EndKeepsThings
  <1>10. CASE UNCHANGED vars
    BY <1>10, SameThings DEF vars, pytestVars
  <1> QED
    BY <1>1, <1>2, <1>3, <1>4, <1>5, <1>6, <1>7, <1>8, <1>9, <1>10 DEF Next, Over

\* A host that is checked out, and an object that is made, is given back by the fixture that has
\* it, unless that has raised or server.auto_checkin lets the worker keep its Satellite, and a
\* "with" always ends: of any fixtures that give back in their teardown all that they take in
\* their set-up, in whichever order tests come and fixtures fail.
THEOREM ThingsAreGivenBack == Spec => [](GivesAllBack => ThingsGoBack)
  <1>1. Init => HeldInv /\ BackInv
    BY DEF Init, HeldInv, BackInv, HasInv
  <1>2. HeldInv /\ BackInv /\ (TypeInv /\ StackInv /\ DoingInv) /\ [Next]_vars
           => (HeldInv /\ BackInv)'
    BY StepKeepsThings
  <1>3. HeldInv /\ BackInv => (GivesAllBack => ThingsGoBack)
    BY DEF HeldInv, BackInv, HasInv, Owned, ThingsGoBack
  <1> QED  BY <1>1, <1>2, <1>3, StacksAreInOrder, PTL DEF Spec

-----------------------------------------------------------------------------
(***************************************************************************)
(* Hosts are torn down first.  What a table of fixtures has to say for it: *)
(* that before a host is given back, and after it was given back before,   *)
(* the same teardown tears it down; and no set-up gives a host back.       *)
(***************************************************************************)
Cleans(s, thing) == s.do = "clean" /\ s.what = thing /\ Effective(s)
Gives(s, thing) == s.do = "give" /\ s.what = thing

\* Step i tears the thing down, and it is not given back before step j.
CleanAt(f, i, j, thing) ==
    /\ Cleans(Undo(f)[i], thing)
    /\ \A k \in (i + 1)..(j - 1) : ~Gives(Undo(f)[k], thing)
CleansAllFirst ==
    \A f \in DOMAIN rows :
        /\ \A j \in DOMAIN Undo(f) : Undo(f)[j].do = "give" /\ Effective(Undo(f)[j]) =>
              \E i \in 1..(j - 1) : CleanAt(f, i, j, Undo(f)[j].what)
        /\ \A i \in DOMAIN Setup(f) : Setup(f)[i].do # "give"

\* A host that was torn down is known to be until it is given back.
CleanKnown ==
    phase = "teardown" /\ doing # NoFixture =>
        \A i \in 1..(step - 1) : \A t \in STRING :
            CleanAt(doing, i, step, t) /\ i <= Len(Undo(doing)) => <<doing, t>> \in clean
CleanInv == CleansAllFirst => rough = {} /\ CleanKnown

LEMMA PerformedHosts ==
    ASSUME NEW f, NEW s \in Steps, Perform(f, s)
    PROVE  /\ Cleans(s, s.what) => <<f, s.what>> \in clean'
           /\ \A t : ~Gives(s, t) /\ <<f, t>> \in clean => <<f, t>> \in clean'
           /\ (~(s.do = "give" /\ Effective(s)) \/ <<f, s.what>> \in clean) => rough' = rough
  <1> USE DEF thingVars, settingVars, Cleans, Gives, Effective
  <1>1. CASE UNCHANGED <<thingVars, settingVars>> /\ (suite.mode \notin s.modes \/ s.do = "run")
    BY <1>1
  <1>2. CASE Acquire(f, s)
    BY <1>2 DEF Acquire
  <1>3. CASE Enter(f, s)
    BY <1>3 DEF Enter
  <1>4. CASE TearHostDown(f, s)
    BY <1>4 DEF TearHostDown
  <1>5. CASE Delete(f, s)
    BY <1>5 DEF Delete
  <1>6. CASE GiveBack(f, s) /\ suite.mode \in s.modes
    <2>1. \A t : <<f, t>> = <<f, s.what>> => t = s.what
      OBVIOUS
    <2> QED  BY <1>6, <2>1 DEF GiveBack
  <1>7. CASE Write(f, s)
    BY <1>7 DEF Write
  <1>8. CASE Restore(f, s)
    BY <1>8 DEF Restore
  <1>9. CASE BackUp(f, s)
    BY <1>9 DEF BackUp
  <1>10. CASE RecoverBackUp(f, s)
    BY <1>10 DEF RecoverBackUp
  <1> QED
    BY <1>1, <1>2, <1>3, <1>4, <1>5, <1>6, <1>7, <1>8, <1>9, <1>10 DEF Perform

LEMMA StepKeepsClean ==
    TypeInv /\ DoingInv /\ CleanInv /\ [Next]_vars => CleanInv'
  <1> SUFFICES ASSUME TypeInv, DoingInv, CleanInv, [Next]_vars, CleansAllFirst'
               PROVE  rough' = {} /\ CleanKnown'
    BY DEF CleanInv
  <1> USE DEF thingVars, settingVars
  <1>r. UNCHANGED <<suite, rows>>
    BY RowsStay
  <1>g. CleansAllFirst
    BY <1>r DEF CleansAllFirst, CleanAt, Setup, Undo, Effective, Cleans, Gives
  <1>i. rough = {} /\ CleanKnown
    BY <1>g DEF CleanInv
  <1>d. doing = NoFixture \/ doing \in DOMAIN rows
    BY DEF TypeInv, PytestTypes
  <1>n. ASSUME doing' = NoFixture \/ phase' # "teardown"  PROVE CleanKnown'
    BY <1>n DEF CleanKnown
  <1>s. ASSUME UNCHANGED <<doing, phase, step, clean>>  PROVE CleanKnown'
    BY <1>s, <1>r, <1>i DEF CleanKnown, CleanAt, Cleans, Gives, Undo, Effective
  <1>1. ASSUME NEW test \in suite.tests, StartTest(test)  PROVE rough' = {} /\ CleanKnown'
    BY <1>1, <1>i, <1>n DEF StartTest
  <1>2. CASE BeginSetUp \/ Refuse \/ Run1 \/ AllDown
    <2>1. rough' = rough /\ (doing' = NoFixture \/ phase' # "teardown")
      BY <1>2 DEF BeginSetUp, Refuse, Run1, AllDown
    <2> QED  BY <1>i, <1>n, <2>1
  <1>3. ASSUME NEW scopes \in Endings, EndTest(scopes)  PROVE rough' = {} /\ CleanKnown'
    <2>1. doing = NoFixture
      BY <1>3 DEF EndTest, DoingInv
    <2> QED  BY <1>3, <1>i, <1>n, <2>1 DEF EndTest
  <1>4. CASE SetUpStep
    <2>1. doing \in DOMAIN rows /\ step \in Nat \ {0}
      BY <1>4, <1>d DEF SetUpStep, TypeInv, PytestTypes
    <2>2. PICK s \in Steps : s = Setup(doing)[step]
      BY <1>4, <2>1, StepsOfARow DEF SetUpStep, TypeInv
    <2>3. step \in DOMAIN Setup(doing)
      BY <1>4, <2>1, StepsOfARow DEF SetUpStep, TypeInv
    <2>4. s.do # "give"
      BY <1>g, <2>1, <2>2, <2>3 DEF CleansAllFirst
    <2>5. Perform(doing, s)
      BY <1>4, <2>2 DEF SetUpStep
    <2>6. rough' = rough
      BY <2>4, <2>5, PerformedHosts
    <2> QED  BY <1>4, <1>i, <1>n, <2>6 DEF SetUpStep
  <1>5. CASE SetUpDone \/ SetUpFails \/ TearDownDone \/ TearDownFails
    <2>1. rough' = rough /\ doing' = NoFixture
      BY <1>5 DEF SetUpDone, SetUpFails, TearDownDone, TearDownFails, Leave
    <2> QED  BY <1>i, <1>n, <2>1
  <1>6. CASE BeginTearDown
    <2>1. rough' = rough /\ step' = 1
      BY <1>6 DEF BeginTearDown
    <2> QED  BY <1>i, <2>1 DEF CleanKnown
  <1>7. CASE TearDownStep
    <2>1. doing \in DOMAIN rows /\ doing # NoFixture /\ phase = "teardown" /\ step \in Nat \ {0}
      BY <1>7, <1>d DEF TearDownStep, TypeInv, PytestTypes
    <2>2. PICK s \in Steps : s = Undo(doing)[step]
      BY <1>7, <2>1, StepsOfARow DEF TearDownStep, TypeInv
    <2>3. step \in DOMAIN Undo(doing) /\ step <= Len(Undo(doing)) /\ Len(Undo(doing)) \in Nat
      BY <1>7, <2>1, StepsOfARow DEF TearDownStep, TypeInv
    <2>4. Perform(doing, s) /\ UNCHANGED <<doing, phase>> /\ step' = step + 1
      BY <1>7, <2>2 DEF TearDownStep
    <2>5. s.what \in STRING
      BY DEF Steps
    <2>6. rough' = rough
      <3>1. CASE s.do = "give" /\ Effective(s)
        <4>1. PICK i \in 1..(step - 1) : CleanAt(doing, i, step, s.what)
          BY <1>g, <2>1, <2>2, <2>3, <3>1 DEF CleansAllFirst
        <4>2. i <= Len(Undo(doing))
          BY <2>1, <2>3
        <4>3. <<doing, s.what>> \in clean
          BY <1>i, <2>1, <2>5, <4>1, <4>2 DEF CleanKnown
        <4> QED  BY <2>4, <4>3, PerformedHosts
      <3>2. CASE ~(s.do = "give" /\ Effective(s))
        BY <2>4, <3>2, PerformedHosts
      <3> QED  BY <3>1, <3>2
    <2>7. ASSUME NEW i \in 1..step, NEW t \in STRING, CleanAt(doing, i, step + 1, t)
          PROVE  <<doing, t>> \in clean'
      <3>1. CASE i = step
        <4>1. Cleans(s, t) /\ t = s.what
          BY <2>2, <2>7, <3>1 DEF CleanAt, Cleans
        <4> QED  BY <2>4, <4>1, PerformedHosts
      <3>2. CASE i # step
        <4>1. i \in 1..(step - 1) /\ i <= Len(Undo(doing))
          BY <2>1, <2>3, <3>2
        <4>2. CleanAt(doing, i, step, t) /\ ~Gives(s, t)
          <5>1. step \in (i + 1)..((step + 1) - 1)
            BY <2>1, <4>1
          <5>2. (i + 1)..(step - 1) \subseteq (i + 1)..((step + 1) - 1)
            BY <2>1, <4>1
          <5> QED  BY <2>2, <2>7, <5>1, <5>2 DEF CleanAt
        <4>3. <<doing, t>> \in clean
          BY <1>i, <2>1, <4>1, <4>2 DEF CleanKnown
        <4> QED  BY <2>4, <4>2, <4>3, PerformedHosts
      <3> QED  BY <3>1, <3>2
    <2>8. CleanKnown'
      <3>1. 1..((step + 1) - 1) = 1..step
        BY <2>1
      <3>2. \A i, t : CleanAt(doing, i, step, t)' => CleanAt(doing, i, step + 1, t)
        BY <1>r, <2>4 DEF CleanAt, Cleans, Gives, Undo, Effective
      <3> QED  BY <2>4, <2>7, <3>1, <3>2 DEF CleanKnown
    <2> QED  BY <1>i, <2>6, <2>8
  <1>8. CASE UNCHANGED vars
    BY <1>8, <1>i, <1>s DEF vars, pytestVars
  <1> QED
    BY <1>1, <1>2, <1>3, <1>4, <1>5, <1>6, <1>7, <1>8 DEF Next, Over

\* No host is given back that was not torn down: of any fixtures whose teardown has the two in
\* that order, also when a fixture raises between them.
THEOREM HostsAreTornDown == Spec => [](CleansAllFirst => TornDownFirst)
  <1>1. Init => CleanInv
    BY DEF Init, CleanInv, CleanKnown
  <1>2. CleanInv /\ (TypeInv /\ StackInv /\ DoingInv) /\ [Next]_vars => CleanInv'
    BY StepKeepsClean
  <1>3. CleanInv => (CleansAllFirst => TornDownFirst)
    BY DEF CleanInv, TornDownFirst
  <1> QED  BY <1>1, <1>2, <1>3, StacksAreInOrder, PTL DEF Spec

-----------------------------------------------------------------------------
(***************************************************************************)
(* Settings are restored.  What a table of fixtures has to say for it of a *)
(* setting: only set-ups give it a value, and only teardowns put an older  *)
(* one back; a fixture that gives it a value puts it back, unless it is    *)
(* one of the Keepers; an old value is kept before the fixture gives the   *)
(* setting its own; a fixture that keeps one shares its scope with all     *)
(* that might have given it; and a backup file serves one fixture, which   *)
(* needs the Satellite that it is on if that is given back.                *)
(***************************************************************************)
Assigning == {"set", "change"}
Restoring == {"back", "reset", "recover"}
At(steps, kinds, k) ==
    {i \in DOMAIN steps : steps[i].do \in kinds /\ Effective(steps[i]) /\ Key(steps[i]) = k}
SetUpAt(f, kinds, k) == At(Setup(f), kinds, k)
UndoAt(f, kinds, k) == At(Undo(f), kinds, k)
Assigns(f, k) == SetUpAt(f, Assigning, k) # {}
Recovers(f, k) == UndoAt(f, {"recover"}, k) # {}
GivesItsHost(steps) == \E i \in DOMAIN steps : steps[i].do = "give" /\ Effective(steps[i])
Tended(k) ==
    \A f \in DOMAIN rows :
        /\ UndoAt(f, {"set", "change", "backup"}, k) = {}
        /\ SetUpAt(f, {"back", "recover"}, k) = {}
        /\ Assigns(f, k) /\ f \notin Keepers => UndoAt(f, Restoring, k) # {}
        /\ \A i \in SetUpAt(f, {"change", "backup"}, k) : \A j \in SetUpAt(f, Assigning, k) :
              i <= j
        /\ SetUpAt(f, {"change"}, k) # {} =>
              \A g \in DOMAIN rows \ Keepers : Assigns(g, k) => Scope(g) = Scope(f)
        /\ Recovers(f, k) =>
              /\ SetUpAt(f, {"backup"}, k) # {}
              /\ \A g \in DOMAIN rows \ {f} :
                    ~Assigns(g, k) /\ SetUpAt(g, {"backup"}, k) = {} /\ ~Recovers(g, k)
              /\ \A g \in DOMAIN rows : g = k[1] =>
                    ~GivesItsHost(Setup(g)) /\ (GivesItsHost(Undo(g)) => g \in Needs(f))

\* The value of a setting, if it is that of a fixture which has yet to put an older one back.
Lasting(v) == v \in {Found} \cup Keepers \cup failed
Current(v, k) ==
    /\ Assigns(v, k) /\ v \in Up \cup {doing}
    /\ doing = v /\ phase = "setup" => \E i \in SetUpAt(v, Assigning, k) : i < step
    /\ doing = v /\ phase = "teardown" => \A j \in UndoAt(v, Restoring, k) : step <= j
ValueInv(k) == Lasting(Value(k)) \/ Current(Value(k), k)

\* What f has kept is the value of a fixture that will be there when f is no more.
Before(g, f) ==
    LET stack == up[Scope(f)]
    IN \E i \in DOMAIN stack :
          stack[i] = g /\ \A j \in DOMAIN stack : stack[j] = f => i < j
SavedInv(k) ==
    \A f : <<f, k>> \in DOMAIN saved =>
        LET v == saved[<<f, k>>]
        IN f \in DOMAIN rows /\ f \in Up \cup {doing} /\ (Lasting(v) \/ (Assigns(v, k) /\ Before(v, f)))

\* A backup file has what was there before f, and it is there as long as f may need it.
NeedsCopy(f, k) ==
    \/ f \in Up \ {doing}
    \/ doing = f /\ phase = "setup" /\ \E i \in SetUpAt(f, {"backup"}, k) : i < step
    \/ doing = f /\ phase = "teardown" /\ \A i \in UndoAt(f, {"recover"}, k) : step <= i
CopyInv(k) ==
    \A f \in DOMAIN rows : Recovers(f, k) =>
        /\ k \in DOMAIN copy => Lasting(copy[k])
        /\ f \notin failed /\ NeedsCopy(f, k) => k \in DOMAIN copy
ThreeInv(k) == ValueInv(k) /\ SavedInv(k) /\ CopyInv(k)
SettingInv == \A k : Tended(k) => ThreeInv(k)

\* No fixture is set up twice.
OnceInv ==
    /\ \A s \in Scopes : \A i, j \in DOMAIN up[s] : up[s][i] = up[s][j] => i = j
    /\ phase = "setup" => doing \notin Up

LEMMA TablesStay ==
    ASSUME UNCHANGED <<suite, rows>>
    PROVE  /\ \A f, kinds, k : /\ SetUpAt(f, kinds, k)' = SetUpAt(f, kinds, k)
                               /\ UndoAt(f, kinds, k)' = UndoAt(f, kinds, k)
           /\ \A f, k : Assigns(f, k)' = Assigns(f, k) /\ Recovers(f, k)' = Recovers(f, k)
           /\ \A f : Scope(f)' = Scope(f) /\ Needs(f)' = Needs(f)
           /\ \A s : Effective(s)' = Effective(s) /\ Key(s)' = Key(s)
           /\ \A f : /\ GivesItsHost(Setup(f))' = GivesItsHost(Setup(f))
                     /\ GivesItsHost(Undo(f))' = GivesItsHost(Undo(f))
  <1>1. \A s : Effective(s)' = Effective(s) /\ Key(s)' = Key(s)
    BY DEF Effective, Key, Place
  <1>2. \A f : Setup(f)' = Setup(f) /\ Undo(f)' = Undo(f) /\ Scope(f)' = Scope(f)
                  /\ Needs(f)' = Needs(f)
    BY DEF Setup, Undo, Scope, Needs
  <1>3. \A f, kinds, k : /\ SetUpAt(f, kinds, k)' = SetUpAt(f, kinds, k)
                         /\ UndoAt(f, kinds, k)' = UndoAt(f, kinds, k)
    BY <1>1, <1>2 DEF SetUpAt, UndoAt, At
  <1>4. \A f, k : Assigns(f, k)' = Assigns(f, k) /\ Recovers(f, k)' = Recovers(f, k)
    BY <1>3 DEF Assigns, Recovers
  <1>5. \A f : /\ GivesItsHost(Setup(f))' = GivesItsHost(Setup(f))
               /\ GivesItsHost(Undo(f))' = GivesItsHost(Undo(f))
    BY DEF GivesItsHost, Effective, Setup, Undo
  <1> QED  BY <1>1, <1>2, <1>3, <1>4, <1>5

LEMMA TendedStays ==
    ASSUME UNCHANGED <<suite, rows>>, NEW k
    PROVE  Tended(k)' = Tended(k)
  BY TablesStay DEF Tended

\* The index of a step.
LEMMA StepIsAt ==
    ASSUME TypeInv, NEW f \in DOMAIN rows, NEW s \in Steps, NEW kinds, NEW k,
           s.do \in kinds, Effective(s), Key(s) = k
    PROVE  /\ step \in DOMAIN Setup(f) /\ s = Setup(f)[step] => step \in SetUpAt(f, kinds, k)
           /\ step \in DOMAIN Undo(f) /\ s = Undo(f)[step] => step \in UndoAt(f, kinds, k)
  BY DEF SetUpAt, UndoAt, At

LEMMA IndexesAreNumbers ==
    ASSUME RowsInv, NEW f \in DOMAIN rows, NEW kinds, NEW k
    PROVE  /\ SetUpAt(f, kinds, k) \subseteq 1..Len(Setup(f))
           /\ UndoAt(f, kinds, k) \subseteq 1..Len(Undo(f))
           /\ Len(Setup(f)) \in Nat /\ Len(Undo(f)) \in Nat
  <1>1. Setup(f) \in Seq(Steps) /\ Undo(f) \in Seq(Steps)
    BY StepsOfARow, 1 \in Nat \ {0}
  <1> QED  BY <1>1 DEF SetUpAt, UndoAt, At

-----------------------------------------------------------------------------
\* What a step of f does to a setting, to what fixtures have kept of it, and to its backup file.
SavedStays(k) ==
    \A g : /\ <<g, k>> \in DOMAIN saved' <=> <<g, k>> \in DOMAIN saved
           /\ <<g, k>> \in DOMAIN saved => saved'[<<g, k>>] = saved[<<g, k>>]
SavedBy(f, k) ==
    /\ \A g : <<g, k>> \in DOMAIN saved' <=> <<g, k>> \in DOMAIN saved \/ g = f
    /\ saved'[<<f, k>>] = Value(k)
    /\ \A g : g # f /\ <<g, k>> \in DOMAIN saved => saved'[<<g, k>>] = saved[<<g, k>>]
CopyStays(k) ==
    /\ k \in DOMAIN copy' <=> k \in DOMAIN copy
    /\ k \in DOMAIN copy => copy'[k] = copy[k]
DoesAt(s, kinds, k) == s.do \in kinds /\ Effective(s) /\ Key(s) = k

GivesValue(f, s, k) ==
    DoesAt(s, {"set"}, k) /\ Value(k)' = f /\ SavedStays(k) /\ CopyStays(k)
KeepsAndGives(f, s, k) ==
    DoesAt(s, {"change"}, k) /\ Value(k)' = f /\ SavedBy(f, k) /\ CopyStays(k)
Resets(s, k) ==
    DoesAt(s, {"reset"}, k) /\ Value(k)' = Found /\ SavedStays(k) /\ CopyStays(k)
PutsBack(f, s, k) ==
    /\ DoesAt(s, {"back"}, k)
    /\ Value(k)' = IF <<f, k>> \in DOMAIN saved THEN saved[<<f, k>>] ELSE Found
    /\ SavedStays(k) /\ CopyStays(k)
Copies(s, k) ==
    /\ DoesAt(s, {"backup"}, k) /\ Value(k)' = Value(k) /\ SavedStays(k)
    /\ k \in DOMAIN copy' /\ copy'[k] = Value(k)
MovesCopy(s, k) ==
    /\ DoesAt(s, {"recover"}, k)
    /\ Value(k)' = IF k \in DOMAIN copy THEN copy[k] ELSE Value(k)
    /\ SavedStays(k) /\ k \notin DOMAIN copy'
GivesHost(f, s, k) ==
    /\ s.do = "give" /\ Effective(s)
    /\ Value(k)' = IF k[1] = f THEN Found ELSE Value(k)
    /\ SavedStays(k)
    /\ IF k[1] = f THEN k \notin DOMAIN copy' ELSE CopyStays(k)
LeavesAlone(s, k) ==
    /\ ~DoesAt(s, Assigning \cup Restoring \cup {"backup"}, k)
    /\ ~(s.do = "give" /\ Effective(s))
    /\ Value(k)' = Value(k) /\ SavedStays(k) /\ CopyStays(k)

LEMMA AssignedValue ==
    ASSUME NEW k, NEW v, NEW l, value' = Assign(l, v)
    PROVE  Value(k)' = IF k = l THEN v ELSE Value(k)
  BY DEF Assign, With, Without, Value

LEMMA PerformedSettings ==
    ASSUME NEW f, NEW s \in Steps, Perform(f, s), NEW k
    PROVE  \/ GivesValue(f, s, k) \/ KeepsAndGives(f, s, k) \/ Resets(s, k)
           \/ PutsBack(f, s, k) \/ Copies(s, k) \/ MovesCopy(s, k) \/ GivesHost(f, s, k)
           \/ LeavesAlone(s, k)
  <1> USE DEF GivesValue, KeepsAndGives, Resets, PutsBack, Copies, MovesCopy, GivesHost,
              LeavesAlone
  <1> USE DEF thingVars, settingVars, DoesAt, Effective
  <1> DEFINE l == Key(s)
  <1>t. \A g : <<f, l>> = <<g, k>> <=> f = g /\ l = k
    OBVIOUS
  <1> HIDE DEF l
  <1>s. saved' = saved => SavedStays(k)
    BY DEF SavedStays
  <1>c. copy' = copy => CopyStays(k)
    BY DEF CopyStays
  <1>v. value' = value => Value(k)' = Value(k)
    BY DEF Value
  <1>1. CASE UNCHANGED <<thingVars, settingVars>> /\ (suite.mode \notin s.modes \/ s.do = "run")
    BY <1>1, <1>s, <1>c, <1>v DEF Assigning, Restoring
  <1>2. CASE Acquire(f, s)
    BY <1>2, <1>s, <1>c, <1>v DEF Acquire, Assigning, Restoring
  <1>3. CASE Enter(f, s)
    BY <1>3, <1>s, <1>c, <1>v DEF Enter, Assigning, Restoring
  <1>4. CASE TearHostDown(f, s)
    BY <1>4, <1>s, <1>c, <1>v DEF TearHostDown, Assigning, Restoring
  <1>5. CASE Delete(f, s)
    BY <1>5, <1>s, <1>c, <1>v DEF Delete, Assigning, Restoring
  <1>6. CASE GiveBack(f, s) /\ suite.mode \in s.modes
    <2>1. value' = Without(value, {j \in DOMAIN value : j[1] = f})
      BY <1>6 DEF GiveBack
    <2>2. Value(k)' = IF k[1] = f THEN Found ELSE Value(k)
      BY <2>1 DEF Without, Value
    <2>3. copy' = Without(copy, {j \in DOMAIN copy : j[1] = f})
      BY <1>6 DEF GiveBack
    <2>4. IF k[1] = f THEN k \notin DOMAIN copy' ELSE CopyStays(k)
      BY <2>3 DEF Without, CopyStays
    <2>5. s.do = "give" /\ saved' = saved
      BY <1>6 DEF GiveBack
    <2> QED  BY <1>6, <1>s, <2>2, <2>4, <2>5
  <1>7. CASE Write(f, s) /\ suite.mode \in s.modes
    <2>1. /\ value' = Assign(l, f) /\ copy' = copy /\ s.do \in {"set", "change"}
          /\ saved' = IF s.do = "change" THEN With(saved, <<f, l>>, Value(l)) ELSE saved
      BY <1>7 DEF Write, l
    <2>2. Value(k)' = IF k = l THEN f ELSE Value(k)
      BY <2>1, AssignedValue
    <2>3. CASE s.do = "change" /\ k = l
      <3>1. SavedBy(f, k)
        BY <1>t, <2>1, <2>3 DEF SavedBy, With
      <3> QED  BY <1>7, <1>c, <2>1, <2>2, <2>3, <3>1 DEF l
    <2>4. CASE s.do = "change" /\ k # l
      <3>1. SavedStays(k)
        BY <1>t, <2>1, <2>4 DEF SavedStays, With
      <3> QED  BY <1>7, <1>c, <2>1, <2>2, <2>4, <3>1 DEF l
    <2>5. CASE s.do = "set"
      BY <1>7, <1>s, <1>c, <2>1, <2>2, <2>5 DEF l
    <2> QED  BY <2>1, <2>3, <2>4, <2>5
  <1>8. CASE Restore(f, s) /\ suite.mode \in s.modes
    <2> DEFINE old == IF s.do = "back" /\ <<f, l>> \in DOMAIN saved THEN saved[<<f, l>>] ELSE Found
    <2>1. value' = Assign(l, old) /\ copy' = copy /\ saved' = saved /\ s.do \in {"back", "reset"}
      BY <1>8 DEF Restore, l
    <2>2. Value(k)' = IF k = l THEN old ELSE Value(k)
      BY <2>1, AssignedValue
    <2> QED  BY <1>8, <1>s, <1>c, <2>1, <2>2 DEF l
  <1>9. CASE BackUp(f, s) /\ suite.mode \in s.modes
    <2>1. copy' = With(copy, l, Value(l)) /\ value' = value /\ saved' = saved /\ s.do = "backup"
      BY <1>9 DEF BackUp, l
    <2>2. CASE k = l
      <3>1. k \in DOMAIN copy' /\ copy'[k] = Value(k)
        BY <2>1, <2>2 DEF With
      <3> QED  BY <1>9, <1>s, <1>v, <2>1, <2>2, <3>1 DEF l
    <2>3. CASE k # l
      <3>1. CopyStays(k)
        BY <2>1, <2>3 DEF With, CopyStays
      <3> QED  BY <1>9, <1>s, <1>v, <2>1, <2>3, <3>1 DEF l
    <2> QED  BY <2>2, <2>3
  <1>10. CASE RecoverBackUp(f, s) /\ suite.mode \in s.modes
    <2>1. /\ value' = IF l \in DOMAIN copy THEN Assign(l, copy[l]) ELSE value
          /\ copy' = Without(copy, {l}) /\ saved' = saved /\ s.do = "recover"
      BY <1>10 DEF RecoverBackUp, l
    <2>2. Value(k)' = IF k = l /\ l \in DOMAIN copy THEN copy[l] ELSE Value(k)
      BY <1>v, <2>1, AssignedValue
    <2>3. CASE k = l
      <3>1. k \notin DOMAIN copy'
        BY <2>1, <2>3 DEF Without
      <3> QED  BY <1>10, <1>s, <2>1, <2>2, <2>3, <3>1 DEF l
    <2>4. CASE k # l
      <3>1. CopyStays(k)
        BY <2>1, <2>4 DEF Without, CopyStays
      <3> QED  BY <1>10, <1>s, <2>1, <2>2, <2>4, <3>1 DEF l
    <2> QED  BY <2>3, <2>4
  <1> QED
    BY <1>1, <1>2, <1>3, <1>4, <1>5, <1>6, <1>7, <1>8, <1>9, <1>10 DEF Perform

-----------------------------------------------------------------------------
\* A push puts a fixture on the end of its stack, and a pop takes it away.
LEMMA PushIs ==
    ASSUME TypeInv, doing \in DOMAIN rows,
           up' = [up EXCEPT ![Scope(doing)] = Append(@, doing)]
    PROVE  /\ \A s \in Scopes : \A i \in DOMAIN up[s] : i \in DOMAIN up'[s] /\ up'[s][i] = up[s][i]
           /\ \A s \in Scopes : \A i \in DOMAIN up'[s] :
                 \/ i \in DOMAIN up[s]
                 \/ s = Scope(doing) /\ up'[s][i] = doing /\ \A j \in DOMAIN up[s] : j < i
           /\ Up' = Up \cup {doing}
  <1> DEFINE s0 == Scope(doing)
             q == up[s0]
  <1>1. /\ s0 \in Scopes /\ up \in [Scopes -> Seq(DOMAIN rows)] /\ q \in Seq(DOMAIN rows)
    BY StepsOfARow, 1 \in Nat \ {0} DEF TypeInv, PytestTypes
  <1>2. /\ up'[s0] = Append(q, doing)
        /\ \A s \in Scopes : s # s0 => up'[s] = up[s]
    BY <1>1
  <1>3. /\ DOMAIN up'[s0] = 1..(Len(q) + 1) /\ DOMAIN q = 1..Len(q) /\ Len(q) \in Nat
        /\ \A i \in 1..Len(q) : up'[s0][i] = q[i]
        /\ up'[s0][Len(q) + 1] = doing
    BY <1>1, <1>2
  <1>4. \A s \in Scopes : \A i \in DOMAIN up[s] : i \in DOMAIN up'[s] /\ up'[s][i] = up[s][i]
    BY <1>2, <1>3
  <1>5. ASSUME NEW s \in Scopes, NEW i \in DOMAIN up'[s], i \notin DOMAIN up[s]
        PROVE  s = s0 /\ up'[s][i] = doing /\ \A j \in DOMAIN up[s] : j < i
    <2>1. s = s0
      BY <1>2, <1>5
    <2>2. i = Len(q) + 1
      BY <1>3, <1>5, <2>1
    <2> QED  BY <1>3, <2>1, <2>2
  <1>6. Len(q) + 1 \in DOMAIN up'[s0]
    BY <1>3
  <1>7. Up \cup {doing} \subseteq Up'
    BY PushAddsOne
  <1> HIDE DEF q, s0
  <1>8. Up' \subseteq Up \cup {doing}
    BY <1>4, <1>5 DEF Up, InStack
  <1> QED  BY <1>4, <1>5, <1>7, <1>8 DEF s0

LEMMA PopIs ==
    ASSUME TypeInv, StackInv, OnceInv, doing \in DOMAIN rows, Last(Scope(doing)), Pop(doing)
    PROVE  /\ \A s \in Scopes : \A i \in DOMAIN up'[s] :
                 i \in DOMAIN up[s] /\ up'[s][i] = up[s][i] /\ up[s][i] # doing
           /\ \A s \in Scopes : \A i \in DOMAIN up[s] : up[s][i] # doing =>
                 i \in DOMAIN up'[s] /\ up'[s][i] = up[s][i]
           /\ Up' = Up \ {doing}
  <1> DEFINE s0 == Scope(doing)
             q == up[s0]
  <1>1. /\ s0 \in Scopes /\ up \in [Scopes -> Seq(DOMAIN rows)] /\ q \in Seq(DOMAIN rows)
        /\ q # << >> /\ doing = q[Len(q)]
    BY StepsOfARow, 1 \in Nat \ {0} DEF TypeInv, PytestTypes, Last
  <1>2. /\ up'[s0] = SubSeq(q, 1, Len(q) - 1)
        /\ \A s \in Scopes : s # s0 => up'[s] = up[s]
    BY <1>1 DEF Pop
  <1>3. /\ DOMAIN up'[s0] = 1..(Len(q) - 1) /\ DOMAIN q = 1..Len(q) /\ Len(q) \in Nat \ {0}
        /\ \A i \in 1..(Len(q) - 1) : up'[s0][i] = q[i]
    BY <1>1, <1>2
  <1>4. ASSUME NEW s \in Scopes, NEW i \in DOMAIN up'[s]
        PROVE  i \in DOMAIN up[s] /\ up'[s][i] = up[s][i] /\ up[s][i] # doing
    <2>1. CASE s # s0
      <3>1. i \in DOMAIN up[s] /\ up'[s][i] = up[s][i]
        BY <1>2, <1>4, <2>1
      <3>2. Scope(up[s][i]) = s
        BY <3>1 DEF StackInv
      <3> QED  BY <2>1, <3>1, <3>2
    <2>2. CASE s = s0
      <3>1. i \in 1..(Len(q) - 1) /\ i \in DOMAIN q /\ Len(q) \in DOMAIN q /\ i # Len(q)
        BY <1>3, <1>4, <2>2
      <3>2. q[i] # q[Len(q)]
        BY <1>1, <3>1 DEF OnceInv
      <3> QED  BY <1>1, <1>3, <2>2, <3>1, <3>2
    <2> QED  BY <2>1, <2>2
  <1>5. ASSUME NEW s \in Scopes, NEW i \in DOMAIN up[s], up[s][i] # doing
        PROVE  i \in DOMAIN up'[s] /\ up'[s][i] = up[s][i]
    <2>1. CASE s # s0
      BY <1>2, <2>1
    <2>2. CASE s = s0
      BY <1>1, <1>3, <1>5, <2>2
    <2> QED  BY <2>1, <2>2
  <1> HIDE DEF q, s0
  <1>6. Up' = Up \ {doing}
    BY <1>4, <1>5 DEF Up, InStack
  <1> QED  BY <1>4, <1>5, <1>6

LEMMA StepKeepsOnceInv ==
    TypeInv /\ StackInv /\ DoingInv /\ OnceInv /\ [Next]_vars => OnceInv'
  <1> SUFFICES ASSUME TypeInv, StackInv, DoingInv, OnceInv, [Next]_vars  PROVE OnceInv'
    OBVIOUS
  <1>r. UNCHANGED <<suite, rows>>
    BY RowsStay
  <1>d. doing = NoFixture \/ doing \in DOMAIN rows
    BY DEF TypeInv, PytestTypes
  <1>0. NoFixture \notin Up
    <2>1. \A n \in Up : n \in DOMAIN rows
      BY UpIsOnAStack
    <2> QED  BY <2>1, TableAssumption DEF TypeInv, RowsInv
  <1>u. up' = up => Up' = Up
    BY DEF Up, InStack
  <1>n. ASSUME up' = up, doing' = NoFixture \/ phase' # "setup" \/ (doing' = doing /\ phase' = phase)
        PROVE  OnceInv'
    BY <1>n, <1>u, <1>0 DEF OnceInv
  <1>1. ASSUME NEW test \in suite.tests, StartTest(test)  PROVE OnceInv'
    <2>1. doing = NoFixture
      BY <1>1 DEF StartTest, DoingInv
    <2> QED  BY <1>1, <1>n, <2>1 DEF StartTest
  <1>2. CASE BeginSetUp
    <2>1. up' = up /\ doing' \notin Up
      BY <1>2, ComingIsWanted DEF BeginSetUp, Candidates
    <2> QED  BY <2>1, <1>u DEF OnceInv
  <1>3. CASE Refuse \/ Run1 \/ SetUpStep \/ SetUpFails
    BY <1>3, <1>n DEF Refuse, Run1, SetUpStep, SetUpFails
  <1>4. CASE SetUpDone
    <2>1. doing \in DOMAIN rows /\ up' = [up EXCEPT ![Scope(doing)] = Append(@, doing)]
             /\ doing \notin Up /\ doing' = NoFixture
      BY <1>4, <1>d DEF SetUpDone, OnceInv
    <2>2. NoFixture \notin Up'
      BY <1>0, <2>1, PushIs, TableAssumption DEF TypeInv, RowsInv
    <2>3. ASSUME NEW s \in Scopes, NEW i \in DOMAIN up'[s], NEW j \in DOMAIN up'[s],
                 up'[s][i] = up'[s][j]
          PROVE  i = j
      <3>0. \A l \in DOMAIN up[s] : up[s][l] # doing
        BY <2>1 DEF Up, InStack
      <3>1. CASE i \in DOMAIN up[s] /\ j \in DOMAIN up[s]
        BY <2>1, <2>3, <3>1, PushIs DEF OnceInv
      <3>2. CASE i \notin DOMAIN up[s]
        <4>1. j \notin DOMAIN up[s]
          BY <2>1, <2>3, <3>0, <3>2, PushIs
        <4>2. DOMAIN up[s] = 1..Len(up[s]) /\ Len(up[s]) \in Nat
          BY DEF TypeInv, PytestTypes
        <4>3. s = Scope(doing)
          BY <2>1, <3>2, PushIs
        <4>4. DOMAIN up'[s] = 1..(Len(up[s]) + 1)
          BY <2>1, <4>3 DEF TypeInv, PytestTypes
        <4> QED  BY <3>2, <4>1, <4>2, <4>4
      <3>3. CASE i \in DOMAIN up[s] /\ j \notin DOMAIN up[s]
        BY <2>1, <2>3, <3>0, <3>3, PushIs
      <3> QED  BY <3>1, <3>2, <3>3
    <2> QED  BY <2>1, <2>2, <2>3 DEF OnceInv
  <1>5. ASSUME NEW scopes \in Endings, EndTest(scopes)  PROVE OnceInv'
    BY <1>5, <1>n DEF EndTest
  <1>6. CASE BeginTearDown \/ TearDownStep
    BY <1>6, <1>n DEF BeginTearDown, TearDownStep
  <1>7. CASE TearDownDone \/ TearDownFails
    <2>1. doing \in DOMAIN rows /\ Pop(doing) /\ Last(Scope(doing)) /\ phase' # "setup"
      BY <1>7, <1>d DEF TearDownDone, TearDownFails, DoingInv
    <2>2. \A s \in Scopes : \A i \in DOMAIN up'[s] : i \in DOMAIN up[s] /\ up'[s][i] = up[s][i]
      BY <2>1, PopIs
    <2> QED  BY <2>1, <2>2 DEF OnceInv
  <1>8. CASE AllDown
    BY <1>8, <1>n DEF AllDown
  <1>9. CASE UNCHANGED vars
    BY <1>9, <1>n DEF vars, pytestVars
  <1> QED
    BY <1>1, <1>2, <1>3, <1>4, <1>5, <1>6, <1>7, <1>8, <1>9 DEF Next, Over

\* What is before a fixture on its stack stays there as long as that fixture.
LEMMA BeforeAfterPush ==
    ASSUME TypeInv, doing \in DOMAIN rows, rows' = rows, NEW f \in DOMAIN rows, NEW g, Before(g, f),
           up' = [up EXCEPT ![Scope(doing)] = Append(@, doing)]
    PROVE  Before(g, f)'
  <1> DEFINE s == Scope(f)
  <1>0. s \in Scopes /\ Scope(f)' = s
    BY StepsOfARow, 1 \in Nat \ {0} DEF TypeInv, Scope
  <1>1. PICK i \in DOMAIN up[s] : up[s][i] = g /\ \A j \in DOMAIN up[s] : up[s][j] = f => i < j
    BY DEF Before
  <1> HIDE DEF s
  <1>2. i \in DOMAIN up'[s] /\ up'[s][i] = g
    BY <1>0, <1>1, PushIs
  <1>3. ASSUME NEW j \in DOMAIN up'[s], up'[s][j] = f  PROVE i < j
    <2>1. CASE j \in DOMAIN up[s]
      BY <1>0, <1>1, <1>3, <2>1, PushIs
    <2>2. CASE j \notin DOMAIN up[s]
      BY <1>0, <1>1, <2>2, PushIs
    <2> QED  BY <2>1, <2>2
  <1> QED  BY <1>0, <1>2, <1>3 DEF Before

LEMMA BeforeAfterPop ==
    ASSUME TypeInv, StackInv, OnceInv, doing \in DOMAIN rows, Last(Scope(doing)), Pop(doing),
           rows' = rows, NEW f \in Up \ {doing}, NEW g, Before(g, f)
    PROVE  Before(g, f)'
  <1> DEFINE s == Scope(f)
  <1>0. s \in Scopes /\ Scope(f)' = s
    BY UpIsOnAStack DEF Scope
  <1>1. PICK i \in DOMAIN up[s] : up[s][i] = g /\ \A j \in DOMAIN up[s] : up[s][j] = f => i < j
    BY DEF Before
  <1>2. PICK l \in DOMAIN up[s] : up[s][l] = f
    BY UpIsOnAStack
  <1>3. g # doing
    <2> SUFFICES ASSUME g = doing  PROVE FALSE
      OBVIOUS
    <2>1. Scope(doing) = s
      BY <1>0, <1>1 DEF StackInv
    <2>2. up[s] \in Seq(DOMAIN rows) /\ up[s] # << >> /\ doing = up[s][Len(up[s])]
      BY <1>0, <2>1 DEF Last, TypeInv, PytestTypes
    <2>3. Len(up[s]) \in DOMAIN up[s] /\ l <= Len(up[s])
      BY <1>2, <2>2
    <2>4. i = Len(up[s])
      BY <1>0, <1>1, <2>2, <2>3 DEF OnceInv
    <2>5. i < l
      BY <1>1, <1>2
    <2>6. l \in Nat /\ Len(up[s]) \in Nat
      BY <1>2, <2>2
    <2> QED  BY <2>3, <2>4, <2>5, <2>6
  <1> HIDE DEF s
  <1>4. i \in DOMAIN up'[s] /\ up'[s][i] = g
    BY <1>0, <1>1, <1>3, PopIs
  <1>5. \A j \in DOMAIN up'[s] : j \in DOMAIN up[s] /\ up'[s][j] = up[s][j]
    BY <1>0, PopIs
  <1> QED  BY <1>0, <1>1, <1>4, <1>5 DEF Before

-----------------------------------------------------------------------------
\* A value that is not lasting is that of a fixture of the session.
LEMMA CurrentIsAFixture ==
    ASSUME TypeInv, NEW k, ~Lasting(Value(k))
    PROVE  Value(k) \in DOMAIN rows
  BY DEF TypeInv, ThingTypes, Value, Lasting

\* The steps between the ones of fixtures.
LEMMA SameSettings ==
    ASSUME TypeInv, UNCHANGED <<suite, rows, up, failed, settingVars>>,
           NEW k, ThreeInv(k),
           doing = NoFixture \/ (doing' = doing /\ phase' = phase /\ step' = step),
           \/ doing' = NoFixture
           \/ phase' = "setup" /\ doing' \notin Up /\ step' = 1
           \/ phase' = "teardown" /\ doing' \in Up /\ step' = 1
           \/ doing' = doing /\ phase' = phase /\ step' = step
    PROVE  ThreeInv(k)'
  <1> USE DEF settingVars
  <1>0. \A f \in DOMAIN rows : f # NoFixture
    BY TableAssumption DEF TypeInv, RowsInv
  <1>u. Up' = Up
    BY DEF Up, InStack
  <1>t. /\ \A f, kinds, l : /\ SetUpAt(f, kinds, l)' = SetUpAt(f, kinds, l)
                            /\ UndoAt(f, kinds, l)' = UndoAt(f, kinds, l)
        /\ \A f, l : Assigns(f, l)' = Assigns(f, l) /\ Recovers(f, l)' = Recovers(f, l)
    BY TablesStay
  <1>l. \A v : Lasting(v)' = Lasting(v)
    BY DEF Lasting
  <1>b. \A g, f : Before(g, f)' = Before(g, f)
    BY DEF Before, Scope
  <1>i. ASSUME NEW f \in DOMAIN rows, NEW kinds
        PROVE  /\ \A i \in SetUpAt(f, kinds, k) : 1 <= i /\ ~(i < 1)
               /\ \A i \in UndoAt(f, kinds, k) : 1 <= i /\ ~(i < 1)
    BY IndexesAreNumbers DEF TypeInv
  <1>1. ValueInv(k)'
    <2>0. Value(k)' = Value(k)
      BY DEF Value
    <2>1. CASE Lasting(Value(k))
      BY <1>l, <2>0, <2>1 DEF ValueInv
    <2>2. CASE ~Lasting(Value(k))
      <3>0. Value(k) \in DOMAIN rows /\ Current(Value(k), k)
        BY <2>2, CurrentIsAFixture DEF ThreeInv, ValueInv
      <3>v. PICK v \in DOMAIN rows : v = Value(k)
        BY <3>0
      <3>1. Current(v, k) /\ v # NoFixture
        BY <1>0, <3>0, <3>v
      <3>2. Value(k)' = v
        BY <2>0, <3>v
      <3>3. CASE doing' = doing /\ phase' = phase /\ step' = step
        <4>1. Current(v, k)'
          BY <1>t, <1>u, <3>1, <3>3 DEF Current
        <4> QED  BY <3>2, <4>1 DEF ValueInv
      <3>4. CASE doing = NoFixture
        <4>1. v \in Up /\ Assigns(v, k)
          BY <3>1, <3>4 DEF Current
        <4>2. CASE doing' = v /\ phase' = "teardown" /\ step' = 1
          <5>1. Current(v, k)'
            BY <1>t, <1>u, <1>i, <3>1, <4>1, <4>2 DEF Current
          <5> QED  BY <3>2, <5>1 DEF ValueInv
        <4>3. CASE doing' # v
          <5>1. Current(v, k)'
            BY <1>t, <1>u, <4>1, <4>3 DEF Current
          <5> QED  BY <3>2, <5>1 DEF ValueInv
        <4> QED  BY <3>1, <3>3, <4>1, <4>2, <4>3
      <3> QED  BY <3>3, <3>4
    <2> QED  BY <2>1, <2>2
  <1>2. SavedInv(k)'
    <2> SUFFICES ASSUME NEW f, <<f, k>> \in DOMAIN saved
                 PROVE  LET v == saved[<<f, k>>]
                        IN /\ f \in DOMAIN rows /\ f \in Up \cup {doing'}
                           /\ Lasting(v) \/ (Assigns(v, k) /\ Before(v, f))
      BY <1>t, <1>l, <1>b, <1>u DEF SavedInv
    <2> QED  BY <1>0 DEF ThreeInv, SavedInv
  <1>3. ASSUME NEW f \in DOMAIN rows, NeedsCopy(f, k)'  PROVE NeedsCopy(f, k)
    <2>1. CASE doing' = doing /\ phase' = phase /\ step' = step
      BY <1>t, <1>u, <1>3, <2>1 DEF NeedsCopy
    <2>2. CASE doing = NoFixture
      BY <1>0, <1>t, <1>u, <1>i, <1>3, <2>1, <2>2 DEF NeedsCopy
    <2> QED  BY <2>1, <2>2
  <1>4. CopyInv(k)'
    BY <1>t, <1>l, <1>3 DEF ThreeInv, CopyInv
  <1> QED  BY <1>1, <1>2, <1>4 DEF ThreeInv

\* A step of a set-up.
LEMMA SetUpKeepsSettings ==
    ASSUME TypeInv, StackInv, OnceInv, UNCHANGED <<suite, rows, up, failed, doing, phase>>,
           NEW k, Tended(k), ThreeInv(k), phase = "setup", doing \in DOMAIN rows,
           step' = step + 1, NEW s \in Steps, s = Setup(doing)[step], step \in DOMAIN Setup(doing),
           Perform(doing, s)
    PROVE  ThreeInv(k)'
  <1>n. step \in Nat \ {0} /\ doing # NoFixture /\ doing \notin Up
    BY TableAssumption DEF TypeInv, PytestTypes, RowsInv, OnceInv
  <1>u. Up' = Up
    BY DEF Up, InStack
  <1>t. /\ \A f, kinds, l : /\ SetUpAt(f, kinds, l)' = SetUpAt(f, kinds, l)
                            /\ UndoAt(f, kinds, l)' = UndoAt(f, kinds, l)
        /\ \A f, l : Assigns(f, l)' = Assigns(f, l) /\ Recovers(f, l)' = Recovers(f, l)
    BY TablesStay
  <1>l. \A v : Lasting(v)' = Lasting(v)
    BY DEF Lasting
  <1>b. \A g, f : Before(g, f)' = Before(g, f)
    BY DEF Before, Scope
  <1>a. \A kinds : DoesAt(s, kinds, k) => step \in SetUpAt(doing, kinds, k)
    BY StepIsAt DEF DoesAt
  <1>e. \A kinds : step \in SetUpAt(doing, kinds, k) => DoesAt(s, kinds, k)
    BY DEF SetUpAt, At, DoesAt
  <1>i. \A kinds : SetUpAt(doing, kinds, k) \subseteq Nat
    BY IndexesAreNumbers DEF TypeInv
  \* The set-up has not yet given the setting a value when it keeps the old one.
  <1>k. ASSUME DoesAt(s, {"change", "backup"}, k), ~Lasting(Value(k))
        PROVE  Value(k) \in DOMAIN rows /\ Value(k) \in Up /\ Assigns(Value(k), k)
                  /\ Value(k) # doing
    <2>1. Current(Value(k), k)
      BY <1>k DEF ThreeInv, ValueInv
    <2>2. Value(k) # doing
      <3> SUFFICES ASSUME Value(k) = doing  PROVE FALSE
        OBVIOUS
      <3>1. PICK i \in SetUpAt(doing, Assigning, k) : i < step
        BY <2>1 DEF Current
      <3>2. step \in SetUpAt(doing, {"change", "backup"}, k)
        BY <1>a, <1>k
      <3>3. step <= i
        BY <3>1, <3>2 DEF Tended
      <3>4. i \in Nat
        BY <1>i, <3>1
      <3> QED  BY <1>n, <3>1, <3>3, <3>4
    <2> QED  BY <1>k, <2>1, <2>2, CurrentIsAFixture DEF Current
  \* The parts that are the same for several steps.
  <1>1. ASSUME Value(k)' = Value(k)  PROVE ValueInv(k)'
    <2>1. CASE Lasting(Value(k))
      BY <1>1, <1>l, <2>1 DEF ValueInv
    <2>2. CASE Current(Value(k), k)
      <3>v. PICK v : v = Value(k)
        OBVIOUS
      <3>1. Current(v, k)
        BY <2>2, <3>v
      <3>2. doing = v => \E i \in SetUpAt(v, Assigning, k) : i < step + 1
        <4> SUFFICES ASSUME doing = v  PROVE \E i \in SetUpAt(v, Assigning, k) : i < step + 1
          OBVIOUS
        <4>1. PICK i \in SetUpAt(v, Assigning, k) : i < step
          BY <3>1 DEF Current
        <4>2. i \in Nat
          BY <1>i, <4>1
        <4> QED  BY <1>n, <4>1, <4>2
      <3>3. Current(v, k)'
        BY <1>t, <1>u, <3>1, <3>2 DEF Current
      <3>4. Value(k)' = v
        BY <1>1, <3>v
      <3> QED  BY <3>3, <3>4 DEF ValueInv
    <2> QED  BY <2>1, <2>2 DEF ThreeInv, ValueInv
  <1>2. ASSUME Value(k)' = Found  PROVE ValueInv(k)'
    BY <1>2 DEF ValueInv, Lasting
  <1>3. ASSUME DoesAt(s, Assigning, k), Value(k)' = doing  PROVE ValueInv(k)'
    <2>1. step \in SetUpAt(doing, Assigning, k) /\ step < step + 1
      BY <1>n, <1>a, <1>3
    <2>2. Assigns(doing, k)
      BY <2>1 DEF Assigns
    <2>3. Current(doing, k)'
      BY <1>t, <1>u, <2>1, <2>2 DEF Current
    <2> QED  BY <1>3, <2>3 DEF ValueInv
  <1>4. ASSUME SavedStays(k)  PROVE SavedInv(k)'
    BY <1>4, <1>t, <1>l, <1>b, <1>u DEF SavedStays, ThreeInv, SavedInv
  <1>5. ASSUME CopyStays(k), ~DoesAt(s, {"backup"}, k)  PROVE CopyInv(k)'
    <2>1. ASSUME NEW f \in DOMAIN rows, NeedsCopy(f, k)'  PROVE NeedsCopy(f, k)
      <3>1. CASE f = doing
        <4>1. PICK i \in SetUpAt(f, {"backup"}, k) : i < step + 1
          BY <1>t, <1>u, <1>n, <2>1, <3>1 DEF NeedsCopy
        <4>2. i # step
          BY <1>5, <1>e, <3>1, <4>1
        <4>3. i < step
          BY <1>n, <1>i, <3>1, <4>1, <4>2
        <4> QED  BY <3>1, <4>1, <4>3 DEF NeedsCopy
      <3>2. CASE f # doing
        BY <1>t, <1>u, <2>1, <3>2 DEF NeedsCopy
      <3> QED  BY <3>1, <3>2
    <2> QED  BY <1>5, <1>t, <1>l, <2>1 DEF ThreeInv, CopyInv, CopyStays
  <1>6. CASE GivesValue(doing, s, k)
    <2>1. DoesAt(s, Assigning, k) /\ ~DoesAt(s, {"backup"}, k)
      BY <1>6 DEF DoesAt, Assigning, GivesValue
    <2> QED  BY <1>3, <1>4, <1>5, <1>6, <2>1 DEF ThreeInv, GivesValue
  <1>7. CASE KeepsAndGives(doing, s, k)
    <2>1. /\ DoesAt(s, Assigning, k) /\ ~DoesAt(s, {"backup"}, k)
          /\ DoesAt(s, {"change", "backup"}, k)
      BY <1>7 DEF DoesAt, Assigning, KeepsAndGives
    <2>2. ASSUME ~Lasting(Value(k))  PROVE Assigns(Value(k), k) /\ Before(Value(k), doing)
      <3> DEFINE v == Value(k)
      <3>1. v \in DOMAIN rows /\ v \in Up /\ Assigns(v, k) /\ v \notin Keepers
        BY <1>k, <2>1, <2>2 DEF Lasting
      <3>2. SetUpAt(doing, {"change"}, k) # {}
        BY <1>a, <1>7 DEF KeepsAndGives
      <3>3. Scope(v) = Scope(doing)
        BY <3>1, <3>2 DEF Tended
      <3>4. Scope(v) \in Scopes /\ \E i \in DOMAIN up[Scope(v)] : up[Scope(v)][i] = v
        BY <3>1, UpIsOnAStack
      <3> HIDE DEF v
      <3>5. \A i \in DOMAIN up[Scope(v)] : up[Scope(v)][i] # doing
        BY <1>n, <3>4 DEF Up, InStack
      <3>6. Before(v, doing)
        BY <3>3, <3>4, <3>5 DEF Before
      <3> QED  BY <3>1, <3>6 DEF v
    <2>3. SavedInv(k)'
      <3> SUFFICES ASSUME NEW f, <<f, k>> \in DOMAIN saved'
                   PROVE  /\ f \in DOMAIN rows /\ f \in Up \cup {doing}
                          /\ \/ Lasting(saved'[<<f, k>>])
                             \/ Assigns(saved'[<<f, k>>], k) /\ Before(saved'[<<f, k>>], f)
        BY <1>t, <1>l, <1>b, <1>u DEF SavedInv
      <3>1. CASE f = doing
        <4>1. saved'[<<f, k>>] = Value(k)
          BY <1>7, <3>1 DEF SavedBy, KeepsAndGives
        <4> QED  BY <2>2, <3>1, <4>1
      <3>2. CASE f # doing
        <4>1. <<f, k>> \in DOMAIN saved /\ saved'[<<f, k>>] = saved[<<f, k>>]
          BY <1>7, <3>2 DEF SavedBy, KeepsAndGives
        <4> QED  BY <4>1 DEF ThreeInv, SavedInv
      <3> QED  BY <3>1, <3>2
    <2> QED  BY <1>3, <1>5, <1>7, <2>1, <2>3 DEF ThreeInv, KeepsAndGives
  <1>8. CASE Resets(s, k)
    <2>1. ~DoesAt(s, {"backup"}, k)
      BY <1>8 DEF DoesAt, Resets
    <2> QED  BY <1>2, <1>4, <1>5, <1>8, <2>1 DEF ThreeInv, Resets
  <1>9. CASE PutsBack(doing, s, k) \/ MovesCopy(s, k)
    <2>1. DoesAt(s, {"back", "recover"}, k)
      BY <1>9 DEF DoesAt, PutsBack, MovesCopy
    <2> QED  BY <1>a, <2>1 DEF Tended
  <1>10. CASE Copies(s, k)
    <2>1. step \in SetUpAt(doing, {"backup"}, k) /\ DoesAt(s, {"change", "backup"}, k)
      BY <1>a, <1>10 DEF DoesAt, Copies
    <2>2. ASSUME NEW f \in DOMAIN rows, Recovers(f, k)  PROVE Lasting(Value(k))
      <3>1. f = doing
        BY <2>1, <2>2 DEF Tended
      <3>2. ASSUME NEW g \in DOMAIN rows, Assigns(g, k)  PROVE g = doing
        BY <2>2, <3>1, <3>2 DEF Tended
      <3> QED  BY <1>k, <2>1, <3>2
    <2>3. CopyInv(k)'
      BY <1>10, <1>t, <1>l, <2>2 DEF CopyInv, Copies
    <2> QED  BY <1>1, <1>4, <1>10, <2>3 DEF ThreeInv, Copies
  <1>11. CASE GivesHost(doing, s, k)
    <2>1. ~DoesAt(s, {"backup"}, k)
      BY <1>11 DEF DoesAt, GivesHost
    <2>2. ValueInv(k)'
      BY <1>1, <1>2, <1>11 DEF GivesHost
    <2>3. CASE k[1] # doing
      BY <1>4, <1>5, <1>11, <2>1, <2>2, <2>3 DEF ThreeInv, GivesHost
    <2>4. CASE k[1] = doing
      <3>1. GivesItsHost(Setup(doing))
        BY <1>11 DEF GivesHost, GivesItsHost
      <3>2. ASSUME NEW f \in DOMAIN rows, Recovers(f, k)  PROVE FALSE
        BY <2>4, <3>1, <3>2 DEF Tended
      <3>3. CopyInv(k)'
        BY <1>t, <3>2 DEF CopyInv
      <3> QED  BY <1>4, <1>11, <2>2, <3>3 DEF ThreeInv, GivesHost
    <2> QED  BY <2>3, <2>4
  <1>12. CASE LeavesAlone(s, k)
    <2>1. ~DoesAt(s, {"backup"}, k)
      BY <1>12 DEF DoesAt, LeavesAlone
    <2> QED  BY <1>1, <1>4, <1>5, <1>12, <2>1 DEF ThreeInv, LeavesAlone
  <1>p. Perform(doing, s)
    OBVIOUS
  <1> QED
    BY <1>p, PerformedSettings, <1>6, <1>7, <1>8, <1>9, <1>10, <1>11, <1>12

-----------------------------------------------------------------------------
\* Nothing that is up needs the fixture that is torn down.
LEMMA NobodyNeedsTheLast ==
    ASSUME TypeInv, StackInv, OnceInv, doing \in DOMAIN rows, Last(Scope(doing)),
           \A t \in Scopes : Width[t] < Width[Scope(doing)] => up[t] = << >>, NEW f \in Up
    PROVE  doing \notin Needs(f)
  <1> SUFFICES ASSUME doing \in Needs(f)  PROVE FALSE
    OBVIOUS
  <1>1. PICK s \in Scopes : \E i \in DOMAIN up[s] : up[s][i] = f
    BY DEF Up, InStack
  <1>2. PICK i \in DOMAIN up[s] : up[s][i] = f
    BY <1>1
  <1>3. Supported(s, i, doing)
    BY <1>2 DEF StackInv
  <1>4. up[s] \in Seq(DOMAIN rows) /\ DOMAIN up[s] = 1..Len(up[s]) /\ Len(up[s]) \in Nat
    BY DEF TypeInv, PytestTypes
  <1>5. CASE Scope(doing) = s /\ \E j \in 1..(i - 1) : up[s][j] = doing
    <2>1. PICK j \in 1..(i - 1) : up[s][j] = doing
      BY <1>5
    <2>2. up[s][Len(up[s])] = doing
      BY <1>5 DEF Last
    <2>3. j \in DOMAIN up[s] /\ Len(up[s]) \in DOMAIN up[s] /\ j < Len(up[s])
      BY <1>4, <2>1
    <2>4. j = Len(up[s])
      BY <2>1, <2>2, <2>3 DEF OnceInv
    <2> QED  BY <1>4, <2>3, <2>4
  <1>6. CASE Width[s] < Width[Scope(doing)]
    <2>1. up[s] = << >>
      BY <1>6
    <2> QED  BY <1>2, <1>4, <2>1
  <1> QED  BY <1>3, <1>5, <1>6 DEF Supported

\* A step of a teardown.
LEMMA TearDownKeepsSettings ==
    ASSUME TypeInv, StackInv, OnceInv, UNCHANGED <<suite, rows, up, failed, doing, phase>>,
           NEW k, Tended(k), ThreeInv(k), phase = "teardown", doing \in DOMAIN rows,
           Last(Scope(doing)), step' = step + 1, NEW s \in Steps, s = Undo(doing)[step],
           step \in DOMAIN Undo(doing), Perform(doing, s),
           \A t \in Scopes : Width[t] < Width[Scope(doing)] => up[t] = << >>
    PROVE  ThreeInv(k)'
  <1>n. step \in Nat \ {0} /\ doing # NoFixture
    BY TableAssumption DEF TypeInv, PytestTypes, RowsInv
  <1>u. Up' = Up
    BY DEF Up, InStack
  <1>o. doing \in Up
    <2> DEFINE q == up[Scope(doing)]
    <2>1. q \in Seq(DOMAIN rows) /\ q # << >> /\ doing = q[Len(q)] /\ Scope(doing) \in Scopes
      BY StepsOfARow, 1 \in Nat \ {0} DEF TypeInv, PytestTypes, Last
    <2>2. Len(q) \in DOMAIN q
      BY <2>1
    <2> QED  BY <2>1, <2>2 DEF Up, InStack
  <1>t. /\ \A f, kinds, l : /\ SetUpAt(f, kinds, l)' = SetUpAt(f, kinds, l)
                            /\ UndoAt(f, kinds, l)' = UndoAt(f, kinds, l)
        /\ \A f, l : Assigns(f, l)' = Assigns(f, l) /\ Recovers(f, l)' = Recovers(f, l)
    BY TablesStay
  <1>l. \A v : Lasting(v)' = Lasting(v)
    BY DEF Lasting
  <1>b. \A g, f : Before(g, f)' = Before(g, f)
    BY DEF Before, Scope
  <1>a. \A kinds : DoesAt(s, kinds, k) => step \in UndoAt(doing, kinds, k)
    BY StepIsAt DEF DoesAt
  <1>e. \A kinds : step \in UndoAt(doing, kinds, k) => DoesAt(s, kinds, k)
    BY DEF UndoAt, At, DoesAt
  <1>i. \A kinds : UndoAt(doing, kinds, k) \subseteq Nat
    BY IndexesAreNumbers DEF TypeInv
  \* The parts that are the same for several steps.
  <1>1. ASSUME Value(k)' = Value(k), ~DoesAt(s, Restoring, k)  PROVE ValueInv(k)'
    <2>1. CASE Lasting(Value(k))
      BY <1>1, <1>l, <2>1 DEF ValueInv
    <2>2. CASE Current(Value(k), k)
      <3>v. PICK v : v = Value(k)
        OBVIOUS
      <3>1. Current(v, k)
        BY <2>2, <3>v
      <3>2. doing = v => \A j \in UndoAt(v, Restoring, k) : step + 1 <= j
        <4> SUFFICES ASSUME doing = v, NEW j \in UndoAt(v, Restoring, k)  PROVE step + 1 <= j
          OBVIOUS
        <4>1. step <= j
          BY <3>1 DEF Current
        <4>2. j # step
          BY <1>1, <1>e
        <4>3. j \in Nat
          BY <1>i
        <4> QED  BY <1>n, <4>1, <4>2, <4>3
      <3>3. Current(v, k)'
        BY <1>t, <1>u, <3>1, <3>2 DEF Current
      <3>4. Value(k)' = v
        BY <1>1, <3>v
      <3> QED  BY <3>3, <3>4 DEF ValueInv
    <2> QED  BY <2>1, <2>2 DEF ThreeInv, ValueInv
  <1>2. ASSUME Lasting(Value(k)')  PROVE ValueInv(k)'
    BY <1>2 DEF ValueInv, Lasting
  <1>4. ASSUME SavedStays(k)  PROVE SavedInv(k)'
    BY <1>4, <1>t, <1>l, <1>b, <1>u DEF SavedStays, ThreeInv, SavedInv
  <1>5. ASSUME CopyStays(k)  PROVE CopyInv(k)'
    <2>1. ASSUME NEW f \in DOMAIN rows, NeedsCopy(f, k)'  PROVE NeedsCopy(f, k)
      <3>1. CASE f = doing
        <4>1. \A i \in UndoAt(f, {"recover"}, k) : step + 1 <= i
          BY <1>t, <1>u, <1>n, <2>1, <3>1 DEF NeedsCopy
        <4>2. \A i \in UndoAt(f, {"recover"}, k) : step <= i
          BY <1>n, <1>i, <3>1, <4>1
        <4> QED  BY <3>1, <4>2 DEF NeedsCopy
      <3>2. CASE f # doing
        BY <1>t, <1>u, <2>1, <3>2 DEF NeedsCopy
      <3> QED  BY <3>1, <3>2
    <2> QED  BY <1>5, <1>t, <1>l, <2>1 DEF ThreeInv, CopyInv, CopyStays
  <1>6. CASE GivesValue(doing, s, k) \/ KeepsAndGives(doing, s, k) \/ Copies(s, k)
    <2>1. DoesAt(s, {"set", "change", "backup"}, k)
      BY <1>6 DEF GivesValue, KeepsAndGives, Copies, DoesAt
    <2> QED  BY <1>a, <2>1 DEF Tended
  <1>7. CASE Resets(s, k)
    <2>1. Lasting(Value(k)')
      BY <1>7 DEF Resets, Lasting
    <2> QED  BY <1>2, <1>4, <1>5, <1>7, <2>1 DEF Resets, ThreeInv
  <1>8. CASE PutsBack(doing, s, k)
    <2>1. CASE <<doing, k>> \notin DOMAIN saved
      <3>1. Lasting(Value(k)')
        BY <1>8, <2>1 DEF PutsBack, Lasting
      <3> QED  BY <1>2, <1>4, <1>5, <1>8, <3>1 DEF PutsBack, ThreeInv
    <2>2. CASE <<doing, k>> \in DOMAIN saved
      <3>v. PICK v : v = saved[<<doing, k>>]
        OBVIOUS
      <3>1. Value(k)' = v
        BY <1>8, <2>2, <3>v DEF PutsBack
      <3>2. Lasting(v) \/ (Assigns(v, k) /\ Before(v, doing))
        BY <2>2, <3>v DEF ThreeInv, SavedInv
      <3>3. CASE Lasting(v)
        <4>1. Lasting(Value(k)')
          BY <3>1, <3>3
        <4> QED  BY <1>2, <1>4, <1>5, <1>8, <4>1 DEF PutsBack, ThreeInv
      <3>4. CASE Assigns(v, k) /\ Before(v, doing)
        <4> DEFINE q == up[Scope(doing)]
        <4>1. q \in Seq(DOMAIN rows) /\ q # << >> /\ doing = q[Len(q)] /\ Scope(doing) \in Scopes
          BY StepsOfARow, 1 \in Nat \ {0} DEF TypeInv, PytestTypes, Last
        <4>2. PICK i \in DOMAIN q : q[i] = v /\ \A j \in DOMAIN q : q[j] = doing => i < j
          BY <3>4 DEF Before
        <4>3. Len(q) \in DOMAIN q /\ Len(q) \in Nat
          BY <4>1
        <4>4. i < Len(q)
          BY <4>1, <4>2, <4>3
        <4>5. v # doing
          BY <4>1, <4>2, <4>3, <4>4 DEF OnceInv
        <4>6. v \in Up
          BY <4>1, <4>2 DEF Up, InStack
        <4> HIDE DEF q
        <4>7. Current(v, k)'
          BY <1>t, <1>u, <3>4, <4>5, <4>6 DEF Current
        <4>8. ValueInv(k)'
          BY <3>1, <4>7 DEF ValueInv
        <4> QED  BY <1>4, <1>5, <1>8, <4>8 DEF PutsBack, ThreeInv
      <3> QED  BY <3>2, <3>3, <3>4
    <2> QED  BY <2>1, <2>2
  <1>9. CASE MovesCopy(s, k)
    <2>1. step \in UndoAt(doing, {"recover"}, k) /\ Recovers(doing, k)
      BY <1>a, <1>9 DEF MovesCopy, Recovers
    <2>2. ASSUME NEW g \in DOMAIN rows, Assigns(g, k) \/ Recovers(g, k)  PROVE g = doing
      BY <2>1, <2>2 DEF Tended
    <2>3. Lasting(Value(k)')
      <3>1. CASE k \in DOMAIN copy
        BY <1>9, <2>1, <3>1 DEF MovesCopy, ThreeInv, CopyInv
      <3>2. CASE k \notin DOMAIN copy
        <4>1. Value(k)' = Value(k)
          BY <1>9, <3>2 DEF MovesCopy
        <4>2. ASSUME ~Lasting(Value(k))  PROVE FALSE
          <5>1. Current(Value(k), k) /\ Value(k) \in DOMAIN rows
            BY <4>2, CurrentIsAFixture DEF ThreeInv, ValueInv
          <5>2. Value(k) = doing
            BY <2>2, <5>1 DEF Current
          <5>3. \A j \in UndoAt(doing, Restoring, k) : step <= j
            BY <5>1, <5>2 DEF Current
          <5>4. UndoAt(doing, {"recover"}, k) \subseteq UndoAt(doing, Restoring, k)
            BY DEF UndoAt, At, Restoring
          <5>5. NeedsCopy(doing, k)
            BY <5>3, <5>4 DEF NeedsCopy
          <5>6. doing \notin failed
            BY <4>2, <5>2 DEF Lasting
          <5> QED  BY <2>1, <3>2, <5>5, <5>6 DEF ThreeInv, CopyInv
        <4> QED  BY <4>1, <4>2
      <3> QED  BY <3>1, <3>2
    <2>4. ASSUME NEW f \in DOMAIN rows, Recovers(f, k), NeedsCopy(f, k)'  PROVE FALSE
      <3>1. f = doing
        BY <2>2, <2>4
      <3>2. \A i \in UndoAt(f, {"recover"}, k) : step + 1 <= i
        BY <1>t, <1>u, <1>n, <2>4, <3>1 DEF NeedsCopy
      <3> QED  BY <1>n, <2>1, <3>1, <3>2
    <2>5. CopyInv(k)'
      BY <1>9, <1>t, <2>4 DEF MovesCopy, CopyInv
    <2> QED  BY <1>2, <1>4, <1>9, <2>3, <2>5 DEF MovesCopy, ThreeInv
  <1>10. CASE GivesHost(doing, s, k)
    <2>1. ~DoesAt(s, Restoring, k)
      BY <1>10 DEF GivesHost, DoesAt, Restoring
    <2>2. ValueInv(k)'
      <3>1. CASE k[1] = doing
        <4>1. Lasting(Value(k)')
          BY <1>10, <3>1 DEF GivesHost, Lasting
        <4> QED  BY <1>2, <4>1
      <3>2. CASE k[1] # doing
        BY <1>1, <1>10, <2>1, <3>2 DEF GivesHost
      <3> QED  BY <3>1, <3>2
    <2>3. CASE k[1] # doing
      BY <1>4, <1>5, <1>10, <2>2, <2>3 DEF GivesHost, ThreeInv
    <2>4. CASE k[1] = doing
      <3>1. GivesItsHost(Undo(doing))
        BY <1>10 DEF GivesHost, GivesItsHost
      <3>2. ASSUME NEW f \in DOMAIN rows, Recovers(f, k)  PROVE doing \in Needs(f)
        BY <2>4, <3>1, <3>2 DEF Tended
      <3>3. ASSUME NEW f \in DOMAIN rows, Recovers(f, k), NeedsCopy(f, k)'  PROVE FALSE
        <4>1. f \in Up
          BY <1>u, <1>o, <3>3 DEF NeedsCopy
        <4> QED  BY <3>2, <3>3, <4>1, NobodyNeedsTheLast
      <3>4. CopyInv(k)'
        BY <1>t, <1>10, <2>4, <3>3 DEF CopyInv, GivesHost
      <3> QED  BY <1>4, <1>10, <2>2, <3>4 DEF ThreeInv, GivesHost
    <2> QED  BY <2>3, <2>4
  <1>11. CASE LeavesAlone(s, k)
    <2>1. ~DoesAt(s, Restoring, k)
      BY <1>11 DEF LeavesAlone, DoesAt
    <2> QED  BY <1>1, <1>4, <1>5, <1>11, <2>1 DEF LeavesAlone, ThreeInv
  <1>p. Perform(doing, s)
    OBVIOUS
  <1> QED
    BY <1>p, PerformedSettings, <1>6, <1>7, <1>8, <1>9, <1>10, <1>11

\* The end of a set-up that has not failed.
LEMMA PushKeepsSettings ==
    ASSUME TypeInv, OnceInv, UNCHANGED <<suite, rows, failed, settingVars>>,
           NEW k, Tended(k), ThreeInv(k), phase = "setup", doing \in DOMAIN rows,
           doing' = NoFixture, step > Len(Setup(doing)),
           up' = [up EXCEPT ![Scope(doing)] = Append(@, doing)]
    PROVE  ThreeInv(k)'
  <1> USE DEF settingVars
  <1>0. \A f \in DOMAIN rows : f # NoFixture
    BY TableAssumption DEF TypeInv, RowsInv
  <1>n. step \in Nat /\ doing \notin Up
    BY DEF TypeInv, PytestTypes, OnceInv
  <1>u. Up' = Up \cup {doing}
    BY PushIs
  <1>t. /\ \A f, kinds, l : /\ SetUpAt(f, kinds, l)' = SetUpAt(f, kinds, l)
                            /\ UndoAt(f, kinds, l)' = UndoAt(f, kinds, l)
        /\ \A f, l : Assigns(f, l)' = Assigns(f, l) /\ Recovers(f, l)' = Recovers(f, l)
    BY TablesStay
  <1>l. \A v : Lasting(v)' = Lasting(v)
    BY DEF Lasting
  <1>b. \A f \in DOMAIN rows : \A g : Before(g, f) => Before(g, f)'
    BY BeforeAfterPush
  <1>1. ValueInv(k)'
    <2>v. PICK v : v = Value(k) /\ v = Value(k)'
      BY DEF Value
    <2>1. CASE Lasting(v)
      BY <1>l, <2>v, <2>1 DEF ValueInv
    <2>2. CASE ~Lasting(v)
      <3>1. Current(v, k) /\ v \in DOMAIN rows
        BY <2>v, <2>2, CurrentIsAFixture DEF ThreeInv, ValueInv
      <3>2. Current(v, k)'
        BY <1>0, <1>t, <1>u, <3>1 DEF Current
      <3> QED  BY <2>v, <3>2 DEF ValueInv
    <2> QED  BY <2>1, <2>2
  <1>2. SavedInv(k)'
    <2> SUFFICES ASSUME NEW f, <<f, k>> \in DOMAIN saved
                 PROVE  LET v == saved[<<f, k>>]
                        IN /\ f \in DOMAIN rows /\ f \in Up'
                           /\ Lasting(v) \/ (Assigns(v, k) /\ Before(v, f)')
      BY <1>t, <1>l, <1>u DEF SavedInv
    <2>v. PICK v : v = saved[<<f, k>>]
      OBVIOUS
    <2>1. f \in DOMAIN rows /\ f \in Up \cup {doing} /\ (Lasting(v) \/ (Assigns(v, k) /\ Before(v, f)))
      BY <2>v DEF ThreeInv, SavedInv
    <2> QED  BY <1>b, <1>u, <2>v, <2>1
  <1>3. ASSUME NEW f \in DOMAIN rows, Recovers(f, k), NeedsCopy(f, k)'  PROVE NeedsCopy(f, k)
    <2>1. f \in Up \cup {doing}
      BY <1>0, <1>u, <1>3 DEF NeedsCopy
    <2>2. CASE f = doing
      <3>1. PICK i \in SetUpAt(f, {"backup"}, k) : TRUE
        BY <1>3 DEF Tended
      <3>2. i < step
        BY <1>n, <2>2, <3>1, IndexesAreNumbers DEF TypeInv
      <3> QED  BY <2>2, <3>1, <3>2 DEF NeedsCopy
    <2>3. CASE f # doing
      BY <2>1, <2>3 DEF NeedsCopy
    <2> QED  BY <2>2, <2>3
  <1>4. CopyInv(k)'
    BY <1>t, <1>l, <1>3 DEF ThreeInv, CopyInv
  <1> QED  BY <1>1, <1>2, <1>4 DEF ThreeInv

\* The end of a fixture: it has put back what it has changed, or it has raised.
LEMMA LeaveKeepsSettings ==
    ASSUME TypeInv, UNCHANGED <<suite, rows>>, NEW k, Tended(k), ThreeInv(k),
           doing \in DOMAIN rows, doing' = NoFixture, Leave(doing), failed \subseteq failed',
           Up' = Up \ {doing},
           \A f \in Up \ {doing} : \A g : Before(g, f) => Before(g, f)',
           doing \in failed' \/ (phase = "teardown" /\ step > Len(Undo(doing)))
    PROVE  ThreeInv(k)'
  <1>0. \A f \in DOMAIN rows : f # NoFixture
    BY TableAssumption DEF TypeInv, RowsInv
  <1>n. step \in Nat
    BY DEF TypeInv, PytestTypes
  <1>t. /\ \A f, kinds, l : /\ SetUpAt(f, kinds, l)' = SetUpAt(f, kinds, l)
                            /\ UndoAt(f, kinds, l)' = UndoAt(f, kinds, l)
        /\ \A f, l : Assigns(f, l)' = Assigns(f, l) /\ Recovers(f, l)' = Recovers(f, l)
    BY TablesStay
  <1>l. \A v : Lasting(v) => Lasting(v)'
    BY DEF Lasting
  <1>1. ValueInv(k)'
    <2>v. PICK v : v = Value(k) /\ v = Value(k)'
      BY DEF Value, Leave
    <2>1. CASE Lasting(v)
      BY <1>l, <2>v, <2>1 DEF ValueInv
    <2>2. CASE ~Lasting(v)
      <3>1. Current(v, k) /\ v \in DOMAIN rows /\ v \notin Keepers
        BY <2>v, <2>2, CurrentIsAFixture DEF ThreeInv, ValueInv, Lasting
      <3>2. CASE v = doing /\ doing \in failed'
        <4>1. Lasting(v)'
          BY <3>2 DEF Lasting
        <4> QED  BY <2>v, <4>1 DEF ValueInv
      <3>3. CASE v = doing /\ phase = "teardown" /\ step > Len(Undo(doing))
        <4>1. Assigns(v, k)
          BY <3>1 DEF Current
        <4>2. PICK j \in UndoAt(v, Restoring, k) : TRUE
          BY <3>1, <4>1 DEF Tended
        <4>3. step <= j
          BY <3>1, <3>3 DEF Current
        <4> QED  BY <1>n, <3>3, <4>2, <4>3, IndexesAreNumbers DEF TypeInv
      <3>4. CASE v # doing
        <4>1. Current(v, k)'
          BY <1>0, <1>t, <3>1, <3>4 DEF Current
        <4> QED  BY <2>v, <4>1 DEF ValueInv
      <3> QED  BY <3>2, <3>3, <3>4
    <2> QED  BY <2>1, <2>2
  <1>2. SavedInv(k)'
    <2>1. ASSUME NEW f, <<f, k>> \in DOMAIN saved'
          PROVE  \E v : /\ v = saved'[<<f, k>>]
                        /\ f \in DOMAIN rows /\ f \in Up'
                        /\ Lasting(v)' \/ (Assigns(v, k) /\ Before(v, f)')
      <3>0. <<f, k>>[1] = f
        OBVIOUS
      <3>1. f # doing /\ <<f, k>> \in DOMAIN saved /\ saved'[<<f, k>>] = saved[<<f, k>>]
        BY <2>1, <3>0 DEF Leave, Without
      <3>v. PICK v : v = saved[<<f, k>>]
        OBVIOUS
      <3>2. /\ f \in DOMAIN rows /\ f \in Up \cup {doing}
            /\ Lasting(v) \/ (Assigns(v, k) /\ Before(v, f))
        BY <3>v, <3>1 DEF ThreeInv, SavedInv
      <3>3. f \in Up \ {doing}
        BY <3>1, <3>2
      <3>4. Lasting(v)' \/ (Assigns(v, k) /\ Before(v, f)')
        BY <1>l, <3>2, <3>3
      <3> QED  BY <3>v, <3>1, <3>2, <3>3, <3>4
    <2> QED  BY <1>t, <2>1 DEF SavedInv, Lasting, Before
  <1>3. ASSUME NEW f \in DOMAIN rows, NeedsCopy(f, k)'  PROVE NeedsCopy(f, k)
    BY <1>0, <1>3 DEF NeedsCopy
  <1>4. CopyInv(k)'
    <2>1. copy' = copy
      BY DEF Leave
    <2> QED  BY <1>t, <1>l, <1>3, <2>1 DEF ThreeInv, CopyInv
  <1> QED  BY <1>1, <1>2, <1>4 DEF ThreeInv

-----------------------------------------------------------------------------
LEMMA StepKeepsSettingInv ==
    TypeInv /\ StackInv /\ DoingInv /\ OnceInv /\ SettingInv /\ [Next]_vars => SettingInv'
  <1> SUFFICES ASSUME TypeInv, StackInv, DoingInv, OnceInv, SettingInv, [Next]_vars,
                      NEW k, Tended(k)'
               PROVE  ThreeInv(k)'
    BY DEF SettingInv
  <1>r. UNCHANGED <<suite, rows>>
    BY RowsStay
  <1>k. Tended(k) /\ ThreeInv(k)
    BY <1>r, TendedStays DEF SettingInv
  <1>d. doing = NoFixture \/ doing \in DOMAIN rows
    BY DEF TypeInv, PytestTypes
  <1>u. up' = up => Up' = Up
    BY DEF Up, InStack
  <1>1. ASSUME NEW test \in suite.tests, StartTest(test)  PROVE ThreeInv(k)'
    <2>1. doing = NoFixture
      BY <1>1 DEF StartTest, DoingInv
    <2> QED  BY <1>1, <1>r, <1>k, <2>1, SameSettings DEF StartTest
  <1>2. CASE BeginSetUp
    <2>1. doing' \notin Up
      BY <1>2, ComingIsWanted DEF BeginSetUp, Candidates
    <2>2. /\ UNCHANGED <<up, failed, settingVars, phase>> /\ phase = "setup"
          /\ doing = NoFixture /\ step' = 1
      BY <1>2 DEF BeginSetUp
    <2> QED  BY <1>r, <1>k, <2>1, <2>2, SameSettings
  <1>3. CASE Refuse \/ Run1 \/ AllDown
    <2>1. UNCHANGED <<up, failed, settingVars>> /\ doing = NoFixture /\ doing' = NoFixture
      BY <1>3 DEF Refuse, Run1, AllDown
    <2> QED  BY <1>r, <1>k, <2>1, SameSettings
  <1>4. CASE SetUpStep
    <2>1. doing \in DOMAIN rows /\ phase = "setup" /\ step \in Nat \ {0}
      BY <1>4, <1>d DEF SetUpStep, TypeInv, PytestTypes
    <2>2. PICK s \in Steps : s = Setup(doing)[step]
      BY <1>4, <2>1, StepsOfARow DEF SetUpStep, TypeInv
    <2>3. step \in DOMAIN Setup(doing)
      BY <1>4, <2>1, StepsOfARow DEF SetUpStep, TypeInv
    <2>4. Perform(doing, s) /\ UNCHANGED <<up, failed, doing, phase>> /\ step' = step + 1
      BY <1>4, <2>2 DEF SetUpStep
    <2> QED  BY <1>r, <1>k, <2>1, <2>2, <2>3, <2>4, SetUpKeepsSettings
  <1>5. CASE SetUpDone
    <2>1. /\ doing \in DOMAIN rows /\ phase = "setup" /\ step > Len(Setup(doing))
          /\ doing' = NoFixture /\ UNCHANGED <<failed, settingVars>>
          /\ up' = [up EXCEPT ![Scope(doing)] = Append(@, doing)]
      BY <1>5, <1>d DEF SetUpDone
    <2> QED  BY <1>r, <1>k, <2>1, PushKeepsSettings
  <1>6. CASE SetUpFails
    <2>1. /\ doing \in DOMAIN rows /\ up' = up /\ Leave(doing) /\ doing \in failed'
          /\ failed \subseteq failed' /\ doing' = NoFixture
      BY <1>6, <1>d DEF SetUpFails
    <2>2. Up' = Up \ {doing}
      BY <1>6, <1>u, <2>1 DEF SetUpFails, OnceInv
    <2>3. \A f \in Up \ {doing} : \A g : Before(g, f) => Before(g, f)'
      BY <1>r, <2>1 DEF Before, Scope
    <2> QED  BY <1>r, <1>k, <2>1, <2>2, <2>3, LeaveKeepsSettings
  <1>7. ASSUME NEW scopes \in Endings, EndTest(scopes)  PROVE ThreeInv(k)'
    <2>1. doing = NoFixture
      BY <1>7 DEF EndTest, DoingInv
    <2> QED  BY <1>7, <1>r, <1>k, <2>1, SameSettings DEF EndTest
  <1>8. CASE BeginTearDown
    <2>1. /\ UNCHANGED <<up, failed, settingVars, phase>> /\ phase = "teardown"
          /\ doing = NoFixture /\ step' = 1 /\ doing' = Leaving /\ DueStacks # {}
      BY <1>8 DEF BeginTearDown
    <2>2. PICK s \in DueStacks : /\ up[s] \in Seq(DOMAIN rows) /\ up[s] # << >>
                                 /\ Leaving = up[s][Len(up[s])]
      BY <2>1, LeavingIsLast
    <2>3. s \in Scopes
      BY <2>2 DEF DueStacks, TypeInv, PytestTypes, Endings, Scopes
    <2>4. Len(up[s]) \in DOMAIN up[s]
      BY <2>2
    <2>5. doing' \in Up
      BY <2>1, <2>2, <2>3, <2>4 DEF Up, InStack
    <2> QED  BY <1>r, <1>k, <2>1, <2>5, SameSettings
  <1>9. CASE TearDownStep
    <2>1. /\ doing \in DOMAIN rows /\ phase = "teardown" /\ step \in Nat \ {0}
          /\ Last(Scope(doing))
          /\ \A t \in Scopes : Width[t] < Width[Scope(doing)] => up[t] = << >>
      BY <1>9, <1>d DEF TearDownStep, TypeInv, PytestTypes, DoingInv
    <2>2. PICK s \in Steps : s = Undo(doing)[step]
      BY <1>9, <2>1, StepsOfARow DEF TearDownStep, TypeInv
    <2>3. step \in DOMAIN Undo(doing)
      BY <1>9, <2>1, StepsOfARow DEF TearDownStep, TypeInv
    <2>4. Perform(doing, s) /\ UNCHANGED <<up, failed, doing, phase>> /\ step' = step + 1
      BY <1>9, <2>2 DEF TearDownStep
    <2> QED  BY <1>r, <1>k, <2>1, <2>2, <2>3, <2>4, TearDownKeepsSettings
  <1>10. CASE TearDownDone \/ TearDownFails
    <2>1. /\ doing \in DOMAIN rows /\ Pop(doing) /\ Leave(doing) /\ Last(Scope(doing))
          /\ failed \subseteq failed' /\ doing' = NoFixture
          /\ doing \in failed' \/ (phase = "teardown" /\ step > Len(Undo(doing)))
      BY <1>10, <1>d DEF TearDownDone, TearDownFails, DoingInv
    <2>2. Up' = Up \ {doing}
      BY <2>1, PopIs
    <2>3. \A f \in Up \ {doing} : \A g : Before(g, f) => Before(g, f)'
      BY <1>r, <2>1, BeforeAfterPop
    <2> QED  BY <1>r, <1>k, <2>1, <2>2, <2>3, LeaveKeepsSettings
  <1>11. CASE UNCHANGED vars
    <2>1. UNCHANGED <<up, failed, settingVars, doing, phase, step>>
      BY <1>11 DEF vars, pytestVars
    <2> QED  BY <1>r, <1>k, <2>1, SameSettings
  <1> QED
    BY <1>1, <1>2, <1>3, <1>4, <1>5, <1>6, <1>7, <1>8, <1>9, <1>10, <1>11 DEF Next, Over

LEMMA SettingsAreInOrder == Spec => [](TypeInv /\ StackInv /\ DoingInv /\ OnceInv /\ SettingInv)
  <1>1. Init => OnceInv /\ SettingInv
    <2> SUFFICES ASSUME Init  PROVE OnceInv /\ \A k : ThreeInv(k)
      BY DEF SettingInv
    <2>1. Up = {} /\ DOMAIN value = {} /\ DOMAIN saved = {} /\ DOMAIN copy = {}
      BY DEF Init, Up, InStack
    <2>2. doing \notin Up
      BY <2>1
    <2>3. OnceInv
      BY <2>2 DEF Init, OnceInv
    <2>4. ASSUME NEW k  PROVE ThreeInv(k)
      <3>1. ValueInv(k)
        BY <2>1 DEF ValueInv, Lasting, Value
      <3>2. SavedInv(k)
        BY <2>1 DEF SavedInv
      <3>3. \A f \in DOMAIN rows : ~NeedsCopy(f, k)
        BY <2>1 DEF Init, NeedsCopy
      <3> QED  BY <2>1, <3>1, <3>2, <3>3 DEF ThreeInv, CopyInv
    <2> QED  BY <2>3, <2>4
  <1>2. OnceInv /\ SettingInv /\ (TypeInv /\ StackInv /\ DoingInv) /\ [Next]_vars
           => (OnceInv /\ SettingInv)'
    BY StepKeepsOnceInv, StepKeepsSettingInv
  <1> QED  BY <1>1, <1>2, StacksAreInOrder, PTL DEF Spec

\* A setting that was changed gets back the value that it had: of any fixtures that tend it, in
\* whichever order tests come and fixtures fail, whoever else changes it.
THEOREM SettingsAreRestored ==
    Spec => []((\A k \in DOMAIN value : Tended(k)) => NothingLeftBehind)
  <1>1. ASSUME TypeInv, SettingInv, \A k \in DOMAIN value : Tended(k)  PROVE NothingLeftBehind
    <2> SUFFICES ASSUME NEW k \in DOMAIN value
                 PROVE  value[k] \in Keepers \cup Up \cup {doing} \cup failed
      BY DEF NothingLeftBehind
    <2>1. Value(k) = value[k] /\ ThreeInv(k)
      BY <1>1 DEF Value, SettingInv
    <2>2. value[k] # Found
      BY <1>1, TableAssumption DEF TypeInv, ThingTypes, RowsInv
    <2> QED  BY <2>1, <2>2 DEF ThreeInv, ValueInv, Lasting, Current
  <1>2. TypeInv /\ SettingInv => ((\A k \in DOMAIN value : Tended(k)) => NothingLeftBehind)
    BY <1>1
  <1> QED  BY SettingsAreInOrder, <1>2, PTL

-----------------------------------------------------------------------------
(***************************************************************************)
(* What a fixture has changed stands as long as the fixture is up.  For    *)
(* that the tables have to say more of a setting: only the one fixture     *)
(* that gives it a value resets it; what is put back was kept before; a    *)
(* fixture that keeps an old value shares its scope with all that give the *)
(* setting one; and those need the Satellite that is given back.           *)
(***************************************************************************)
Steady(k) ==
    \A f \in DOMAIN rows :
        /\ SetUpAt(f, {"reset"}, k) = {}
        /\ f = k[1] => ~GivesItsHost(Setup(f))
        /\ Assigns(f, k) => \A g \in DOMAIN rows :
              /\ UndoAt(g, {"reset"}, k) # {} => f = g
              /\ UndoAt(g, {"back"}, k) # {} => SetUpAt(g, {"change"}, k) # {}
              /\ SetUpAt(g, {"change"}, k) # {} => Scope(f) = Scope(g)
              /\ g = k[1] /\ GivesItsHost(Undo(g)) => f = g \/ g \in Needs(f)

HasAssigned(f, k) ==
    \/ Assigns(f, k) /\ f \in Up \ {doing}
    \/ doing = f /\ phase = "setup" /\ \E i \in SetUpAt(f, Assigning, k) : i < step
HasKept(f, k) ==
    \/ SetUpAt(f, {"change"}, k) # {} /\ f \in Up
    \/ doing = f /\ phase = "setup" /\ \E i \in SetUpAt(f, {"change"}, k) : i < step

\* The setting has a value of one of its fixtures, and those that have kept the oldest one,
\* which they will put back, came first.
StandsInv(k) == \A f \in DOMAIN rows : HasAssigned(f, k) => Value(k) # Found
KeptInv(k) == \A f \in DOMAIN rows : HasKept(f, k) => <<f, k>> \in DOMAIN saved
OldestInv(k) ==
    \A f \in DOMAIN rows : <<f, k>> \in DOMAIN saved =>
        /\ SetUpAt(f, {"change"}, k) # {}
        /\ saved[<<f, k>>] = Found => \A h \in Up : Assigns(h, k) => h = f \/ Before(f, h)
SteadyParts(k) == StandsInv(k) /\ KeptInv(k) /\ OldestInv(k)
SteadyInv == \A k : Tended(k) /\ Steady(k) => SteadyParts(k)

LEMMA SteadyStays ==
    ASSUME UNCHANGED <<suite, rows>>, NEW k
    PROVE  Steady(k)' = Steady(k)
  BY TablesStay DEF Steady

\* Nothing comes after the fixture that is torn down on its stack.
LEMMA NobodyComesAfterTheLast ==
    ASSUME TypeInv, StackInv, OnceInv, doing \in DOMAIN rows, Last(Scope(doing)),
           NEW h \in Up
    PROVE  ~Before(doing, h)
  <1> SUFFICES ASSUME Before(doing, h)  PROVE FALSE
    OBVIOUS
  <1>1. h \in DOMAIN rows /\ Scope(h) \in Scopes
    BY UpIsOnAStack
  <1>2. PICK l \in DOMAIN up[Scope(h)] : up[Scope(h)][l] = h
    BY UpIsOnAStack
  <1>3. PICK i \in DOMAIN up[Scope(h)] :
            up[Scope(h)][i] = doing /\ \A j \in DOMAIN up[Scope(h)] : up[Scope(h)][j] = h => i < j
    BY DEF Before
  <1>4. Scope(doing) = Scope(h)
    BY <1>1, <1>3 DEF StackInv
  <1> DEFINE q == up[Scope(h)]
  <1>5. q \in Seq(DOMAIN rows) /\ DOMAIN q = 1..Len(q) /\ Len(q) \in Nat
    BY <1>1 DEF TypeInv, PytestTypes
  <1>6. q[Len(q)] = doing
    BY <1>4 DEF Last
  <1>7. i < l
    BY <1>2, <1>3
  <1>8. Len(q) \in DOMAIN q
    BY <1>2, <1>5
  <1>9. i = Len(q)
    BY <1>1, <1>3, <1>6, <1>8 DEF OnceInv
  <1> QED  BY <1>2, <1>5, <1>7, <1>9

-----------------------------------------------------------------------------
\* The steps between the ones of fixtures.
LEMMA SameSteady ==
    ASSUME TypeInv, UNCHANGED <<suite, rows, up, settingVars>>, NEW k, SteadyParts(k),
           doing = NoFixture \/ (doing' = doing /\ phase' = phase /\ step' = step),
           \/ doing' = NoFixture \/ phase' # "setup" \/ step' = 1
           \/ doing' = doing /\ phase' = phase /\ step' = step
    PROVE  SteadyParts(k)'
  <1> USE DEF settingVars
  <1>0. \A f \in DOMAIN rows : f # NoFixture
    BY TableAssumption DEF TypeInv, RowsInv
  <1>u. Up' = Up
    BY DEF Up, InStack
  <1>t. /\ \A f, kinds, l : /\ SetUpAt(f, kinds, l)' = SetUpAt(f, kinds, l)
                            /\ UndoAt(f, kinds, l)' = UndoAt(f, kinds, l)
        /\ \A f, l : Assigns(f, l)' = Assigns(f, l)
    BY TablesStay
  <1>v. Value(k)' = Value(k)
    BY DEF Value
  <1>b. \A g, f : Before(g, f)' = Before(g, f)
    BY DEF Before, Scope
  <1>i. ASSUME NEW f \in DOMAIN rows, NEW kinds
        PROVE  \A i \in SetUpAt(f, kinds, k) : ~(i < 1)
    BY IndexesAreNumbers DEF TypeInv
  <1>1. ASSUME NEW f \in DOMAIN rows, HasAssigned(f, k)'  PROVE HasAssigned(f, k)
    <2>1. CASE doing' = doing /\ phase' = phase /\ step' = step
      BY <1>t, <1>u, <1>1, <2>1 DEF HasAssigned
    <2>2. CASE doing = NoFixture
      BY <1>0, <1>t, <1>u, <1>i, <1>1, <2>1, <2>2 DEF HasAssigned
    <2> QED  BY <2>1, <2>2
  <1>2. ASSUME NEW f \in DOMAIN rows, HasKept(f, k)'  PROVE HasKept(f, k)
    <2>1. CASE doing' = doing /\ phase' = phase /\ step' = step
      BY <1>t, <1>u, <1>2, <2>1 DEF HasKept
    <2>2. CASE doing = NoFixture
      BY <1>0, <1>t, <1>u, <1>i, <1>2, <2>1, <2>2 DEF HasKept
    <2> QED  BY <2>1, <2>2
  <1>3. StandsInv(k)'
    BY <1>v, <1>1 DEF SteadyParts, StandsInv
  <1>4. KeptInv(k)'
    BY <1>2 DEF SteadyParts, KeptInv
  <1>5. OldestInv(k)'
    BY <1>t, <1>u, <1>b DEF SteadyParts, OldestInv
  <1> QED  BY <1>3, <1>4, <1>5 DEF SteadyParts

\* A step of a set-up.
LEMMA SetUpKeepsSteady ==
    ASSUME TypeInv, OnceInv, UNCHANGED <<suite, rows, up, doing, phase>>,
           NEW k, Tended(k), Steady(k), SteadyParts(k), phase = "setup", doing \in DOMAIN rows,
           step' = step + 1, NEW s \in Steps, s = Setup(doing)[step], step \in DOMAIN Setup(doing),
           Perform(doing, s)
    PROVE  SteadyParts(k)'
  <1>n. step \in Nat \ {0} /\ doing \notin Up /\ doing # Found
    BY TableAssumption DEF TypeInv, PytestTypes, RowsInv, OnceInv
  <1>u. Up' = Up
    BY DEF Up, InStack
  <1>t. /\ \A f, kinds, l : /\ SetUpAt(f, kinds, l)' = SetUpAt(f, kinds, l)
                            /\ UndoAt(f, kinds, l)' = UndoAt(f, kinds, l)
        /\ \A f, l : Assigns(f, l)' = Assigns(f, l)
    BY TablesStay
  <1>b. \A g, f : Before(g, f)' = Before(g, f)
    BY DEF Before, Scope
  <1>a. \A kinds : DoesAt(s, kinds, k) => step \in SetUpAt(doing, kinds, k)
    BY StepIsAt DEF DoesAt
  <1>e. \A kinds : step \in SetUpAt(doing, kinds, k) => DoesAt(s, kinds, k)
    BY DEF SetUpAt, At, DoesAt
  <1>i. \A kinds : SetUpAt(doing, kinds, k) \subseteq Nat
    BY IndexesAreNumbers DEF TypeInv
  <1>1. ASSUME Value(k)' = Value(k), ~DoesAt(s, Assigning, k)  PROVE StandsInv(k)'
    <2>1. ASSUME NEW f \in DOMAIN rows, HasAssigned(f, k)'  PROVE HasAssigned(f, k)
      <3>1. CASE f = doing
        <4>1. PICK i \in SetUpAt(f, Assigning, k) : i < step + 1
          BY <1>t, <1>u, <2>1, <3>1 DEF HasAssigned
        <4>2. i # step
          BY <1>1, <1>e, <3>1, <4>1
        <4>3. i < step
          BY <1>n, <1>i, <3>1, <4>1, <4>2
        <4> QED  BY <3>1, <4>1, <4>3 DEF HasAssigned
      <3>2. CASE f # doing
        BY <1>t, <1>u, <2>1, <3>2 DEF HasAssigned
      <3> QED  BY <3>1, <3>2
    <2> QED  BY <1>1, <2>1 DEF SteadyParts, StandsInv
  <1>2. ASSUME Value(k)' = doing  PROVE StandsInv(k)'
    BY <1>2, <1>n DEF StandsInv
  <1>3. ASSUME SavedStays(k), ~DoesAt(s, {"change"}, k)  PROVE KeptInv(k)' /\ OldestInv(k)'
    <2>1. ASSUME NEW f \in DOMAIN rows, HasKept(f, k)'  PROVE HasKept(f, k)
      <3>1. CASE f = doing
        <4>1. PICK i \in SetUpAt(f, {"change"}, k) : i < step + 1
          BY <1>n, <1>t, <1>u, <2>1, <3>1 DEF HasKept
        <4>2. i # step
          BY <1>3, <1>e, <3>1, <4>1
        <4>3. i < step
          BY <1>n, <1>i, <3>1, <4>1, <4>2
        <4> QED  BY <3>1, <4>1, <4>3 DEF HasKept
      <3>2. CASE f # doing
        BY <1>t, <1>u, <2>1, <3>2 DEF HasKept
      <3> QED  BY <3>1, <3>2
    <2>2. KeptInv(k)'
      BY <1>3, <2>1 DEF SavedStays, SteadyParts, KeptInv
    <2>3. OldestInv(k)'
      BY <1>3, <1>t, <1>u, <1>b DEF SavedStays, SteadyParts, OldestInv
    <2> QED  BY <2>2, <2>3
  <1>6. CASE GivesValue(doing, s, k)
    <2>1. ~DoesAt(s, {"change"}, k)
      BY <1>6 DEF GivesValue, DoesAt
    <2> QED  BY <1>2, <1>3, <1>6, <2>1 DEF GivesValue, SteadyParts
  <1>7. CASE KeepsAndGives(doing, s, k)
    <2>1. StandsInv(k)'
      BY <1>2, <1>7 DEF KeepsAndGives
    <2>2. step \in SetUpAt(doing, {"change"}, k)
      BY <1>a, <1>7 DEF KeepsAndGives
    <2>3. ASSUME NEW f \in DOMAIN rows, HasKept(f, k)'  PROVE <<f, k>> \in DOMAIN saved'
      <3>1. CASE f = doing
        BY <1>7, <3>1 DEF KeepsAndGives, SavedBy
      <3>2. CASE f # doing
        <4>1. HasKept(f, k)
          BY <1>t, <1>u, <2>3, <3>2 DEF HasKept
        <4> QED  BY <1>7, <4>1 DEF KeepsAndGives, SavedBy, SteadyParts, KeptInv
      <3> QED  BY <3>1, <3>2
    <2>4. ASSUME NEW f \in DOMAIN rows, <<f, k>> \in DOMAIN saved'
          PROVE  /\ SetUpAt(f, {"change"}, k) # {}
                 /\ saved'[<<f, k>>] = Found => \A h \in Up : Assigns(h, k) => h = f \/ Before(f, h)
      <3>1. CASE f = doing
        <4>1. saved'[<<f, k>>] = Value(k)
          BY <1>7, <3>1 DEF KeepsAndGives, SavedBy
        <4>2. ASSUME Value(k) = Found, NEW h \in Up, Assigns(h, k)  PROVE FALSE
          <5>1. h \in Up \ {doing} /\ h \in DOMAIN rows
            BY <1>n, <4>2 DEF Up, InStack, TypeInv, PytestTypes
          <5>2. HasAssigned(h, k)
            BY <4>2, <5>1 DEF HasAssigned
          <5> QED  BY <4>2, <5>1, <5>2 DEF SteadyParts, StandsInv
        <4> QED  BY <2>2, <3>1, <4>1, <4>2
      <3>2. CASE f # doing
        <4>1. <<f, k>> \in DOMAIN saved /\ saved'[<<f, k>>] = saved[<<f, k>>]
          BY <1>7, <2>4, <3>2 DEF KeepsAndGives, SavedBy
        <4> QED  BY <4>1 DEF SteadyParts, OldestInv
      <3> QED  BY <3>1, <3>2
    <2>5. KeptInv(k)' /\ OldestInv(k)'
      BY <1>t, <1>u, <1>b, <2>3, <2>4 DEF KeptInv, OldestInv
    <2> QED  BY <2>1, <2>5 DEF SteadyParts
  <1>8. CASE Resets(s, k)
    BY <1>a, <1>8 DEF Resets, Steady
  <1>9. CASE PutsBack(doing, s, k) \/ MovesCopy(s, k)
    <2>1. DoesAt(s, {"back", "recover"}, k)
      BY <1>9 DEF PutsBack, MovesCopy, DoesAt
    <2> QED  BY <1>a, <2>1 DEF Tended
  <1>10. CASE Copies(s, k)
    <2>1. ~DoesAt(s, Assigning, k) /\ ~DoesAt(s, {"change"}, k)
      BY <1>10 DEF Copies, DoesAt, Assigning
    <2> QED  BY <1>1, <1>3, <1>10, <2>1 DEF Copies, SteadyParts
  <1>11. CASE GivesHost(doing, s, k)
    <2>1. ~DoesAt(s, Assigning, k) /\ ~DoesAt(s, {"change"}, k)
      BY <1>11 DEF GivesHost, DoesAt, Assigning
    <2>2. GivesItsHost(Setup(doing))
      BY <1>11 DEF GivesHost, GivesItsHost
    <2>3. k[1] # doing
      BY <2>2 DEF Steady
    <2> QED  BY <1>1, <1>3, <1>11, <2>1, <2>3 DEF GivesHost, SteadyParts
  <1>12. CASE LeavesAlone(s, k)
    <2>1. ~DoesAt(s, Assigning, k) /\ ~DoesAt(s, {"change"}, k)
      BY <1>12 DEF LeavesAlone, DoesAt, Assigning
    <2> QED  BY <1>1, <1>3, <1>12, <2>1 DEF LeavesAlone, SteadyParts
  <1>p. Perform(doing, s)
    OBVIOUS
  <1> QED
    BY <1>p, PerformedSettings, <1>6, <1>7, <1>8, <1>9, <1>10, <1>11, <1>12

-----------------------------------------------------------------------------
\* A step of a teardown.
LEMMA TearDownKeepsSteady ==
    ASSUME TypeInv, StackInv, OnceInv, UNCHANGED <<suite, rows, up, doing, phase>>,
           NEW k, Tended(k), Steady(k), SteadyParts(k), phase = "teardown",
           doing \in DOMAIN rows, Last(Scope(doing)),
           \A t \in Scopes : Width[t] < Width[Scope(doing)] => up[t] = << >>,
           NEW s \in Steps, s = Undo(doing)[step], step \in DOMAIN Undo(doing), Perform(doing, s)
    PROVE  SteadyParts(k)'
  <1>u. Up' = Up /\ Up \subseteq DOMAIN rows
    BY DEF Up, InStack, TypeInv, PytestTypes
  <1>t. /\ \A f, kinds, l : /\ SetUpAt(f, kinds, l)' = SetUpAt(f, kinds, l)
                            /\ UndoAt(f, kinds, l)' = UndoAt(f, kinds, l)
        /\ \A f, l : Assigns(f, l)' = Assigns(f, l)
    BY TablesStay
  <1>b. \A g, f : Before(g, f)' = Before(g, f)
    BY DEF Before, Scope
  <1>a. \A kinds : DoesAt(s, kinds, k) => step \in UndoAt(doing, kinds, k)
    BY StepIsAt DEF DoesAt
  <1>1. ASSUME NEW f \in DOMAIN rows, HasAssigned(f, k)'
        PROVE  f \in Up \ {doing} /\ Assigns(f, k) /\ Value(k) # Found
    <2>1. f \in Up \ {doing} /\ Assigns(f, k)
      BY <1>t, <1>u, <1>1 DEF HasAssigned
    <2>2. HasAssigned(f, k)
      BY <2>1 DEF HasAssigned
    <2> QED  BY <2>1, <2>2 DEF SteadyParts, StandsInv
  <1>2. ASSUME SavedStays(k)  PROVE KeptInv(k)' /\ OldestInv(k)'
    <2>1. ASSUME NEW f \in DOMAIN rows, HasKept(f, k)'  PROVE HasKept(f, k)
      BY <1>t, <1>u, <2>1 DEF HasKept
    <2>2. KeptInv(k)'
      BY <1>2, <2>1 DEF SavedStays, SteadyParts, KeptInv
    <2>3. OldestInv(k)'
      BY <1>2, <1>t, <1>u, <1>b DEF SavedStays, SteadyParts, OldestInv
    <2> QED  BY <2>2, <2>3
  \* It is enough that the value is another one than was found, if a fixture that is up gave it one.
  <1>3. ASSUME SavedStays(k),
               ASSUME NEW f \in Up \ {doing}, f \in DOMAIN rows, Assigns(f, k), Value(k) # Found
               PROVE  Value(k)' # Found
        PROVE  SteadyParts(k)'
    <2>1. ASSUME NEW f \in DOMAIN rows, HasAssigned(f, k)'  PROVE Value(k)' # Found
      BY <1>1, <1>3, <2>1
    <2>2. StandsInv(k)'
      BY <2>1 DEF StandsInv
    <2> QED  BY <1>2, <1>3, <2>2 DEF SteadyParts
  <1>6. CASE GivesValue(doing, s, k) \/ KeepsAndGives(doing, s, k) \/ Copies(s, k)
    <2>1. DoesAt(s, {"set", "change", "backup"}, k)
      BY <1>6 DEF GivesValue, KeepsAndGives, Copies, DoesAt
    <2> QED  BY <1>a, <2>1 DEF Tended
  <1>7. CASE Resets(s, k)
    <2>1. UndoAt(doing, {"reset"}, k) # {}
      BY <1>a, <1>7 DEF Resets
    <2>2. ASSUME NEW f \in Up \ {doing}, f \in DOMAIN rows, Assigns(f, k)  PROVE FALSE
      BY <2>1, <2>2 DEF Steady
    <2>3. SavedStays(k)
      BY <1>7 DEF Resets
    <2> QED  BY <1>3, <2>2, <2>3
  <1>8. CASE PutsBack(doing, s, k)
    <2>1. UndoAt(doing, {"back"}, k) # {}
      BY <1>a, <1>8 DEF PutsBack
    <2>2. ASSUME NEW f \in Up \ {doing}, f \in DOMAIN rows, Assigns(f, k), Value(k) # Found
          PROVE  Value(k)' # Found
      <3>1. SetUpAt(doing, {"change"}, k) # {}
        BY <2>1, <2>2 DEF Steady
      <3>2. doing \in Up
        <4>1. up[Scope(doing)] \in Seq(DOMAIN rows) /\ Scope(doing) \in Scopes
          BY StepsOfARow, 1 \in Nat \ {0} DEF TypeInv, PytestTypes
        <4>2. Len(up[Scope(doing)]) \in DOMAIN up[Scope(doing)]
          BY <4>1 DEF Last
        <4> QED  BY <4>1, <4>2 DEF Last, Up, InStack
      <3>3. <<doing, k>> \in DOMAIN saved
        BY <3>1, <3>2 DEF HasKept, SteadyParts, KeptInv
      <3>4. saved[<<doing, k>>] # Found
        <4> SUFFICES ASSUME saved[<<doing, k>>] = Found  PROVE FALSE
          OBVIOUS
        <4>1. f = doing \/ Before(doing, f)
          BY <2>2, <3>3 DEF SteadyParts, OldestInv
        <4> QED  BY <2>2, <4>1, NobodyComesAfterTheLast
      <3> QED  BY <1>8, <3>3, <3>4 DEF PutsBack
    <2>3. SavedStays(k)
      BY <1>8 DEF PutsBack
    <2> QED  BY <1>3, <2>2, <2>3
  <1>9. CASE MovesCopy(s, k)
    <2>1. Recovers(doing, k)
      BY <1>a, <1>9 DEF MovesCopy, Recovers
    <2>2. ASSUME NEW f \in Up \ {doing}, f \in DOMAIN rows, Assigns(f, k)  PROVE FALSE
      BY <2>1, <2>2 DEF Tended
    <2>3. SavedStays(k)
      BY <1>9 DEF MovesCopy
    <2> QED  BY <1>3, <2>2, <2>3
  <1>10. CASE GivesHost(doing, s, k)
    <2>1. ASSUME NEW f \in Up \ {doing}, f \in DOMAIN rows, Assigns(f, k), Value(k) # Found
          PROVE  Value(k)' # Found
      <3>1. GivesItsHost(Undo(doing))
        BY <1>10 DEF GivesHost, GivesItsHost
      <3>2. doing \notin Needs(f)
        BY <2>1, NobodyNeedsTheLast
      <3>3. k[1] # doing
        BY <2>1, <3>1, <3>2 DEF Steady
      <3> QED  BY <1>10, <2>1, <3>3 DEF GivesHost
    <2>2. SavedStays(k)
      BY <1>10 DEF GivesHost
    <2> QED  BY <1>3, <2>1, <2>2
  <1>11. CASE LeavesAlone(s, k)
    <2>1. Value(k)' = Value(k) /\ SavedStays(k)
      BY <1>11 DEF LeavesAlone
    <2> QED  BY <1>3, <2>1
  <1>p. Perform(doing, s)
    OBVIOUS
  <1> QED
    BY <1>p, PerformedSettings, <1>6, <1>7, <1>8, <1>9, <1>10, <1>11

\* The end of a set-up that has not failed.
LEMMA PushKeepsSteady ==
    ASSUME TypeInv, StackInv, OnceInv, UNCHANGED <<suite, rows, settingVars>>,
           NEW k, Steady(k), SavedInv(k), SteadyParts(k), phase = "setup",
           doing \in DOMAIN rows, doing' = NoFixture, step > Len(Setup(doing)),
           up' = [up EXCEPT ![Scope(doing)] = Append(@, doing)]
    PROVE  SteadyParts(k)'
  <1> USE DEF settingVars
  <1>0. \A f \in DOMAIN rows : f # NoFixture
    BY TableAssumption DEF TypeInv, RowsInv
  <1>n. step \in Nat /\ doing \notin Up
    BY DEF TypeInv, PytestTypes, OnceInv
  <1>u. Up' = Up \cup {doing}
    BY PushIs
  <1>t. /\ \A f, kinds, l : /\ SetUpAt(f, kinds, l)' = SetUpAt(f, kinds, l)
                            /\ UndoAt(f, kinds, l)' = UndoAt(f, kinds, l)
        /\ \A f, l : Assigns(f, l)' = Assigns(f, l)
        /\ \A f : Scope(f)' = Scope(f)
    BY TablesStay
  <1>b. \A f \in DOMAIN rows : \A g : Before(g, f) => Before(g, f)'
    BY BeforeAfterPush
  <1>i. \A kinds : \A i \in SetUpAt(doing, kinds, k) : i < step
    BY <1>n, IndexesAreNumbers DEF TypeInv
  <1>1. ASSUME NEW f \in DOMAIN rows, HasAssigned(f, k)'  PROVE HasAssigned(f, k)
    <2>1. Assigns(f, k) /\ f \in Up \cup {doing}
      BY <1>0, <1>t, <1>u, <1>1 DEF HasAssigned
    <2>2. CASE f = doing
      BY <1>i, <2>1, <2>2 DEF HasAssigned, Assigns
    <2>3. CASE f # doing
      BY <2>1, <2>3 DEF HasAssigned
    <2> QED  BY <2>2, <2>3
  <1>2. ASSUME NEW f \in DOMAIN rows, HasKept(f, k)'  PROVE HasKept(f, k)
    <2>1. SetUpAt(f, {"change"}, k) # {} /\ f \in Up \cup {doing}
      BY <1>0, <1>t, <1>u, <1>2 DEF HasKept
    <2>2. CASE f = doing
      BY <1>i, <2>1, <2>2 DEF HasKept
    <2>3. CASE f # doing
      BY <2>1, <2>3 DEF HasKept
    <2> QED  BY <2>2, <2>3
  <1>3. StandsInv(k)'
    <2>1. Value(k)' = Value(k)
      BY DEF Value
    <2> QED  BY <1>1, <2>1 DEF SteadyParts, StandsInv
  <1>4. KeptInv(k)'
    BY <1>2 DEF SteadyParts, KeptInv
  <1>5. ASSUME NEW f \in DOMAIN rows, <<f, k>> \in DOMAIN saved, saved[<<f, k>>] = Found,
               NEW h \in Up', Assigns(h, k), h # f
        PROVE  Before(f, h)'
    <2>1. f \in Up \cup {doing} /\ SetUpAt(f, {"change"}, k) # {}
      BY <1>5 DEF SavedInv, SteadyParts, OldestInv
    <2>2. CASE h \in Up
      <3>1. Before(f, h)
        BY <1>5, <2>2 DEF SteadyParts, OldestInv
      <3>2. h \in DOMAIN rows
        BY <2>2, UpIsOnAStack
      <3> QED  BY <1>b, <3>1, <3>2
    <2>3. CASE h = doing
      <3>1. f \in Up
        BY <1>5, <2>1, <2>3
      <3>2. Scope(f) = Scope(h)
        BY <1>5, <2>1, <2>3 DEF Steady
      <3>3. Scope(h) \in Scopes /\ \E i \in DOMAIN up[Scope(h)] : up[Scope(h)][i] = f
        BY <3>1, <3>2, UpIsOnAStack
      <3>4. \A i \in DOMAIN up[Scope(h)] : up[Scope(h)][i] # h
        BY <1>n, <2>3, <3>3 DEF Up, InStack
      <3>5. Before(f, h)
        BY <3>3, <3>4 DEF Before
      <3> QED  BY <1>b, <2>3, <3>5
    <2> QED  BY <1>u, <2>2, <2>3
  <1>6. OldestInv(k)'
    BY <1>t, <1>5 DEF SteadyParts, OldestInv
  <1> QED  BY <1>3, <1>4, <1>6 DEF SteadyParts

\* The end of a fixture.
LEMMA LeaveKeepsSteady ==
    ASSUME TypeInv, UNCHANGED <<suite, rows>>, NEW k, SteadyParts(k),
           doing \in DOMAIN rows, doing' = NoFixture, Leave(doing), Up' = Up \ {doing},
           \A f \in Up \ {doing} : \A g : Before(g, f) => Before(g, f)'
    PROVE  SteadyParts(k)'
  <1>0. \A f \in DOMAIN rows : f # NoFixture
    BY TableAssumption DEF TypeInv, RowsInv
  <1>t. /\ \A f, kinds, l : SetUpAt(f, kinds, l)' = SetUpAt(f, kinds, l)
        /\ \A f, l : Assigns(f, l)' = Assigns(f, l)
    BY TablesStay
  <1>v. Value(k)' = Value(k)
    BY DEF Leave, Value
  <1>s. ASSUME NEW f
        PROVE  /\ <<f, k>> \in DOMAIN saved' <=> <<f, k>> \in DOMAIN saved /\ f # doing
               /\ <<f, k>> \in DOMAIN saved' => saved'[<<f, k>>] = saved[<<f, k>>]
    <2>1. <<f, k>>[1] = f
      OBVIOUS
    <2> QED  BY <2>1 DEF Leave, Without
  <1>1. StandsInv(k)'
    <2>1. ASSUME NEW f \in DOMAIN rows, HasAssigned(f, k)'  PROVE HasAssigned(f, k)
      BY <1>0, <1>t, <2>1 DEF HasAssigned
    <2> QED  BY <1>v, <2>1 DEF SteadyParts, StandsInv
  <1>2. KeptInv(k)'
    <2>1. ASSUME NEW f \in DOMAIN rows, HasKept(f, k)'  PROVE HasKept(f, k) /\ f # doing
      BY <1>0, <1>t, <2>1 DEF HasKept
    <2> QED  BY <1>s, <2>1 DEF SteadyParts, KeptInv
  <1>3. ASSUME NEW f \in DOMAIN rows, <<f, k>> \in DOMAIN saved'
        PROVE  /\ SetUpAt(f, {"change"}, k) # {}
               /\ saved'[<<f, k>>] = Found => \A h \in Up' : Assigns(h, k) => h = f \/ Before(f, h)'
    <2>1. <<f, k>> \in DOMAIN saved /\ saved'[<<f, k>>] = saved[<<f, k>>]
      BY <1>s, <1>3
    <2>2. SetUpAt(f, {"change"}, k) # {}
      BY <2>1 DEF SteadyParts, OldestInv
    <2>3. ASSUME saved[<<f, k>>] = Found, NEW h \in Up', Assigns(h, k), h # f  PROVE Before(f, h)'
      <3>1. h \in Up \ {doing}
        BY <2>3
      <3>2. Before(f, h)
        BY <2>1, <2>3, <3>1 DEF SteadyParts, OldestInv
      <3> QED  BY <3>1, <3>2
    <2> QED  BY <2>1, <2>2, <2>3
  <1>4. OldestInv(k)'
    BY <1>t, <1>3 DEF OldestInv
  <1> QED  BY <1>1, <1>2, <1>4 DEF SteadyParts

LEMMA StepKeepsSteadyInv ==
    TypeInv /\ StackInv /\ DoingInv /\ OnceInv /\ SettingInv /\ SteadyInv /\ [Next]_vars
        => SteadyInv'
  <1> SUFFICES ASSUME TypeInv, StackInv, DoingInv, OnceInv, SettingInv, SteadyInv, [Next]_vars,
                      NEW k, Tended(k)', Steady(k)'
               PROVE  SteadyParts(k)'
    BY DEF SteadyInv
  <1>r. UNCHANGED <<suite, rows>>
    BY RowsStay
  <1>k. Tended(k) /\ Steady(k) /\ SavedInv(k) /\ SteadyParts(k)
    BY <1>r, TendedStays, SteadyStays DEF SettingInv, ThreeInv, SteadyInv
  <1>d. doing = NoFixture \/ doing \in DOMAIN rows
    BY DEF TypeInv, PytestTypes
  <1>u. up' = up => Up' = Up
    BY DEF Up, InStack
  <1>1. ASSUME NEW test \in suite.tests, StartTest(test)  PROVE SteadyParts(k)'
    <2>1. doing = NoFixture /\ doing' = NoFixture
      BY <1>1 DEF StartTest, DoingInv
    <2> QED  BY <1>1, <1>r, <1>k, <2>1, SameSteady DEF StartTest
  <1>2. CASE BeginSetUp \/ Refuse \/ Run1 \/ AllDown \/ BeginTearDown
    <2>1. /\ UNCHANGED <<up, settingVars>> /\ doing = NoFixture
          /\ doing' = NoFixture \/ step' = 1
      BY <1>2 DEF BeginSetUp, Refuse, Run1, AllDown, BeginTearDown
    <2> QED  BY <1>r, <1>k, <2>1, SameSteady
  <1>4. CASE SetUpStep
    <2>1. doing \in DOMAIN rows /\ phase = "setup" /\ step \in Nat \ {0}
      BY <1>4, <1>d DEF SetUpStep, TypeInv, PytestTypes
    <2>2. PICK s \in Steps : s = Setup(doing)[step]
      BY <1>4, <2>1, StepsOfARow DEF SetUpStep, TypeInv
    <2>3. step \in DOMAIN Setup(doing)
      BY <1>4, <2>1, StepsOfARow DEF SetUpStep, TypeInv
    <2>4. Perform(doing, s) /\ UNCHANGED <<up, doing, phase>> /\ step' = step + 1
      BY <1>4, <2>2 DEF SetUpStep
    <2> QED  BY <1>r, <1>k, <2>1, <2>2, <2>3, <2>4, SetUpKeepsSteady
  <1>5. CASE SetUpDone
    <2>1. /\ doing \in DOMAIN rows /\ phase = "setup" /\ step > Len(Setup(doing))
          /\ doing' = NoFixture /\ UNCHANGED settingVars
          /\ up' = [up EXCEPT ![Scope(doing)] = Append(@, doing)]
      BY <1>5, <1>d DEF SetUpDone
    <2> QED  BY <1>r, <1>k, <2>1, PushKeepsSteady
  <1>6. CASE SetUpFails
    <2>1. doing \in DOMAIN rows /\ up' = up /\ Leave(doing) /\ doing' = NoFixture
      BY <1>6, <1>d DEF SetUpFails
    <2>2. Up' = Up \ {doing}
      BY <1>6, <1>u, <2>1 DEF SetUpFails, OnceInv
    <2>3. \A f \in Up \ {doing} : \A g : Before(g, f) => Before(g, f)'
      BY <1>r, <2>1 DEF Before, Scope
    <2> QED  BY <1>r, <1>k, <2>1, <2>2, <2>3, LeaveKeepsSteady
  <1>7. ASSUME NEW scopes \in Endings, EndTest(scopes)  PROVE SteadyParts(k)'
    <2>1. doing = NoFixture /\ doing' = NoFixture
      BY <1>7 DEF EndTest, DoingInv
    <2> QED  BY <1>7, <1>r, <1>k, <2>1, SameSteady DEF EndTest
  <1>9. CASE TearDownStep
    <2>1. /\ doing \in DOMAIN rows /\ phase = "teardown" /\ step \in Nat \ {0}
          /\ Last(Scope(doing))
          /\ \A t \in Scopes : Width[t] < Width[Scope(doing)] => up[t] = << >>
      BY <1>9, <1>d DEF TearDownStep, TypeInv, PytestTypes, DoingInv
    <2>2. PICK s \in Steps : s = Undo(doing)[step]
      BY <1>9, <2>1, StepsOfARow DEF TearDownStep, TypeInv
    <2>3. step \in DOMAIN Undo(doing)
      BY <1>9, <2>1, StepsOfARow DEF TearDownStep, TypeInv
    <2>4. Perform(doing, s) /\ UNCHANGED <<up, doing, phase>>
      BY <1>9, <2>2 DEF TearDownStep
    <2> QED  BY <1>r, <1>k, <2>1, <2>2, <2>3, <2>4, TearDownKeepsSteady
  <1>10. CASE TearDownDone \/ TearDownFails
    <2>1. /\ doing \in DOMAIN rows /\ Pop(doing) /\ Leave(doing) /\ Last(Scope(doing))
          /\ doing' = NoFixture
      BY <1>10, <1>d DEF TearDownDone, TearDownFails, DoingInv
    <2>2. Up' = Up \ {doing}
      BY <2>1, PopIs
    <2>3. \A f \in Up \ {doing} : \A g : Before(g, f) => Before(g, f)'
      BY <1>r, <2>1, BeforeAfterPop
    <2> QED  BY <1>r, <1>k, <2>1, <2>2, <2>3, LeaveKeepsSteady
  <1>11. CASE UNCHANGED vars
    <2>1. UNCHANGED <<up, settingVars, doing, phase, step>>
      BY <1>11 DEF vars, pytestVars
    <2> QED  BY <1>r, <1>k, <2>1, SameSteady
  <1> QED
    BY <1>1, <1>2, <1>4, <1>5, <1>6, <1>7, <1>9, <1>10, <1>11 DEF Next, Over

\* What a fixture has changed for its tests stands until it is torn down: of any fixtures that
\* tend the setting and keep it steady, whichever tests come between and whichever fixture fails.
THEOREM SettingsAreSteady ==
    Spec => []((\A f \in Up : \A k \in Changes(f) : Tended(k) /\ Steady(k)) => SettingsStand)
  <1>1. Init => SteadyInv
    <2> SUFFICES ASSUME Init, NEW k  PROVE SteadyParts(k)
      BY DEF SteadyInv
    <2>1. Up = {} /\ DOMAIN saved = {}
      BY DEF Init, Up, InStack
    <2>2. \A f \in DOMAIN rows : ~HasAssigned(f, k) /\ ~HasKept(f, k)
      BY <2>1 DEF Init, HasAssigned, HasKept
    <2> QED  BY <2>1, <2>2 DEF SteadyParts, StandsInv, KeptInv, OldestInv
  <1>2. SteadyInv /\ (TypeInv /\ StackInv /\ DoingInv /\ OnceInv /\ SettingInv) /\ [Next]_vars
           => SteadyInv'
    BY StepKeepsSteadyInv
  <1>3. ASSUME TypeInv, SettingInv, SteadyInv,
               \A f \in Up : \A k \in Changes(f) : Tended(k) /\ Steady(k)
        PROVE  SettingsStand
    <2> SUFFICES ASSUME NEW f \in Up \ {doing}, NEW k \in Changes(f)
                 PROVE  k \in DOMAIN value /\ value[k] \in Keepers \cup Up \cup {doing} \cup failed
      BY DEF SettingsStand
    <2>1. Tended(k) /\ Steady(k) /\ ThreeInv(k) /\ SteadyParts(k)
      BY <1>3 DEF SettingInv, SteadyInv
    <2>2. f \in DOMAIN rows
      BY <1>3 DEF Up, InStack, TypeInv, PytestTypes
    <2>3. Assigns(f, k)
      BY DEF Changes, Assigns, SetUpAt, At, Assigning, Effective
    <2>4. Value(k) # Found
      BY <2>1, <2>2, <2>3 DEF HasAssigned, SteadyParts, StandsInv
    <2>5. k \in DOMAIN value /\ Value(k) = value[k]
      BY <2>4 DEF Value
    <2> QED  BY <2>1, <2>4, <2>5 DEF ThreeInv, ValueInv, Lasting, Current
  <1>4. TypeInv /\ SettingInv /\ SteadyInv
           => ((\A f \in Up : \A k \in Changes(f) : Tended(k) /\ Steady(k)) => SettingsStand)
    BY <1>3
  <1> QED  BY <1>1, <1>2, <1>4, SettingsAreInOrder, PTL DEF Spec
=============================================================================
