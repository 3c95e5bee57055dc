----------------------- MODULE HammerCommandsProofs -----------------------
(***************************************************************************)
(* Proofs about HammerCommands, for any table of classes that satisfies    *)
(* TableAssumption, any Satellites and any bound.                          *)
(*                                                                         *)
(* The command lines need AttributesInv: an attribute that some method of  *)
(* the class leaves alone is assigned by none, so nobody has one of his    *)
(* own.  Leaving with statements needs NestInv: each open one remembers    *)
(* the host that was the default outside of it.  The credentials need      *)
(* OmitInv: exactly the outermost omit_credentials() is the one that       *)
(* switches back.                                                          *)
(***************************************************************************)
EXTENDS HammerCommands, TLAPS

Fields == {"sub", "base", "end"}
Attributes == [sub : Values("sub"), base : Values("base"), end : Values("end"), org : {"yes", Unset}]
BlockSet == ({"satellite"} \X Satellite) \cup ({"omit"} \X BOOLEAN)

AttributesInv ==
    /\ code = Cli[class]
    /\ \A m \in code.methods, f \in Fields : m[f] = Keep => \A i \in Incarnation : attr[i][f] = Unset
    /\ \A i \in Incarnation : attr[i].org = "yes" => code.org

Before(k) == HostIn({n \in Entered : n < k})

NestInv ==
    ~reentered =>
        /\ server = DefaultHost
        /\ \A k \in Entered :
            IF revert[blocks[k][2]] THEN old[blocks[k][2]] = Before(k) ELSE Before(k) = blocks[k][2]
        /\ \A k, n \in Entered : blocks[k][2] = blocks[n][2] => k = n

Omits(k) == blocks[k][1] = "omit"

OmitInv ==
    /\ copyOmits <=> copied /\ omitting
    /\ ~spoilt =>
        /\ omitting <=> \E k \in DOMAIN blocks : Omits(k)
        /\ \A k \in DOMAIN blocks :
            Omits(k) => (blocks[k][2] <=> ~\E n \in DOMAIN blocks : n < k /\ Omits(n))

-----------------------------------------------------------------------------
(* Sequences.                                                              *)

\* Appending an element.
LEMMA AppendFacts ==
    ASSUME NEW S, NEW q \in Seq(S), NEW e \in S
    PROVE  /\ Append(q, e) \in Seq(S) /\ Len(q) \in Nat
           /\ DOMAIN q = 1..Len(q) /\ DOMAIN Append(q, e) = 1..(Len(q) + 1)
           /\ \A k \in 1..Len(q) : Append(q, e)[k] = q[k]
           /\ Append(q, e)[Len(q) + 1] = e
  OBVIOUS

\* Leaving out the last element.
LEMMA FrontFacts ==
    ASSUME NEW S, NEW q \in Seq(S), q # <<>>
    PROVE  /\ SubSeq(q, 1, Len(q) - 1) \in Seq(S) /\ Len(q) \in Nat /\ Len(q) >= 1
           /\ DOMAIN q = 1..Len(q) /\ DOMAIN SubSeq(q, 1, Len(q) - 1) = 1..(Len(q) - 1)
           /\ \A k \in 1..(Len(q) - 1) : SubSeq(q, 1, Len(q) - 1)[k] = q[k]
           /\ q[Len(q)] \in S
  OBVIOUS

-----------------------------------------------------------------------------
(* Type correctness.                                                       *)

\* What a method leaves behind, in an incarnation's attributes.
LEMMA AssignTypes ==
    ASSUME TypeOK, AttributesInv, NEW m \in code.methods, NEW a \in Attributes
    PROVE  /\ Assign(a, m) \in Attributes
           /\ \A f \in Fields : Assign(a, m)[f] = IF m[f] = Keep THEN a[f] ELSE m[f]
           /\ Assign(a, m).org = a.org
  <1>1. \A f \in Fields : m[f] # Keep => m[f] \in Values(f)
    BY DEF Values, Fields
  <1>2. Assign(a, m).sub = IF m.sub = Keep THEN a.sub ELSE m.sub
    BY DEF Assign, Attributes
  <1>3. Assign(a, m).base = IF m.base = Keep THEN a.base ELSE m.base
    BY DEF Assign, Attributes
  <1>4. Assign(a, m).end = IF m.end = Keep THEN a.end ELSE m.end
    BY DEF Assign, Attributes
  <1>5. Assign(a, m).org = a.org
    BY DEF Assign, Attributes
  <1>6. m.sub # Keep => m.sub \in Values("sub")
    BY <1>1 DEF Fields
  <1>7. m.base # Keep => m.base \in Values("base")
    BY <1>1 DEF Fields
  <1>8. m.end # Keep => m.end \in Values("end")
    BY <1>1 DEF Fields
  <1>9. Assign(a, m) \in Attributes
    <2> DEFINE x == IF m.sub = Keep THEN a.sub ELSE m.sub
               y == IF m.base = Keep THEN a.base ELSE m.base
               z == IF m.end = Keep THEN a.end ELSE m.end
    <2>1. x \in Values("sub") /\ y \in Values("base") /\ z \in Values("end")
      BY <1>6, <1>7, <1>8 DEF Attributes
    <2>2. Assign(a, m) = [[[a EXCEPT !.sub = x] EXCEPT !.base = y] EXCEPT !.end = z]
      BY DEF Assign, Attributes
    <2> HIDE DEF x, y, z
    <2>3. [a EXCEPT !.sub = x] \in Attributes
      BY <2>1 DEF Attributes
    <2>4. [[a EXCEPT !.sub = x] EXCEPT !.base = y] \in Attributes
      BY <2>1, <2>3 DEF Attributes
    <2> QED
      BY <2>1, <2>2, <2>4 DEF Attributes
  <1> QED
    BY <1>2, <1>3, <1>4, <1>5, <1>9 DEF Fields

\* The organization flag that is put back is the one that the class declares.
LEMMA AfterTypes ==
    ASSUME TypeOK, AttributesInv, NEW m \in code.methods, NEW a \in Attributes,
           NEW raised \in BOOLEAN, a.org = "yes" => code.org
    PROVE  /\ Finally(a, m, raised) \in Attributes
           /\ \A f \in Fields : Finally(a, m, raised)[f] = a[f]
           /\ Finally(a, m, raised).org = "yes" => code.org
  <1>1. m.relaxed => code.org
    BY TableAssumption DEF TypeOK, AttributesInv
  <1>2. Finally(a, m, raised) = [a EXCEPT !.org = IF m.relaxed THEN "yes" ELSE @]
    BY DEF Finally, Flag
  <1> QED
    BY <1>1, <1>2 DEF Attributes, Fields

-----------------------------------------------------------------------------
(* What a call leaves in the attributes, and what it reads there.          *)

\* b is what attr becomes when m runs in the incarnation i.
Ran(b, i, m) ==
    /\ b \in [Incarnation -> Attributes]
    /\ \A j \in Incarnation \ {i} : b[j] = attr[j]
    /\ \A f \in Fields : b[i][f] = IF m[f] = Keep THEN attr[i][f] ELSE m[f]
    /\ b[i].org = "yes" => code.org

LEMMA LeftRan ==
    ASSUME TypeOK, AttributesInv, NEW m \in code.methods, NEW i \in Incarnation,
           NEW raised \in BOOLEAN
    PROVE  Ran(Left(i, m, raised), i, m) /\ Ran([attr EXCEPT ![i] = Assign(@, m)], i, m)
  <1>1. attr[i] \in Attributes /\ (attr[i].org = "yes" => code.org)
    BY DEF TypeOK, AttributesInv, Attributes
  <1>2. Assign(attr[i], m) \in Attributes
    /\ (\A f \in Fields : Assign(attr[i], m)[f] = IF m[f] = Keep THEN attr[i][f] ELSE m[f])
    /\ Assign(attr[i], m).org = attr[i].org
    BY <1>1, AssignTypes
  <1>3. After(attr[i], m, raised) \in Attributes
    /\ (\A f \in Fields : After(attr[i], m, raised)[f] = Assign(attr[i], m)[f])
    /\ (After(attr[i], m, raised).org = "yes" => code.org)
    <2>1. Assign(attr[i], m).org = "yes" => code.org
      BY <1>1, <1>2
    <2> QED
      BY <1>2, <2>1, AfterTypes DEF After
  <1>4. attr \in [Incarnation -> Attributes]
    BY DEF TypeOK, Attributes
  <1>5. Ran(Left(i, m, raised), i, m)
    BY <1>2, <1>3, <1>4 DEF Left, Ran
  <1>6. Ran([attr EXCEPT ![i] = Assign(@, m)], i, m)
    BY <1>1, <1>2, <1>4 DEF Ran
  <1> QED
    BY <1>5, <1>6

\* All or none of the methods assign an attribute.
LEMMA AllOrNone ==
    ASSUME TypeOK, AttributesInv, NEW m \in code.methods, NEW n \in code.methods, NEW f \in Fields
    PROVE  m[f] # Unset /\ (m[f] = Keep => n[f] = Keep)
  BY TableAssumption DEF TypeOK, AttributesInv, Fields

LEMMA RanKeepsInv ==
    ASSUME TypeOK, AttributesInv, NEW m \in code.methods, NEW i \in Incarnation, NEW b,
           Ran(b, i, m)
    PROVE  /\ \A n \in code.methods, f \in Fields :
                n[f] = Keep => \A j \in Incarnation : b[j][f] = Unset
           /\ \A j \in Incarnation : b[j].org = "yes" => code.org
  <1>1. ASSUME NEW n \in code.methods, NEW f \in Fields, n[f] = Keep, NEW j \in Incarnation
        PROVE  b[j][f] = Unset
    <2>1. m[f] = Keep
      BY <1>1, AllOrNone
    <2>2. attr[j][f] = Unset
      BY <1>1 DEF AttributesInv
    <2> QED
      BY <2>1, <2>2, <1>1 DEF Ran
  <1>2. ASSUME NEW j \in Incarnation, b[j].org = "yes"
        PROVE  code.org
    BY <1>2 DEF Ran, AttributesInv
  <1> QED
    BY <1>1, <1>2

\* The value that is read is the one that the method has written down.
LEMMA ValueIsWritten ==
    ASSUME TypeOK, AttributesInv, NEW m \in code.methods, NEW i \in Incarnation, NEW b,
           Ran(b, i, m), NEW f \in Fields
    PROVE  Value(b, i, f) = Written(m, f)
  <1>1. m[f] # Unset
    BY AllOrNone
  <1>2. CASE m[f] # Keep
    <2>1. b[i][f] = m[f]
      BY <1>2 DEF Ran
    <2> QED
      BY <1>1, <1>2, <2>1 DEF Value, FromClass, FromCopy, Else, Written, Incarnation
  <1>3. CASE m[f] = Keep
    <2>1. \A j \in Incarnation : b[j][f] = Unset
      BY <1>3, RanKeepsInv
    <2> QED
      BY <1>3, <2>1 DEF Value, FromClass, FromCopy, Else, Written, Incarnation
  <1> QED
    BY <1>2, <1>3

\* create() and the info() it calls, seen as one method: the latter.
LEMMA FetchedRan ==
    ASSUME TypeOK, AttributesInv, NEW m \in code.methods, NEW n \in code.methods,
           NEW i \in Incarnation, NEW raised \in BOOLEAN, NEW created,
           created = [attr EXCEPT ![i] = Assign(@, m)]
    PROVE  Ran([created EXCEPT ![i] = Finally(After(@, n, raised), m, raised)], i, n)
  <1> DEFINE c == created[i]
             d == After(c, n, raised)
             e == Finally(d, m, raised)
  <1>1. Ran(created, i, m)
    BY LeftRan
  <1>2. created \in [Incarnation -> Attributes] /\ c \in Attributes /\ (c.org = "yes" => code.org)
    BY <1>1 DEF Ran
  <1>3. Assign(c, n) \in Attributes /\ Assign(c, n).org = c.org
    /\ \A f \in Fields : Assign(c, n)[f] = IF n[f] = Keep THEN c[f] ELSE n[f]
    BY <1>2, AssignTypes
  <1>4. d \in Attributes /\ (d.org = "yes" => code.org)
    /\ \A f \in Fields : d[f] = Assign(c, n)[f]
    <2>1. Assign(c, n).org = "yes" => code.org
      BY <1>2, <1>3
    <2> QED
      BY <1>3, <2>1, AfterTypes DEF After
  <1>5. e \in Attributes /\ (e.org = "yes" => code.org) /\ \A f \in Fields : e[f] = d[f]
    BY <1>4, AfterTypes
  <1>6. \A f \in Fields : e[f] = IF n[f] = Keep THEN attr[i][f] ELSE n[f]
    <2> TAKE f \in Fields
    <2>1. e[f] = IF n[f] = Keep THEN c[f] ELSE n[f]
      BY <1>3, <1>4, <1>5
    <2>2. n[f] = Keep => m[f] = Keep
      BY AllOrNone
    <2>3. m[f] = Keep => c[f] = attr[i][f]
      BY <1>1 DEF Ran
    <2> QED
      BY <2>1, <2>2, <2>3
  <1>7. [created EXCEPT ![i] = Finally(After(@, n, raised), m, raised)] = [created EXCEPT ![i] = e]
    BY <1>2
  <1>8. \A j \in Incarnation \ {i} : created[j] = attr[j]
    BY <1>1 DEF Ran
  <1> HIDE DEF c, d, e
  <1> QED
    BY <1>2, <1>5, <1>6, <1>7, <1>8 DEF Ran

LEMMA FetchEffect ==
    ASSUME TypeOK, AttributesInv, NEW i \in Incarnation, NEW m \in code.methods, RunAndFetch(i, m)
    PROVE  /\ Info \in code.methods
           /\ Ran(attr', i, Info)
           /\ issued' = <<Command([attr EXCEPT ![i] = Assign(@, m)], i, m), Command(attr', i, Info)>>
  <1>1. m.fetch
    BY DEF RunAndFetch
  <1>2. \E n \in code.methods : n.sub = "info"
    BY <1>1, TableAssumption DEF TypeOK, AttributesInv
  <1>3. Info \in code.methods
    BY <1>2 DEF Info
  <1> DEFINE created == [attr EXCEPT ![i] = Assign(@, m)]
  <1>4. PICK raised \in BOOLEAN :
          /\ attr' = [created EXCEPT ![i] = Finally(After(@, Info, raised), m, raised)]
          /\ issued' = <<Command(created, i, m), Command(attr', i, Info)>>
    BY DEF RunAndFetch
  <1> HIDE DEF created
  <1>5. Ran([created EXCEPT ![i] = Finally(After(@, Info, raised), m, raised)], i, Info)
    BY <1>3, FetchedRan DEF created
  <1> QED
    BY <1>3, <1>4, <1>5 DEF created

\* What a call does to the state, whichever of the four it is.
LEMMA CallEffect ==
    ASSUME TypeOK, AttributesInv, NEW i \in Incarnation, NEW m \in code.methods,
           Refuse(i, m) \/ RefuseInfo(i, m) \/ Run(i, m) \/ RunAndFetch(i, m)
    PROVE  /\ UNCHANGED <<class, code, inner, mine, userOf, copied, contexts>>
           /\ steps \in Nat /\ steps < MaxSteps /\ steps' = steps + 1
           /\ attr' = attr \/ \E n \in code.methods : Ran(attr', i, n)
  <1>1. UNCHANGED <<class, code, inner, mine, userOf, copied, contexts>>
        /\ steps < MaxSteps /\ steps' = steps + 1
    BY DEF Refuse, RefuseInfo, Run, RunAndFetch, Method
  <1>2. ASSUME Refuse(i, m)
        PROVE  attr' = attr \/ Ran(attr', i, m)
    <2>1. attr' = attr \/ attr' = Left(i, m, TRUE)
      BY <1>2 DEF Refuse
    <2> QED
      BY <2>1, LeftRan
  <1>3. ASSUME RefuseInfo(i, m)
        PROVE  Ran(attr', i, m)
    BY <1>3, LeftRan DEF RefuseInfo
  <1>4. ASSUME Run(i, m)
        PROVE  Ran(attr', i, m)
    <2>1. PICK raised \in BOOLEAN : attr' = Left(i, m, raised)
      BY <1>4 DEF Run
    <2> QED
      BY <2>1, LeftRan
  <1>5. ASSUME RunAndFetch(i, m)
        PROVE  \E n \in code.methods : Ran(attr', i, n)
    BY <1>5, FetchEffect
  <1>6. attr' = attr \/ \E n \in code.methods : Ran(attr', i, n)
    BY <1>2, <1>3, <1>4, <1>5
  <1>7. steps \in Nat
    BY DEF TypeOK
  <1> QED
    BY <1>1, <1>6, <1>7

-----------------------------------------------------------------------------
(* Type correctness.                                                       *)

AllInv == TypeOK /\ AttributesInv /\ NestInv /\ OmitInv

LEMMA TypeInit == Init => TypeOK /\ AttributesInv
  <1> SUFFICES ASSUME Init PROVE TypeOK /\ AttributesInv
    OBVIOUS
  <1>1. class \in Class /\ code = Cli[class] /\ mine \in Satellite
    BY TableAssumption DEF Init
  <1>2. Keep # Unset
    BY DEF Keep, Unset
  <1>3. attr \in [Incarnation -> Attributes]
    BY <1>2 DEF Init, Attributes, NoAttributes, Values
  <1>4. blocks \in Seq(BlockSet)
    BY DEF Init
  <1>5. TypeOK
    <2>1. revert \in [Satellite -> BOOLEAN] /\ old \in [Satellite -> Satellite]
      BY TableAssumption DEF Init
    <2>2. userOf \in {"class", "copy", Unset} /\ (userOf = "copy" => copied)
      BY DEF Init, Unset
    <2>3. {inner, copied, omitting, copyOmits, reentered, spoilt} \subseteq BOOLEAN
      BY DEF Init
    <2>4. DOMAIN issued = DOMAIN called /\ steps \in 0..MaxSteps /\ server \in Satellite
      BY TableAssumption DEF Init
    <2> QED
      BY <1>1, <1>3, <1>4, <2>1, <2>2, <2>3, <2>4 DEF TypeOK, BlockSet, Attributes
  <1>6. \A i \in Incarnation : attr[i] = NoAttributes
    BY DEF Init
  <1>7. \A f \in Fields : NoAttributes[f] = Unset
    BY DEF NoAttributes, Fields
  <1>8. NoAttributes.org # "yes"
    BY DEF NoAttributes, Unset
  <1>9. AttributesInv
    <2>1. ASSUME NEW f \in Fields, NEW i \in Incarnation
          PROVE  attr[i][f] = Unset
      BY <1>6, <1>7
    <2>2. ASSUME NEW i \in Incarnation
          PROVE  attr[i].org # "yes"
      BY <1>6, <1>8
    <2> QED
      BY <1>1, <2>1, <2>2 DEF AttributesInv
  <1> QED
    BY <1>5, <1>9

\* The state of the with statements stays within its type.
ContextTypes ==
    /\ server \in Satellite
    /\ revert \in [Satellite -> BOOLEAN] /\ old \in [Satellite -> Satellite]
    /\ blocks \in Seq(BlockSet)
    /\ {omitting, copyOmits, reentered, spoilt} \subseteq BOOLEAN

LEMMA TypeCall ==
    ASSUME TypeOK, AttributesInv, NEW i \in Incarnation, NEW m \in code.methods,
           Refuse(i, m) \/ RefuseInfo(i, m) \/ Run(i, m) \/ RunAndFetch(i, m)
    PROVE  TypeOK' /\ AttributesInv'
  <1>1. /\ UNCHANGED <<class, code, inner, mine, userOf, copied, contexts>>
        /\ steps \in Nat /\ steps < MaxSteps /\ steps' = steps + 1
        /\ attr' = attr \/ \E n \in code.methods : Ran(attr', i, n)
    BY CallEffect
  <1>2. attr' \in [Incarnation -> Attributes]
    BY <1>1 DEF Ran, TypeOK, Attributes
  <1>3. AttributesInv'
    <2>1. CASE attr' = attr
      BY <1>1, <2>1 DEF AttributesInv
    <2>2. CASE \E n \in code.methods : Ran(attr', i, n)
      <3>1. PICK n \in code.methods : Ran(attr', i, n)
        BY <2>2
      <3>2. /\ \A o \in code.methods, f \in Fields :
                 o[f] = Keep => \A j \in Incarnation : attr'[j][f] = Unset
            /\ \A j \in Incarnation : attr'[j].org = "yes" => code.org
        BY <3>1, RanKeepsInv
      <3> QED
        BY <1>1, <3>2 DEF AttributesInv
    <2> QED
      BY <1>1, <2>1, <2>2
  <1>4. DOMAIN issued' = DOMAIN called'
    <2>1. ASSUME Refuse(i, m) \/ RefuseInfo(i, m)
          PROVE  DOMAIN issued' = DOMAIN called'
      BY <2>1 DEF Refuse, RefuseInfo, Called
    <2>2. ASSUME Run(i, m)
          PROVE  DOMAIN issued' = DOMAIN called'
      <3>1. PICK w \in Ways(i) : called' = [k \in DOMAIN <<m>> |-> [method |-> <<m>>[k], through |-> w]]
        BY <2>2 DEF Run, Called
      <3> QED
        BY <2>2, <3>1 DEF Run
    <2>3. ASSUME RunAndFetch(i, m)
          PROVE  DOMAIN issued' = DOMAIN called'
      <3> DEFINE first == Command([attr EXCEPT ![i] = Assign(@, m)], i, m)
                 second == Command(attr', i, Info)
      <3>1. issued' = <<first, second>>
        BY <2>3, FetchEffect
      <3>2. PICK w \in Ways(i) :
              called' = [k \in DOMAIN <<m, Info>> |-> [method |-> <<m, Info>>[k], through |-> w]]
        BY <2>3 DEF RunAndFetch, Called
      <3> HIDE DEF first, second
      <3> QED
        BY <3>1, <3>2
    <2> QED
      BY <2>1, <2>2, <2>3
  <1>5. steps' \in 0..MaxSteps
    BY <1>1, TableAssumption
  <1>6. Attributes' = Attributes
    BY <1>1 DEF Attributes, Values
  <1>7. TypeOK'
    BY <1>1, <1>2, <1>4, <1>5, <1>6 DEF TypeOK, contexts, Attributes
  <1> QED
    BY <1>3, <1>7

LEMMA TypeOther ==
    ASSUME TypeOK, AttributesInv, MakeCopies \/ (\E i \in Incarnation : WithUser(i)) \/ Block
    PROVE  TypeOK' /\ AttributesInv'
  <1> USE DEF contexts, attributes
  <1>1. CASE MakeCopies
    <2>1. Attributes' = Attributes
      BY <1>1 DEF Attributes, Values, MakeCopies
    <2>2. TypeOK'
      BY <1>1, <2>1 DEF TypeOK, MakeCopies, Quiet, Attributes
    <2> QED
      BY <1>1, <2>2 DEF AttributesInv, MakeCopies
  <1>2. ASSUME NEW i \in Incarnation, WithUser(i)
        PROVE  TypeOK' /\ AttributesInv'
    <2>1. Attributes' = Attributes
      BY <1>2 DEF Attributes, Values, WithUser
    <2>2. NoAttributes \in Attributes
      BY DEF NoAttributes, Attributes, Values, Unset, Keep
    <2>3. i \in {"class", "copy"} /\ (i = "copy" => copied)
      BY <1>2 DEF WithUser, Usable, Incarnation
    <2>4. attr' = [attr EXCEPT !["user"] = NoAttributes] /\ attr \in [Incarnation -> Attributes]
      BY <1>2 DEF WithUser, TypeOK, Attributes
    <2>5. attr' \in [Incarnation -> Attributes]
      BY <2>2, <2>4
    <2>6. TypeOK'
      BY <1>2, <2>1, <2>3, <2>5 DEF TypeOK, WithUser, Quiet, Attributes
    <2>7. \A j \in Incarnation : attr'[j] = attr[j] \/ attr'[j] = NoAttributes
      BY <2>4
    <2>8. (\A f \in Fields : NoAttributes[f] = Unset) /\ NoAttributes.org # "yes"
      BY DEF NoAttributes, Unset, Fields
    <2>9. code' = code /\ class' = class
      BY <1>2 DEF WithUser
    <2>10. AttributesInv'
      BY <2>7, <2>8, <2>9 DEF AttributesInv
    <2> QED
      BY <2>6, <2>10
  <1>3. ASSUME UNCHANGED <<class, code, inner, mine, attributes>>, ContextTypes', Quiet, steps' \in 0..MaxSteps
        PROVE  TypeOK' /\ AttributesInv'
    <2>1. Attributes' = Attributes
      BY <1>3 DEF Attributes, Values
    <2>2. TypeOK'
      <3>1. copied' \in BOOLEAN
        BY <1>3 DEF TypeOK
      <3> QED
        BY <1>3, <2>1, <3>1 DEF TypeOK, ContextTypes, Quiet, Attributes, BlockSet
    <2> QED
      BY <1>3, <2>2 DEF AttributesInv
  <1>4. steps \in Nat /\ steps <= MaxSteps /\ MaxSteps \in Nat
    BY TableAssumption DEF TypeOK
  <1>5. ContextTypes
    BY DEF TypeOK, ContextTypes, BlockSet
  <1>6. ASSUME NEW b \in BlockSet, Open(b)
        PROVE  blocks' \in Seq(BlockSet) /\ Quiet /\ steps' = steps + 1
    BY <1>5, <1>6, AppendFacts DEF Open, ContextTypes
  <1>7. ASSUME Close, blocks # <<>>
        PROVE  blocks' \in Seq(BlockSet) /\ Quiet /\ steps' = steps
    BY <1>5, <1>7, FrontFacts DEF Close, ContextTypes
  <1>8. ASSUME NEW s \in Satellite, Enter(s)
        PROVE  TypeOK' /\ AttributesInv'
    <2>1. <<"satellite", s>> \in BlockSet
      BY DEF BlockSet
    <2>2. blocks' \in Seq(BlockSet) /\ Quiet /\ steps' = steps + 1 /\ steps < MaxSteps
      BY <1>6, <1>8, <2>1 DEF Enter
    <2>3. revert' \in [Satellite -> BOOLEAN] /\ old' \in [Satellite -> Satellite]
      BY <1>5, <1>8 DEF Enter, ContextTypes
    <2>4. reentered' \in BOOLEAN
      BY <1>8, <1>5 DEF Enter, ContextTypes
    <2>5. ContextTypes'
      BY <1>5, <1>8, <2>2, <2>3, <2>4 DEF Enter, ContextTypes
    <2> QED
      BY <1>3, <1>4, <1>8, <2>2, <2>5 DEF Enter
  <1>9. ASSUME NEW s \in Satellite, Exit(s)
        PROVE  TypeOK' /\ AttributesInv'
    <2>1. blocks' \in Seq(BlockSet) /\ Quiet /\ steps' = steps
      BY <1>7, <1>9 DEF Exit
    <2>2. Reverted(s) \in Satellite
      BY <1>5 DEF Reverted, ContextTypes
    <2>3. ContextTypes'
      BY <1>5, <1>9, <2>1, <2>2 DEF Exit, ContextTypes
    <2> QED
      BY <1>3, <1>4, <1>9, <2>1, <2>3 DEF Exit
  <1>10. ASSUME StartOmitting
         PROVE  TypeOK' /\ AttributesInv'
    <2>1. <<"omit", ~omitting>> \in BlockSet
      BY <1>5 DEF BlockSet, ContextTypes
    <2>2. blocks' \in Seq(BlockSet) /\ Quiet /\ steps' = steps + 1 /\ steps < MaxSteps
      BY <1>6, <1>10, <2>1 DEF StartOmitting
    <2>3. ContextTypes'
      BY <1>5, <1>10, <2>2 DEF StartOmitting, ContextTypes
    <2> QED
      BY <1>3, <1>4, <1>10, <2>2, <2>3 DEF StartOmitting
  <1>11. ASSUME NEW change \in BOOLEAN, StopOmitting(change) \/ BreakOmitting(change)
         PROVE  TypeOK' /\ AttributesInv'
    <2>1. blocks' \in Seq(BlockSet) /\ Quiet /\ steps' = steps
      BY <1>7, <1>11 DEF StopOmitting, BreakOmitting
    <2>2. ContextTypes'
      BY <1>5, <1>11, <2>1 DEF StopOmitting, BreakOmitting, ContextTypes, StillOmits
    <2> QED
      BY <1>3, <1>4, <1>11, <2>1, <2>2 DEF StopOmitting, BreakOmitting
  <1> QED
    BY <1>1, <1>2, <1>8, <1>9, <1>10, <1>11 DEF Block

-----------------------------------------------------------------------------
(* The default host.                                                       *)

HostOn(q, K) == IF Last(K) = {} THEN Home ELSE q[CHOOSE k \in Last(K) : TRUE][2]
EnteredOn(q) == {k \in DOMAIN q : q[k][1] = "satellite"}
Below(q, k) == {n \in EnteredOn(q) : n < k}

\* NestInv, of any with statements q.
Nested(q, host, reverts, olds) ==
    /\ host = HostOn(q, EnteredOn(q))
    /\ \A k \in EnteredOn(q) :
        IF reverts[q[k][2]] THEN olds[q[k][2]] = HostOn(q, Below(q, k))
                            ELSE HostOn(q, Below(q, k)) = q[k][2]
    /\ \A k, n \in EnteredOn(q) : q[k][2] = q[n][2] => k = n

LEMMA NestedIsNestInv == NestInv <=> (~reentered => Nested(blocks, server, revert, old))
  BY DEF NestInv, Nested, HostOn, EnteredOn, Below, Before, DefaultHost, HostIn, Entered

LEMMA NestedIsNestInvNext == NestInv' <=> (~reentered' => Nested(blocks', server', revert', old'))
  BY DEF NestInv, Nested, HostOn, EnteredOn, Below, Before, DefaultHost, HostIn, Entered

\* Which host is the innermost one depends on the blocks it is looked for in only.
LEMMA HostOnSame ==
    ASSUME NEW q, NEW r, NEW K, \A k \in K : q[k] = r[k]
    PROVE  HostOn(q, K) = HostOn(r, K)
  <1>1. CASE Last(K) = {}
    BY <1>1 DEF HostOn
  <1>2. CASE Last(K) # {}
    <2> DEFINE c == CHOOSE k \in Last(K) : TRUE
    <2>1. c \in Last(K)
      BY <1>2
    <2>2. c \in K
      BY <2>1 DEF Last
    <2> QED
      BY <1>2, <2>2 DEF HostOn
  <1> QED
    BY <1>1, <1>2

\* Entering a Satellite that is not entered yet.
LEMMA NestEnter ==
    ASSUME NEW q \in Seq(BlockSet), NEW host \in Satellite, NEW s \in Satellite,
           NEW reverts \in [Satellite -> BOOLEAN], NEW olds \in [Satellite -> Satellite],
           NEW olds2, Nested(q, host, reverts, olds),
           \A k \in DOMAIN q : q[k] # <<"satellite", s>>,
           olds2 = IF s # host THEN [olds EXCEPT ![s] = host] ELSE olds
    PROVE  Nested(Append(q, <<"satellite", s>>), s, [reverts EXCEPT ![s] = s # host], olds2)
  <1> DEFINE b == <<"satellite", s>>
             r == Append(q, b)
             n == Len(q) + 1
             reverts2 == [reverts EXCEPT ![s] = s # host]
  <1>1. b \in BlockSet
    BY DEF BlockSet
  <1>2. /\ Len(q) \in Nat /\ DOMAIN q = 1..Len(q) /\ DOMAIN r = 1..n
        /\ \A k \in 1..Len(q) : r[k] = q[k]
        /\ r[n] = b
    BY <1>1, AppendFacts
  <1>3. b[1] = "satellite" /\ b[2] = s
    OBVIOUS
  <1> HIDE DEF b, r
  <1>4. EnteredOn(r) = EnteredOn(q) \cup {n}
    BY <1>2, <1>3 DEF EnteredOn
  <1>5. \A k \in EnteredOn(q) : k \in Nat /\ k < n /\ r[k] = q[k]
    BY <1>2 DEF EnteredOn
  <1>6. n \in Nat
    BY <1>2
  <1>7. Last(EnteredOn(r)) = {n}
    BY <1>4, <1>5, <1>6 DEF Last
  <1>8. HostOn(r, EnteredOn(r)) = s
    <2>1. (CHOOSE k \in {n} : TRUE) = n
      OBVIOUS
    <2> QED
      BY <1>2, <1>3, <1>7, <2>1 DEF HostOn
  <1>9. Below(r, n) = EnteredOn(q)
    BY <1>4, <1>5, <1>6 DEF Below
  <1>10. HostOn(r, Below(r, n)) = host
    <2>1. HostOn(r, EnteredOn(q)) = HostOn(q, EnteredOn(q))
      BY <1>5, HostOnSame
    <2> QED
      BY <1>9, <2>1 DEF Nested
  <1>11. IF reverts2[s] THEN olds2[s] = host ELSE host = s
    OBVIOUS
  <1>12. ASSUME NEW k \in EnteredOn(q)
         PROVE  q[k][2] # s /\ HostOn(r, Below(r, k)) = HostOn(q, Below(q, k))
    <2>1. q[k][2] # s
      <3>1. k \in DOMAIN q /\ q[k][1] = "satellite" /\ q[k] \in BlockSet
        BY <1>2 DEF EnteredOn
      <3> QED
        BY <3>1 DEF BlockSet
    <2>2. Below(r, k) = Below(q, k)
      BY <1>4, <1>5, <1>6 DEF Below
    <2>3. \A j \in Below(q, k) : r[j] = q[j]
      BY <1>5 DEF Below
    <2>4. HostOn(r, Below(q, k)) = HostOn(q, Below(q, k))
      BY <2>3, HostOnSame
    <2> QED
      BY <2>1, <2>2, <2>4
  <1>13. \A t : t # s => reverts2[t] = reverts[t] /\ olds2[t] = olds[t]
    OBVIOUS
  <1>14. ASSUME NEW k \in EnteredOn(r)
         PROVE  IF reverts2[r[k][2]] THEN olds2[r[k][2]] = HostOn(r, Below(r, k))
                                     ELSE HostOn(r, Below(r, k)) = r[k][2]
    <2>1. CASE k = n
      BY <1>2, <1>3, <1>10, <1>11, <2>1
    <2>2. CASE k \in EnteredOn(q)
      <3>1. IF reverts[q[k][2]] THEN olds[q[k][2]] = HostOn(q, Below(q, k))
                                ELSE HostOn(q, Below(q, k)) = q[k][2]
        BY <2>2 DEF Nested
      <3> QED
        BY <1>5, <1>12, <1>13, <2>2, <3>1
    <2> QED
      BY <1>4, <2>1, <2>2
  <1>15. ASSUME NEW k \in EnteredOn(r), NEW j \in EnteredOn(r), r[k][2] = r[j][2]
         PROVE  k = j
    BY <1>2, <1>3, <1>4, <1>5, <1>12, <1>15 DEF Nested
  <1> QED
    BY <1>8, <1>14, <1>15 DEF Nested, b, r

\* Leaving the innermost statement, if it is a Satellite's.
LEMMA NestExit ==
    ASSUME NEW q \in Seq(BlockSet), q # <<>>, NEW host, NEW s, q[Len(q)] = <<"satellite", s>>,
           NEW reverts, NEW olds, Nested(q, host, reverts, olds)
    PROVE  Nested(SubSeq(q, 1, Len(q) - 1), IF reverts[s] THEN olds[s] ELSE host, reverts, olds)
  <1> DEFINE n == Len(q)
             r == SubSeq(q, 1, n - 1)
  <1>1. /\ n \in Nat /\ n >= 1 /\ DOMAIN q = 1..n /\ DOMAIN r = 1..(n - 1)
        /\ \A k \in 1..(n - 1) : r[k] = q[k]
    BY FrontFacts
  <1> HIDE DEF r
  <1>2. q[n][1] = "satellite" /\ q[n][2] = s
    OBVIOUS
  <1>3. n \in EnteredOn(q)
    BY <1>1, <1>2 DEF EnteredOn
  <1>4. EnteredOn(r) = Below(q, n) /\ \A k \in EnteredOn(r) : r[k] = q[k] /\ k \in EnteredOn(q)
    BY <1>1 DEF EnteredOn, Below
  <1>5. HostOn(r, EnteredOn(r)) = HostOn(q, Below(q, n))
    BY <1>4, HostOnSame
  <1>6. \A k \in EnteredOn(q) : k \in Nat /\ k <= n
    BY <1>1 DEF EnteredOn
  <1>7. Last(EnteredOn(q)) = {n}
    BY <1>1, <1>3, <1>6 DEF Last
  <1>8. host = s
    <2>1. (CHOOSE k \in {n} : TRUE) = n
      OBVIOUS
    <2>2. HostOn(q, EnteredOn(q)) = q[n][2]
      BY <1>7, <2>1 DEF HostOn
    <2> QED
      BY <1>2, <2>2 DEF Nested
  <1>9. HostOn(r, EnteredOn(r)) = IF reverts[s] THEN olds[s] ELSE host
    BY <1>2, <1>3, <1>5, <1>8 DEF Nested
  <1>10. ASSUME NEW k \in EnteredOn(r)
         PROVE  HostOn(r, Below(r, k)) = HostOn(q, Below(q, k))
    <2>1. Below(r, k) = Below(q, k)
      <3>1. Below(q, n) = {j \in EnteredOn(q) : j < n}
        BY DEF Below
      <3>2. k \in Nat /\ k < n
        BY <1>4, <1>6, <3>1
      <3>3. EnteredOn(r) = {j \in EnteredOn(q) : j < n}
        BY <1>4, <3>1
      <3>4. \A j \in EnteredOn(q) : j < k => j < n
        BY <1>1, <1>6, <3>2
      <3> QED
        BY <3>3, <3>4 DEF Below
    <2>2. \A j \in Below(r, k) : r[j] = q[j]
      BY <1>4 DEF Below
    <2> QED
      BY <2>1, <2>2, HostOnSame
  <1>11. ASSUME NEW k \in EnteredOn(r)
         PROVE  IF reverts[r[k][2]] THEN olds[r[k][2]] = HostOn(r, Below(r, k))
                                    ELSE HostOn(r, Below(r, k)) = r[k][2]
    BY <1>4, <1>10 DEF Nested
  <1>12. ASSUME NEW k \in EnteredOn(r), NEW j \in EnteredOn(r), r[k][2] = r[j][2]
         PROVE  k = j
    BY <1>4, <1>12 DEF Nested
  <1> QED
    BY <1>9, <1>11, <1>12 DEF Nested, r

\* Statements that are no Satellite's make no difference.
LEMMA NestSame ==
    ASSUME NEW q, NEW r, NEW host, NEW reverts, NEW olds, Nested(q, host, reverts, olds),
           EnteredOn(r) = EnteredOn(q), \A k \in EnteredOn(q) : r[k] = q[k]
    PROVE  Nested(r, host, reverts, olds)
  <1>1. HostOn(r, EnteredOn(r)) = HostOn(q, EnteredOn(q))
    BY HostOnSame
  <1>2. ASSUME NEW k \in EnteredOn(q)
        PROVE  HostOn(r, Below(r, k)) = HostOn(q, Below(q, k))
    <2>1. Below(r, k) = Below(q, k) /\ \A j \in Below(r, k) : r[j] = q[j]
      BY DEF Below
    <2> QED
      BY <2>1, HostOnSame
  <1>3. ASSUME NEW k \in EnteredOn(r)
        PROVE  IF reverts[r[k][2]] THEN olds[r[k][2]] = HostOn(r, Below(r, k))
                                   ELSE HostOn(r, Below(r, k)) = r[k][2]
    BY <1>2 DEF Nested
  <1>4. ASSUME NEW k \in EnteredOn(r), NEW j \in EnteredOn(r), r[k][2] = r[j][2]
        PROVE  k = j
    BY <1>4 DEF Nested
  <1> QED
    BY <1>1, <1>3, <1>4 DEF Nested

LEMMA NestStep ==
    ASSUME TypeOK, AttributesInv, NestInv, Block
    PROVE  NestInv'
  <1>1. /\ blocks \in Seq(BlockSet) /\ server \in Satellite
        /\ revert \in [Satellite -> BOOLEAN] /\ old \in [Satellite -> Satellite]
    BY DEF TypeOK, BlockSet
  <1> SUFFICES ASSUME ~reentered'
               PROVE  Nested(blocks', server', revert', old')
    BY NestedIsNestInvNext
  <1>2. ~reentered
    BY DEF Block, Enter, Exit, StartOmitting, StopOmitting, BreakOmitting
  <1>3. Nested(blocks, server, revert, old)
    BY <1>2, NestedIsNestInv
  <1>4. ASSUME NEW s \in Satellite, Enter(s)
        PROVE  Nested(blocks', server', revert', old')
    <2>1. \A k \in DOMAIN blocks : blocks[k] # <<"satellite", s>>
      BY <1>4 DEF Enter
    <2>2. /\ blocks' = Append(blocks, <<"satellite", s>>) /\ server' = s
          /\ revert' = [revert EXCEPT ![s] = s # server]
          /\ old' = IF s # server THEN [old EXCEPT ![s] = server] ELSE old
      BY <1>4 DEF Enter, Open
    <2> DEFINE olds == IF s # server THEN [old EXCEPT ![s] = server] ELSE old
    <2>3. Nested(Append(blocks, <<"satellite", s>>), s, [revert EXCEPT ![s] = s # server], olds)
      BY <1>1, <1>3, <2>1, NestEnter, ZenonT(30)
    <2> QED
      BY <2>2, <2>3
  <1>5. ASSUME NEW s \in Satellite, Exit(s)
        PROVE  Nested(blocks', server', revert', old')
    <2>1. /\ blocks # <<>> /\ blocks[Len(blocks)] = <<"satellite", s>>
          /\ blocks' = SubSeq(blocks, 1, Len(blocks) - 1)
          /\ server' = IF revert[s] THEN old[s] ELSE server
          /\ revert' = revert /\ old' = old
      BY <1>5 DEF Exit, Close, Reverted
    <2> QED
      BY <1>1, <1>3, <2>1, NestExit
  <1>6. ASSUME NEW change \in BOOLEAN, blocks' = Append(blocks, <<"omit", change>>),
               UNCHANGED <<server, revert, old>>
        PROVE  Nested(blocks', server', revert', old')
    <2>1. <<"omit", change>> \in BlockSet
      BY DEF BlockSet
    <2>2. EnteredOn(blocks') = EnteredOn(blocks) /\ \A k \in EnteredOn(blocks) : blocks'[k] = blocks[k]
      BY <1>1, <1>6, <2>1, AppendFacts DEF EnteredOn
    <2> QED
      BY <1>3, <1>6, <2>2, NestSame
  <1>7. ASSUME NEW change \in BOOLEAN, blocks # <<>>, blocks[Len(blocks)] = <<"omit", change>>,
               blocks' = SubSeq(blocks, 1, Len(blocks) - 1), UNCHANGED <<server, revert, old>>
        PROVE  Nested(blocks', server', revert', old')
    <2>1. EnteredOn(blocks') = EnteredOn(blocks) /\ \A k \in EnteredOn(blocks) : blocks'[k] = blocks[k]
      BY <1>1, <1>7, FrontFacts DEF EnteredOn
    <2> QED
      BY <1>3, <1>7, <2>1, NestSame
  <1>8. ASSUME StartOmitting
        PROVE  Nested(blocks', server', revert', old')
    <2>1. (~omitting) \in BOOLEAN
      OBVIOUS
    <2> QED
      BY <1>6, <1>8, <2>1 DEF StartOmitting, Open
  <1>9. ASSUME NEW change \in BOOLEAN, StopOmitting(change) \/ BreakOmitting(change)
        PROVE  Nested(blocks', server', revert', old')
    BY <1>7, <1>9 DEF StopOmitting, BreakOmitting, Close
  <1> QED
    BY <1>4, <1>5, <1>8, <1>9 DEF Block

-----------------------------------------------------------------------------
(* Credentials.                                                            *)

\* The credentials are omitted inside of the statements, and the outermost one switches back.
OmitsOn(q, om) ==
    /\ om <=> \E k \in DOMAIN q : q[k][1] = "omit"
    /\ \A k \in DOMAIN q :
        q[k][1] = "omit" => (q[k][2] <=> ~\E n \in DOMAIN q : n < k /\ q[n][1] = "omit")

LEMMA OmitStep ==
    ASSUME TypeOK, AttributesInv, OmitInv, Block
    PROVE  OmitInv'
  <1>1. blocks \in Seq(BlockSet) /\ omitting \in BOOLEAN /\ copyOmits \in BOOLEAN
        /\ copied \in BOOLEAN /\ spoilt \in BOOLEAN
    BY DEF TypeOK, BlockSet
  <1>2. ASSUME NEW b \in BlockSet, blocks' = Append(blocks, b)
        PROVE  /\ DOMAIN blocks = 1..Len(blocks) /\ Len(blocks) \in Nat
               /\ DOMAIN blocks' = 1..(Len(blocks) + 1) /\ blocks'[Len(blocks) + 1] = b
               /\ \A k \in DOMAIN blocks : blocks'[k] = blocks[k]
    BY <1>1, <1>2, AppendFacts
  <1>3. ASSUME blocks # <<>>, blocks' = SubSeq(blocks, 1, Len(blocks) - 1)
        PROVE  /\ DOMAIN blocks = 1..Len(blocks) /\ Len(blocks) \in Nat /\ Len(blocks) >= 1
               /\ DOMAIN blocks' = 1..(Len(blocks) - 1)
               /\ \A k \in DOMAIN blocks' : blocks'[k] = blocks[k]
    BY <1>1, <1>3, FrontFacts
  <1>4. OmitInv' <=> /\ copyOmits' <=> copied' /\ omitting'
                     /\ ~spoilt' => OmitsOn(blocks', omitting')
    BY DEF OmitInv, Omits, OmitsOn
  <1>5. /\ copyOmits <=> copied /\ omitting
        /\ ~spoilt => OmitsOn(blocks, omitting)
    BY DEF OmitInv, Omits, OmitsOn
  <1>6. ASSUME NEW s \in Satellite, Enter(s)
        PROVE  OmitInv'
    <2>1. <<"satellite", s>> \in BlockSet /\ <<"satellite", s>>[1] # "omit"
      BY DEF BlockSet
    <2>2. blocks' = Append(blocks, <<"satellite", s>>)
          /\ UNCHANGED <<omitting, copyOmits, copied, spoilt>>
      BY <1>6 DEF Enter, Open, attributes
    <2>3. OmitsOn(blocks, omitting) => OmitsOn(blocks', omitting)
      BY <1>2, <2>1, <2>2, SMTT(30) DEF OmitsOn
    <2> QED
      BY <1>4, <1>5, <2>2, <2>3
  <1>7. ASSUME NEW s \in Satellite, Exit(s)
        PROVE  OmitInv'
    <2>1. blocks # <<>> /\ blocks[Len(blocks)] = <<"satellite", s>>
          /\ blocks' = SubSeq(blocks, 1, Len(blocks) - 1)
          /\ UNCHANGED <<omitting, copyOmits, copied, spoilt>>
      BY <1>7 DEF Exit, Close, attributes
    <2>2. blocks[Len(blocks)][1] # "omit"
      BY <2>1
    <2>3. ASSUME OmitsOn(blocks, omitting)
          PROVE  OmitsOn(blocks', omitting)
      <3>1. \A k \in DOMAIN blocks' : k \in DOMAIN blocks /\ blocks'[k] = blocks[k]
        BY <1>3, <2>1
      <3>2. \A k \in DOMAIN blocks : blocks[k][1] = "omit" => k \in DOMAIN blocks'
        BY <1>3, <2>1, <2>2
      <3>3. omitting <=> \E k \in DOMAIN blocks' : blocks'[k][1] = "omit"
        BY <2>3, <3>1, <3>2 DEF OmitsOn
      <3>4. ASSUME NEW k \in DOMAIN blocks', blocks'[k][1] = "omit"
            PROVE  blocks'[k][2] <=> ~\E n \in DOMAIN blocks' : n < k /\ blocks'[n][1] = "omit"
        BY <2>3, <3>1, <3>2, <3>4 DEF OmitsOn
      <3> QED
        BY <3>3, <3>4 DEF OmitsOn
    <2> QED
      BY <1>4, <1>5, <2>1, <2>3
  <1>8. ASSUME StartOmitting
        PROVE  OmitInv'
    <2> DEFINE b == <<"omit", ~omitting>>
    <2>1. b \in BlockSet /\ b[1] = "omit" /\ (b[2] <=> ~omitting)
      BY <1>1 DEF BlockSet
    <2> HIDE DEF b
    <2>2. blocks' = Append(blocks, b) /\ omitting' = TRUE /\ UNCHANGED <<copied, spoilt>>
          /\ copyOmits' = (copyOmits \/ (copied /\ ~omitting))
      BY <1>8 DEF StartOmitting, Open, attributes, b
    <2>3. copyOmits' <=> copied' /\ omitting'
      BY <1>1, <1>5, <2>2
    <2>4. ASSUME OmitsOn(blocks, omitting)
          PROVE  OmitsOn(blocks', TRUE)
      <3> DEFINE n == Len(blocks) + 1
      <3>1. /\ DOMAIN blocks = 1..Len(blocks) /\ Len(blocks) \in Nat /\ DOMAIN blocks' = 1..n
            /\ blocks'[n] = b /\ \A k \in DOMAIN blocks : blocks'[k] = blocks[k] /\ k < n
        BY <1>2, <2>1, <2>2
      <3>2. n \in DOMAIN blocks' /\ \A k \in DOMAIN blocks' : k = n \/ k \in DOMAIN blocks
        BY <3>1
      <3>3. \A k \in DOMAIN blocks : k \in DOMAIN blocks' /\ ~(n < k)
        BY <3>1
      <3> HIDE DEF n
      <3>4. b[2] <=> ~\E k \in DOMAIN blocks' : k < n /\ blocks'[k][1] = "omit"
        <4>1. ~(n < n)
          BY <3>1 DEF n
        <4> QED
          BY <2>1, <2>4, <3>1, <3>2, <3>3, <4>1 DEF OmitsOn
      <3>5. ASSUME NEW k \in DOMAIN blocks, blocks'[k][1] = "omit"
            PROVE  blocks'[k][2] <=> ~\E j \in DOMAIN blocks' : j < k /\ blocks'[j][1] = "omit"
        BY <2>4, <3>1, <3>2, <3>3, <3>5 DEF OmitsOn
      <3> QED
        BY <2>1, <3>1, <3>2, <3>4, <3>5 DEF OmitsOn
    <2> QED
      BY <1>4, <1>5, <2>2, <2>3, <2>4
  <1>9. ASSUME NEW change \in BOOLEAN, blocks # <<>>, blocks[Len(blocks)] = <<"omit", change>>,
               blocks' = SubSeq(blocks, 1, Len(blocks) - 1), OmitsOn(blocks, omitting)
        PROVE  OmitsOn(blocks', omitting /\ ~change)
    <2>1. blocks[Len(blocks)][1] = "omit" /\ blocks[Len(blocks)][2] = change
      BY <1>9
    <2>2. omitting /\ (change <=> ~\E n \in DOMAIN blocks : n < Len(blocks) /\ blocks[n][1] = "omit")
      BY <1>3, <1>9, <2>1 DEF OmitsOn
    <2>3. \A n : n \in DOMAIN blocks' <=> n \in DOMAIN blocks /\ n < Len(blocks)
      BY <1>3, <1>9
    <2>4. (omitting /\ ~change) <=> \E k \in DOMAIN blocks' : blocks'[k][1] = "omit"
      BY <1>3, <1>9, <2>2, <2>3
    <2>5. ASSUME NEW k \in DOMAIN blocks', blocks'[k][1] = "omit"
          PROVE  blocks'[k][2] <=> ~\E n \in DOMAIN blocks' : n < k /\ blocks'[n][1] = "omit"
      <3>1. k \in DOMAIN blocks /\ k < Len(blocks) /\ blocks'[k] = blocks[k]
        BY <1>3, <1>9, <2>3, <2>5
      <3>2. blocks[k][2] <=> ~\E n \in DOMAIN blocks : n < k /\ blocks[n][1] = "omit"
        BY <1>9, <2>5, <3>1 DEF OmitsOn
      <3>3. \A n \in DOMAIN blocks : n < k => n \in DOMAIN blocks' /\ blocks'[n] = blocks[n]
        BY <1>3, <1>9, <3>1
      <3>4. \A n \in DOMAIN blocks' : n \in DOMAIN blocks /\ blocks'[n] = blocks[n]
        BY <1>3, <1>9
      <3> QED
        BY <3>1, <3>2, <3>3, <3>4
    <2> QED
      BY <2>4, <2>5 DEF OmitsOn
  <1>10. ASSUME NEW change \in BOOLEAN, StopOmitting(change)
         PROVE  OmitInv'
    <2>1. /\ blocks # <<>> /\ blocks[Len(blocks)] = <<"omit", change>>
          /\ blocks' = SubSeq(blocks, 1, Len(blocks) - 1)
          /\ omitting' = (omitting /\ ~change) /\ copyOmits' = (copyOmits /\ (~change \/ ~copied))
          /\ UNCHANGED <<copied, spoilt>>
      BY <1>10 DEF StopOmitting, Close, StillOmits, attributes
    <2>2. copyOmits' <=> copied' /\ omitting'
      BY <1>1, <1>5, <2>1
    <2>3. OmitsOn(blocks, omitting) => OmitsOn(blocks', omitting')
      BY <1>9, <2>1
    <2> QED
      BY <1>4, <1>5, <2>1, <2>2, <2>3
  <1>11. ASSUME NEW change \in BOOLEAN, BreakOmitting(change)
         PROVE  OmitInv'
    <2>1. /\ blocks # <<>> /\ blocks[Len(blocks)] = <<"omit", change>>
          /\ blocks' = SubSeq(blocks, 1, Len(blocks) - 1)
          /\ spoilt' = (spoilt \/ change) /\ UNCHANGED <<copied, omitting, copyOmits>>
      BY <1>11 DEF BreakOmitting, Close, attributes
    <2>2. OmitsOn(blocks, omitting) => OmitsOn(blocks', omitting /\ ~change)
      BY <1>9, <2>1
    <2>3. ~spoilt' => ~spoilt /\ ~change
      BY <2>1
    <2>4. ~change => ((omitting /\ ~change) = omitting)
      BY <1>1
    <2> QED
      BY <1>4, <1>5, <2>1, <2>2, <2>3, <2>4
  <1> QED
    BY <1>6, <1>7, <1>8, <1>10, <1>11 DEF Block

-----------------------------------------------------------------------------
(* The invariant, and what follows from it.                                *)

LEMMA InvStep == AllInv /\ [Next]_vars => AllInv'
  <1> SUFFICES ASSUME AllInv, [Next]_vars
               PROVE  AllInv'
    OBVIOUS
  <1> USE DEF AllInv
  <1>1. CASE UNCHANGED vars
    <2>1. TypeOK'
      BY <1>1 DEF vars, attributes, contexts, TypeOK, Values
    <2>2. AttributesInv'
      BY <1>1 DEF vars, attributes, contexts, AttributesInv
    <2>3. NestInv' /\ OmitInv'
      BY <1>1, NestedIsNestInv, NestedIsNestInvNext
         DEF vars, attributes, contexts, OmitInv, Omits
    <2> QED
      BY <2>1, <2>2, <2>3
  <1>2. ASSUME UNCHANGED contexts, UNCHANGED copied \/ MakeCopies
        PROVE  NestInv' /\ OmitInv'
    <2>1. NestInv'
      BY <1>2, NestedIsNestInv, NestedIsNestInvNext DEF contexts
    <2>2. copyOmits' <=> copied' /\ omitting'
      BY <1>2 DEF contexts, MakeCopies, OmitInv, TypeOK
    <2> QED
      BY <1>2, <2>1, <2>2 DEF contexts, OmitInv, Omits
  <1>3. CASE Call
    <2>1. PICK i \in Incarnation, m \in code.methods :
            Refuse(i, m) \/ RefuseInfo(i, m) \/ Run(i, m) \/ RunAndFetch(i, m)
      BY <1>3 DEF Call
    <2> QED
      BY <1>2, <2>1, TypeCall, CallEffect
  <1>4. CASE MakeCopies
    <2>1. NestInv'
      BY <1>4, NestedIsNestInv, NestedIsNestInvNext DEF MakeCopies
    <2>2. OmitInv'
      BY <1>4 DEF MakeCopies, OmitInv, Omits, TypeOK
    <2> QED
      BY <1>4, <2>1, <2>2, TypeOther
  <1>5. CASE \E i \in Incarnation : WithUser(i)
    <2>1. UNCHANGED contexts /\ UNCHANGED copied
      BY <1>5 DEF WithUser
    <2> QED
      BY <1>2, <1>5, <2>1, TypeOther
  <1>6. CASE Block
    BY <1>6, TypeOther, NestStep, OmitStep
  <1> QED
    BY <1>1, <1>3, <1>4, <1>5, <1>6 DEF Next

LEMMA InvInit == Init => AllInv
  <1> SUFFICES ASSUME Init PROVE AllInv
    OBVIOUS
  <1>1. NestInv
    <2>1. EnteredOn(blocks) = {} /\ Last({}) = {}
      BY DEF Init, EnteredOn, Last
    <2> QED
      BY <2>1, NestedIsNestInv DEF Init, Nested, HostOn
  <1>2. OmitInv
    BY DEF Init, OmitInv
  <1> QED
    BY <1>1, <1>2, TypeInit DEF AllInv

\* Type correctness, for any classes that satisfy TableAssumption.
THEOREM TypeCorrect == Spec => []TypeOK
  BY InvInit, InvStep, PTL DEF Spec, AllInv

\* The inductive invariant: attributes that no method leaves alone, and with statements
\* that know what was there outside of them.
THEOREM CommandInvariance == Spec => []AllInv
  BY InvInit, InvStep, PTL DEF Spec

\* The default host is that of the innermost Satellite entered.
THEOREM StatementsUnwind == Spec => []ContextsUnwind
  <1>1. AllInv => ContextsUnwind
    BY DEF AllInv, NestInv, ContextsUnwind
  <1> QED
    BY <1>1, CommandInvariance, PTL

\* Between calls, a class requires an organization-id if and only if it says so.
THEOREM OrgStaysDeclared == Spec => []OrgIsDeclared
  <1>1. AllInv => OrgIsDeclared
    <2> SUFFICES ASSUME AllInv, NEW i \in Incarnation, Usable(i)
                 PROVE  Value(attr, i, "org") = Declared.org
      BY DEF OrgIsDeclared
    <2>1. \A j \in Incarnation : attr[j].org \in {"yes", Unset} /\ (attr[j].org = "yes" => code.org)
      BY DEF AllInv, TypeOK, AttributesInv
    <2>2. Declared.org = IF code.org THEN "yes" ELSE "no"
      BY DEF Declared, Flag
    <2>3. \A j \in Incarnation : Else(attr[j]["org"], Declared["org"]) = Declared.org
      BY <2>1, <2>2 DEF Else
    <2>4. FromClass(attr, "org") = Declared.org /\ FromCopy(attr, "org") = Declared.org
      BY <2>3 DEF FromClass, FromCopy, Incarnation
    <2> QED
      BY <2>3, <2>4 DEF Value, Incarnation
  <1> QED
    BY <1>1, CommandInvariance, PTL

-----------------------------------------------------------------------------
(* Command lines.                                                          *)

\* A command line of a call: of the method m with the attributes b, in which it has run.
IsCommand(c, b, i, m) == Ran(b, i, m) /\ c = Command(b, i, m)

\* A nested class is reached as one that is no copy, and as nobody in particular.
LEMMA WaysAlike ==
    ASSUME NEW i \in Incarnation, NEW w \in Ways(i)
    PROVE  (OfCopy(w) <=> OfCopy(i)) /\ (w = "user" <=> i = "user")
  BY DEF Ways, OfCopy, Incarnation

LEMMA CommandsOfCall ==
    ASSUME AllInv, NEW i \in Incarnation, NEW m \in code.methods,
           Refuse(i, m) \/ RefuseInfo(i, m) \/ Run(i, m) \/ RunAndFetch(i, m),
           NEW k \in DOMAIN issued'
    PROVE  /\ called'[k].through \in Ways(i) /\ called'[k].method \in code.methods
           /\ \E b : IsCommand(issued'[k], b, i, called'[k].method)
  <1> USE DEF AllInv
  <1>1. CASE Refuse(i, m) \/ RefuseInfo(i, m)
    <2>1. issued' = <<>>
      BY <1>1 DEF Refuse, RefuseInfo
    <2> QED
      BY <2>1
  <1>2. CASE Run(i, m)
    <2>0. PICK w \in Ways(i) : called' = [n \in DOMAIN <<m>> |-> [method |-> <<m>>[n], through |-> w]]
      BY <1>2 DEF Run, Called
    <2>1. k = 1 /\ called'[1] = [method |-> m, through |-> w] /\ issued'[1] = Command(attr', i, m)
      BY <1>2, <2>0 DEF Run
    <2>2. Ran(attr', i, m)
      <3>1. PICK raised \in BOOLEAN : attr' = Left(i, m, raised)
        BY <1>2 DEF Run
      <3> QED
        BY <3>1, LeftRan
    <2> QED
      BY <2>1, <2>2 DEF IsCommand
  <1>3. CASE RunAndFetch(i, m)
    <2> DEFINE created == [attr EXCEPT ![i] = Assign(@, m)]
    <2>1. Info \in code.methods /\ Ran(attr', i, Info) /\ Ran(created, i, m)
          /\ issued' = <<Command(created, i, m), Command(attr', i, Info)>>
      BY <1>3, FetchEffect, LeftRan
    <2>2. PICK w \in Ways(i) :
            called' = [n \in DOMAIN <<m, Info>> |-> [method |-> <<m, Info>>[n], through |-> w]]
      BY <1>3 DEF RunAndFetch, Called
    <2> HIDE DEF created
    <2>3. k = 1 \/ k = 2
      BY <2>1
    <2>4. called'[1] = [method |-> m, through |-> w] /\ called'[2] = [method |-> Info, through |-> w]
      BY <2>2
    <2>5. issued'[1] = Command(created, i, m) /\ issued'[2] = Command(attr', i, Info)
      BY <2>1
    <2>6. CASE k = 1
      BY <2>1, <2>4, <2>5, <2>6 DEF IsCommand
    <2>7. CASE k = 2
      BY <2>1, <2>4, <2>5, <2>7 DEF IsCommand
    <2> QED
      BY <2>3, <2>6, <2>7
  <1> QED
    BY <1>1, <1>2, <1>3

CommandsInv == CallsAreAsWritten /\ CommandsGoWhereMeant /\ CredentialsAsAsked

LEMMA CommandsInit == Init => CommandsInv
  BY DEF Init, CommandsInv, CallsAreAsWritten, CommandsGoWhereMeant, CredentialsAsAsked

LEMMA CommandsCall ==
    ASSUME AllInv, NEW i \in Incarnation, NEW m \in code.methods,
           Refuse(i, m) \/ RefuseInfo(i, m) \/ Run(i, m) \/ RunAndFetch(i, m)
    PROVE  CommandsInv'
  <1>1. UNCHANGED <<class, code, inner, mine, userOf, copied, contexts>>
    BY CallEffect DEF AllInv
  <1>2. ASSUME NEW k \in DOMAIN issued'
        PROVE  /\ \A f \in Fields : issued'[k][f] = Written(called'[k].method, f)
               /\ issued'[k].host = HostOf(i) /\ called'[k].through \in Ways(i)
               /\ issued'[k].user = IF issued'[k].via = "hammer" THEN UserOf(i) ELSE "ssh"
    <2> DEFINE n == called'[k].method
    <2>1. n \in code.methods /\ called'[k].through \in Ways(i) /\ \E b : IsCommand(issued'[k], b, i, n)
      BY CommandsOfCall
    <2>2. PICK b : Ran(b, i, n) /\ issued'[k] = Command(b, i, n)
      BY <2>1 DEF IsCommand
    <2> HIDE DEF n
    <2>3. \A f \in Fields : Value(b, i, f) = Written(n, f)
      BY <2>1, <2>2, ValueIsWritten DEF AllInv
    <2>4. /\ issued'[k].sub = Value(b, i, "sub") /\ issued'[k].base = Value(b, i, "base")
          /\ issued'[k].end = Value(b, i, "end") /\ issued'[k].host = HostOf(i)
          /\ issued'[k].user = IF issued'[k].via = "hammer" THEN UserOf(i) ELSE "ssh"
      BY <2>2 DEF Command
    <2>5. \A f \in Fields : issued'[k][f] = Written(n, f)
      BY <2>3, <2>4 DEF Fields
    <2> QED
      BY <2>1, <2>4, <2>5 DEF n
  <1>3. CallsAreAsWritten'
    <2>1. \A n, f : Written(n, f)' = Written(n, f)
      BY <1>1 DEF Written, Declared
    <2> SUFFICES ASSUME NEW k \in DOMAIN issued', NEW f \in {"sub", "base", "end"}
                 PROVE  issued'[k][f] = Written(called[k].method, f)'
      BY DEF CallsAreAsWritten
    <2>2. issued'[k][f] = Written(called'[k].method, f)
      BY <1>2 DEF Fields
    <2> QED
      BY <1>1, <2>2 DEF Written, Declared
  <1>4. \A w : OfCopy(w)' <=> OfCopy(w)
    BY <1>1 DEF OfCopy
  <1>8. ASSUME NEW k \in DOMAIN issued'
        PROVE  /\ OfCopy(called[k].through)' <=> OfCopy(i)
               /\ called'[k].through = "user" <=> i = "user"
    <2> DEFINE w == called'[k].through
    <2>1. (OfCopy(w) <=> OfCopy(i)) /\ (w = "user" <=> i = "user")
      BY <1>2, WaysAlike
    <2> QED
      BY <1>4, <2>1 DEF OfCopy
  <1>5. (DefaultHost' = DefaultHost) /\ server' = server /\ mine' = mine
    BY <1>1 DEF DefaultHost, HostIn, Entered, contexts
  <1>6. CommandsGoWhereMeant'
    <2> SUFFICES ASSUME NEW k \in DOMAIN issued'
                 PROVE  IF OfCopy(i) THEN issued'[k].host = mine'
                        ELSE reentered' \/ issued'[k].host = DefaultHost'
      BY <1>8 DEF CommandsGoWhereMeant
    <2>1. issued'[k].host = IF OfCopy(i) THEN mine ELSE server
      BY <1>2 DEF HostOf
    <2>2. reentered \/ server = DefaultHost
      BY DEF AllInv, NestInv
    <2> QED
      BY <1>1, <1>5, <2>1, <2>2 DEF contexts
  <1>7. CredentialsAsAsked'
    <2> SUFFICES ASSUME ~spoilt', NEW k \in DOMAIN issued'
                 PROVE  issued'[k].user =
                          CASE issued'[k].via # "hammer" -> "ssh"
                            [] issued'[k].via = "hammer" /\ (\E n \in DOMAIN blocks' : blocks'[n][1] = "omit") /\ OfCopy(i) -> "none"
                            [] issued'[k].via = "hammer" /\ ~((\E n \in DOMAIN blocks' : blocks'[n][1] = "omit") /\ OfCopy(i)) ->
                                   IF i = "user" THEN "user" ELSE "admin"
      BY <1>8 DEF CredentialsAsAsked
    <2> DEFINE omit == \E n \in DOMAIN blocks : blocks[n][1] = "omit"
    <2>1. OfCopy(i) => (copyOmits <=> omit)
      <3>1. OfCopy(i) /\ Usable(i) => copied
        BY DEF OfCopy, Usable, AllInv, TypeOK
      <3>2. Usable(i) \/ issued' = <<>>
        BY DEF Refuse, RefuseInfo, Run, RunAndFetch, Method
      <3>3. Usable(i)
        BY <3>2
      <3>4. ~spoilt
        BY <1>1 DEF contexts
      <3> QED
        BY <3>1, <3>3, <3>4 DEF AllInv, OmitInv, Omits
    <2>2. blocks' = blocks
      BY <1>1 DEF contexts
    <2>3. issued'[k].user = IF issued'[k].via = "hammer" THEN UserOf(i) ELSE "ssh"
      BY <1>2
    <2> HIDE DEF omit
    <2>4. UserOf(i) = IF OfCopy(i) /\ omit THEN "none" ELSE IF i = "user" THEN "user" ELSE "admin"
      <3>1. OfCopy(i) /\ copyOmits <=> OfCopy(i) /\ omit
        BY <2>1, Zenon
      <3>2. CASE OfCopy(i) /\ copyOmits
        <4>1. UserOf(i) = "none"
          BY <3>2, Zenon DEF UserOf
        <4> QED
          BY <4>1, <3>1, <3>2, Zenon
      <3>3. CASE ~(OfCopy(i) /\ copyOmits)
        <4>1. UserOf(i) = IF i = "user" THEN "user" ELSE "admin"
          BY <3>3, Zenon DEF UserOf
        <4> QED
          BY <4>1, <3>1, <3>3, Zenon
      <3> QED
        BY <3>2, <3>3, Zenon
    <2> QED
      BY <2>2, <2>3, <2>4 DEF omit
  <1> QED
    BY <1>3, <1>6, <1>7 DEF CommandsInv

LEMMA CommandsStep == AllInv /\ CommandsInv /\ [Next]_vars => CommandsInv'
  <1> SUFFICES ASSUME AllInv, CommandsInv, [Next]_vars
               PROVE  CommandsInv'
    OBVIOUS
  <1>1. ASSUME Quiet
        PROVE  CommandsInv'
    BY <1>1 DEF Quiet, CommandsInv, CallsAreAsWritten, CommandsGoWhereMeant, CredentialsAsAsked
  <1>2. CASE UNCHANGED vars
    BY <1>2, ZenonT(30) DEF vars, attributes, contexts, CommandsInv, CallsAreAsWritten, CommandsGoWhereMeant,
                CredentialsAsAsked, Written, Declared, OfCopy, DefaultHost, HostIn, Entered
  <1>3. CASE Call
    <2>1. PICK i \in Incarnation, m \in code.methods :
            Refuse(i, m) \/ RefuseInfo(i, m) \/ Run(i, m) \/ RunAndFetch(i, m)
      BY <1>3 DEF Call
    <2> QED
      BY <2>1, CommandsCall
  <1>4. MakeCopies \/ (\E i \in Incarnation : WithUser(i)) \/ Block => Quiet
    BY DEF MakeCopies, WithUser, Block, Enter, Exit, StartOmitting, StopOmitting, BreakOmitting,
           Open, Close
  <1> QED
    BY <1>1, <1>2, <1>3, <1>4 DEF Next

\* Nothing of an earlier call is left in a command line.
THEOREM CommandsAreAsWritten == Spec => []CallsAreAsWritten
  BY CommandsInit, CommandsStep, CommandInvariance, PTL DEF Spec, CommandsInv

\* Every command goes to the Satellite it is meant for.
THEOREM CommandsArrive == Spec => []CommandsGoWhereMeant
  BY CommandsInit, CommandsStep, CommandInvariance, PTL DEF Spec, CommandsInv

\* Every command is executed as the user it is meant for.
THEOREM CredentialsAreRight == Spec => []CredentialsAsAsked
  BY CommandsInit, CommandsStep, CommandInvariance, PTL DEF Spec, CommandsInv

=============================================================================
