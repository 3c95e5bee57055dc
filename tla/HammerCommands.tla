--------------------------- MODULE HammerCommands ---------------------------
(***************************************************************************)
(* robottelo/cli/base.py, and how hosts.py uses it: a test calls class     *)
(* methods of CLI classes, which leave parts of the command line in class  *)
(* attributes and read them back through Python's inheritance.  One class  *)
(* has up to three incarnations: the class itself, the copy that a         *)
(* Satellite makes of it (Satellite.cli), and the subclass with_user()     *)
(* makes of either.  With statements of a Satellite change where commands  *)
(* go and with which credentials.                                          *)
(*                                                                         *)
(* One test runs at a time in a worker, so a call is one step.             *)
(***************************************************************************)
EXTENDS Naturals, Sequences

CONSTANTS
    Class,        \* names of CLI classes
    Cli,          \* what is in each: base, org, methods and nested classes (CliClasses)
    Roaming,      \* bound: those that are also used through a Satellite or as another user
    Satellite, Home,
    MaxSteps      \* bound: calls and with statements entered, together

Keep == "keep"     \* a method does not assign the attribute
Unset == "unset"   \* a class has no attribute of its own

ASSUME TableAssumption ==
    /\ Home \in Satellite /\ MaxSteps \in Nat /\ Roaming \subseteq Class
    /\ \A c \in Class :
        /\ Cli[c].base # Unset
        /\ \A m \in Cli[c].methods :
            \* Who overrides command_requires_org puts back what the class declares,
            (m.relaxed => Cli[c].org) /\ (m.fetch => \E n \in Cli[c].methods : n.sub = "info")
        \* and within a class, either all methods assign an attribute or none does.
        /\ \A f \in {"sub", "base", "end"} : \A m, n \in Cli[c].methods :
               m[f] # Unset /\ (m[f] = Keep => n[f] = Keep)

VARIABLES
    class,      \* the CLI class of this behaviour: its name and
    code,       \* what is in it
    inner,      \* it is also an attribute of another class
    mine,       \* the Satellite whose copy of it is used
    attr,       \* the attributes an incarnation has of its own
    userOf,     \* the incarnation with_user() was last called on, or Unset
    copied,     \* mine.cli is _configured
    server,     \* settings.server.hostname
    blocks,     \* the with statements that are open
    revert, old,    \* _revert and _old_hostname of each Satellite
    omitting,       \* mine.omitting_credentials
    copyOmits,      \* omitting_credentials of the copy
    called,     \* the methods that the last call has run, and how they were reached
    issued,     \* the command lines it has executed
    reentered,  \* history: a Satellite was entered inside of itself
    spoilt,     \* history: an exception left omit_credentials()
    steps

attributes == <<attr, userOf, copied>>
contexts == <<server, blocks, revert, old, omitting, copyOmits, reentered, spoilt>>
vars == <<class, code, inner, mine, attributes, contexts, called, issued, steps>>

Incarnation == {"class", "copy", "user"}

NoAttributes == [sub |-> Unset, base |-> Unset, end |-> Unset, org |-> Unset]

Init ==
    /\ class \in Class /\ code = Cli[class]
    /\ inner = \E c \in Class : class \in Cli[c].nested
    /\ mine \in (IF class \in Roaming THEN Satellite ELSE {Home})
    /\ attr = [i \in Incarnation |-> NoAttributes] /\ userOf = Unset /\ copied = FALSE
    /\ server = Home /\ blocks = <<>>
    /\ revert = [s \in Satellite |-> FALSE] /\ old = [s \in Satellite |-> Home]
    /\ omitting = FALSE /\ copyOmits = FALSE
    /\ called = <<>> /\ issued = <<>>
    /\ reentered = FALSE /\ spoilt = FALSE /\ steps = 0

-----------------------------------------------------------------------------
(* Python's attribute lookup.                                              *)

\* A flag, as the value of an attribute.
Flag(b) == IF b THEN "yes" ELSE "no"

Declared == [sub |-> "", base |-> code.base, end |-> "", org |-> Flag(code.org)]

Else(x, y) == IF x # Unset THEN x ELSE y

FromClass(a, f) == Else(a["class"][f], Declared[f])
FromCopy(a, f) == Else(a["copy"][f], FromClass(a, f))

\* cls.f of an incarnation.
Value(a, i, f) ==
    CASE i = "class" -> FromClass(a, f)
      [] i = "copy" -> FromCopy(a, f)
      [] OTHER -> Else(a["user"][f], IF userOf = "copy" THEN FromCopy(a, f) ELSE FromClass(a, f))

\* A class or a subclass of the copy has the copy's hostname and omitting_credentials.
OfCopy(i) == i = "copy" \/ (i = "user" /\ userOf = "copy")

Usable(i) ==
    \/ i = "class"
    \/ (i = "copy" /\ copied)
    \/ (i = "user" /\ userOf # Unset)

\* Nothing is called.
Quiet == called' = <<>> /\ issued' = <<>>

\* Satellite.cli: every class is copied when it is first used.
MakeCopies ==
    /\ class \in Roaming /\ ~copied
    /\ copied' = TRUE /\ copyOmits' = omitting
    /\ UNCHANGED <<class, code, inner, mine, attr, userOf, server, blocks, revert, old, omitting,
                   reentered, spoilt>>
    /\ Quiet /\ UNCHANGED steps

\* with_user() makes a new subclass, which has nothing but the credentials.
WithUser(i) ==
    /\ class \in Roaming /\ i # "user" /\ Usable(i)
    /\ userOf' = i
    /\ attr' = [attr EXCEPT !["user"] = NoAttributes]
    /\ Quiet /\ UNCHANGED <<class, code, inner, mine, copied, contexts, steps>>

-----------------------------------------------------------------------------
(* Calls.                                                                  *)

\* Mutant: only a backup names its directory.
Assign_KeepsEnd(a, m) ==
    [a EXCEPT !.sub = IF m.sub = Keep THEN @ ELSE m.sub,
              !.base = IF m.base = Keep THEN @ ELSE m.base,
              !.end = IF m.end \in {Keep, ""} THEN @ ELSE m.end]

\* What a method assigns to cls before it reads anything.
Assign(a, m) ==
    [a EXCEPT !.sub = IF m.sub = Keep THEN @ ELSE m.sub,
              !.base = IF m.base = Keep THEN @ ELSE m.base,
              !.end = IF m.end = Keep THEN @ ELSE m.end]

\* Mutant: command_requires_org is switched back on only if nothing was raised.
Finally_NoTry(a, m, raised) == [a EXCEPT !.org = IF m.relaxed THEN Flag(~raised) ELSE @]

\* The attributes of cls when the method is left, by return or by an exception.
Finally(a, m, raised) == [a EXCEPT !.org = IF m.relaxed THEN Flag(TRUE) ELSE @]

After(a, m, raised) == Finally(Assign(a, m), m, raised)

Left(i, m, raised) == [attr EXCEPT ![i] = After(@, m, raised)]

\* command_requires_org is checked and true while m runs in i.
RequiresOrg(i, m) == m.org /\ ~m.relaxed /\ Value(attr, i, "org") = Flag(TRUE)

\* Mutant: the copies have no hostname of their own.
HostOf_Settings(i) == server

\* hostname or cls.hostname or settings.server.hostname
HostOf(i) == IF OfCopy(i) THEN mine ELSE server

UserOf(i) ==
    IF OfCopy(i) /\ copyOmits THEN "none" ELSE IF i = "user" THEN "user" ELSE "admin"

\* execute() and sm_execute(): the command line and where it runs, with the attributes a.
Command(a, i, m) ==
    [base |-> Value(a, i, "base"), sub |-> Value(a, i, "sub"), end |-> Value(a, i, "end"),
     via |-> m.via, host |-> HostOf(i),
     user |-> IF m.via = "hammer" THEN UserOf(i) ELSE "ssh"]

\* Satellite.cli copies classes and not what they have as attributes: sat.cli.Docker.tag
\* is the class itself.
Ways(i) == IF i = "class" /\ copied /\ inner THEN {i, "nested"} ELSE {i}

Called(i, ms) ==
    \E w \in Ways(i) : called' = [k \in DOMAIN ms |-> [method |-> ms[k], through |-> w]]

Method(i, m) ==
    /\ steps < MaxSteps /\ steps' = steps + 1
    /\ Usable(i) /\ m \in code.methods
    /\ UNCHANGED <<class, code, inner, mine, userOf, copied, contexts>>

\* CLIError for the options given, before or after command_sub has been assigned.
Refuse(i, m) ==
    /\ Method(i, m) /\ m.raises # "never"
    /\ attr' = IF m.raises = "after" THEN Left(i, m, TRUE) ELSE attr
    /\ Called(i, <<>>) /\ issued' = <<>>

\* info() without the organization-id it requires.
RefuseInfo(i, m) ==
    /\ Method(i, m) /\ ~m.fetch /\ RequiresOrg(i, m)
    /\ attr' = Left(i, m, TRUE)
    /\ Called(i, <<>>) /\ issued' = <<>>

\* One command: it fails and raises, or its output is returned.
Run(i, m) ==
    /\ Method(i, m)
    /\ \E raised \in BOOLEAN : attr' = Left(i, m, raised)
    /\ Called(i, <<m>>) /\ issued' = <<Command(attr', i, m)>>

Info == CHOOSE m \in code.methods : m.sub = "info"

\* A create() that gets an id asks for the new record, through cls.info(), unless
\* the organization-id is required and missing (then it has raised after Run).
RunAndFetch(i, m) ==
    /\ Method(i, m) /\ m.fetch
    /\ \E created \in {[attr EXCEPT ![i] = Assign(@, m)]}, raised \in BOOLEAN :
        /\ attr' = [created EXCEPT ![i] = Finally(After(@, Info, raised), m, raised)]
        /\ issued' = <<Command(created, i, m), Command(attr', i, Info)>>
    /\ Called(i, <<m, Info>>)

-----------------------------------------------------------------------------
(* With statements.                                                        *)

Open(b) == blocks' = Append(blocks, b) /\ steps' = steps + 1 /\ Quiet
Close == blocks' = SubSeq(blocks, 1, Len(blocks) - 1) /\ Quiet /\ UNCHANGED steps

\* Satellite.__enter__(): nothing is changed if it is the default host already.
Enter(s) ==
    /\ class \in Roaming /\ steps < MaxSteps
    /\ Open(<<"satellite", s>>)
    /\ reentered' = (reentered \/ \E k \in DOMAIN blocks : blocks[k] = <<"satellite", s>>)
    /\ revert' = [revert EXCEPT ![s] = s # server]
    /\ old' = IF s # server THEN [old EXCEPT ![s] = server] ELSE old
    /\ server' = s
    /\ UNCHANGED <<class, code, inner, mine, attributes, omitting, copyOmits, spoilt>>

\* Mutant: the host of the settings file comes back, whoever was entered before.
Reverted_Home(s) == IF revert[s] THEN Home ELSE server

Reverted(s) == IF revert[s] THEN old[s] ELSE server

Exit(s) ==
    /\ blocks # <<>> /\ blocks[Len(blocks)] = <<"satellite", s>>
    /\ Close /\ server' = Reverted(s)
    /\ UNCHANGED <<class, code, inner, mine, attributes, revert, old, omitting, copyOmits,
                   reentered, spoilt>>

\* omit_credentials(): `change` is kept in the generator's frame.
StartOmitting ==
    /\ class \in Roaming /\ steps < MaxSteps
    /\ Open(<<"omit", ~omitting>>)
    /\ omitting' = TRUE /\ copyOmits' = (copyOmits \/ (copied /\ ~omitting))
    /\ UNCHANGED <<class, code, inner, mine, attributes, server, revert, old, reentered, spoilt>>

\* Mutant: the inner one of two nested statements switches credentials on again.
StillOmits_Never(change) == FALSE

StillOmits(change) == ~change

StopOmitting(change) ==
    /\ blocks # <<>> /\ blocks[Len(blocks)] = <<"omit", change>>
    /\ Close
    /\ omitting' = (omitting /\ StillOmits(change))
    /\ copyOmits' = (copyOmits /\ (StillOmits(change) \/ ~copied))
    /\ UNCHANGED <<class, code, inner, mine, attributes, server, revert, old, reentered, spoilt>>

\* The body raises: the generator ends at its yield, which is in no try statement.
BreakOmitting(change) ==
    /\ blocks # <<>> /\ blocks[Len(blocks)] = <<"omit", change>>
    /\ Close /\ spoilt' = (spoilt \/ change)
    /\ UNCHANGED <<class, code, inner, mine, attributes, server, revert, old, omitting, copyOmits,
                   reentered>>

-----------------------------------------------------------------------------
Call ==
    \E i \in Incarnation, m \in code.methods :
        Refuse(i, m) \/ RefuseInfo(i, m) \/ Run(i, m) \/ RunAndFetch(i, m)

Block ==
    \/ \E s \in Satellite : Enter(s) \/ Exit(s)
    \/ StartOmitting
    \/ \E change \in BOOLEAN : StopOmitting(change) \/ BreakOmitting(change)

Next == MakeCopies \/ (\E i \in Incarnation : WithUser(i)) \/ Call \/ Block

Spec == Init /\ [][Next]_vars

-----------------------------------------------------------------------------
(* Properties.                                                             *)

Values(f) == ({Unset} \cup {m[f] : m \in code.methods}) \ {Keep}

TypeOK ==
    /\ class \in Class /\ mine \in Satellite /\ server \in Satellite
    /\ userOf \in {"class", "copy", Unset} /\ (userOf = "copy" => copied)
    /\ attr \in [Incarnation -> [sub : Values("sub"), base : Values("base"), end : Values("end"),
                                 org : {"yes", Unset}]]
    /\ revert \in [Satellite -> BOOLEAN] /\ old \in [Satellite -> Satellite]
    /\ blocks \in Seq(({"satellite"} \X Satellite) \cup ({"omit"} \X BOOLEAN))
    /\ {inner, copied, omitting, copyOmits, reentered, spoilt} \subseteq BOOLEAN
    /\ DOMAIN issued = DOMAIN called /\ steps \in 0..MaxSteps

\* What a method writes down: its own attribute, or the one of the class.
Written(m, f) == IF m[f] # Keep THEN m[f] ELSE Declared[f]

\* A command line is that of the method that was called, whatever has been called before
\* on the class, on a Satellite's copy of it, or with other credentials, and however that
\* ended: nothing of an earlier call is left in the attributes it is built from.
CallsAreAsWritten ==
    \A k \in DOMAIN issued : \A f \in {"sub", "base", "end"} :
        issued[k][f] = Written(called[k].method, f)

\* Between calls a class that takes an organization-id is checked for one, and no other
\* is: create() and info() of Repository put back what they switch off (for the
\* incarnation they were called on), also when they raise.
OrgIsDeclared ==
    \A i \in Incarnation : Usable(i) => Value(attr, i, "org") = Declared.org

\* Commands of the classes of sat.cli run on sat whichever with statement is open; all
\* others run on the Satellite of the innermost open one (as long as none was entered inside
\* itself): those of nested classes too, sat.cli.ContentView.filter.create() does not run on
\* sat unless it is that one.
Entered == {k \in DOMAIN blocks : blocks[k][1] = "satellite"}

Last(K) == {k \in K : \A n \in K : n <= k}

HostIn(K) == IF Last(K) = {} THEN Home ELSE blocks[CHOOSE k \in Last(K) : TRUE][2]

DefaultHost == HostIn(Entered)

CommandsGoWhereMeant ==
    \A k \in DOMAIN issued :
        LET i == called[k].through
        IN  IF OfCopy(i) THEN issued[k].host = mine
            ELSE reentered \/ issued[k].host = DefaultHost

\* Leaving with statements brings the default host back that was there before them.
ContextsUnwind == reentered \/ server = DefaultHost

\* hammer gets no credentials through the classes of sat.cli inside of
\* sat.omit_credentials(), in one statement or several and whether sat.cli was made before
\* or inside of it (as long as no exception left one); the user's through with_user()
\* elsewhere; and the administrator's otherwise: so does a nested class, always.
CredentialsAsAsked ==
    spoilt \/ \A k \in DOMAIN issued :
        LET i == called[k].through
            omit == \E n \in DOMAIN blocks : blocks[n][1] = "omit"
        IN  issued[k].user =
              CASE issued[k].via # "hammer" -> "ssh"
                [] issued[k].via = "hammer" /\ omit /\ OfCopy(i) -> "none"
                [] issued[k].via = "hammer" /\ ~(omit /\ OfCopy(i)) ->
                       IF i = "user" THEN "user" ELSE "admin"

=============================================================================
