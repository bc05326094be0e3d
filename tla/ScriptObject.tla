----------------------------- MODULE ScriptObject -----------------------------
(***************************************************************************)
(* A script and one CcURL object: the script makes the object, calls its    *)
(* methods by name, and lets it go.  A call goes through the tables of      *)
(* Dispatch to a number and from the number to the method; the methods that *)
(* deal with headers and recipients are those of RequestLists.  Every other *)
(* method of the class leaves the lists alone.                              *)
(***************************************************************************)
EXTENDS Dispatch, RequestLists

ASSUME ObjectHasClass == "CcURL" \in Class

VARIABLE asked   \* what the script meant by the name it called last

scriptVars == <<dispatchVars, listVars, asked>>

Methods == <<"methods", "CcURL">>
Function(n) == endmeths["CcURL"][n + 1].fn
ListFunctions == {"easy_setopt", "easy_cleanup", "GetHeaders", "easy_perform"}

ScriptInit == DispatchInit /\ ListInit /\ asked = "none"

\* CContextImpl() is the first part of the constructor of a CcURL object; the
\* rest follows when the maps are there.
FirstObject == ~alive /\ OnInitFirstObject /\ UNCHANGED <<listVars, asked>>

FillMaps == \E t \in Hashed : AddNames(t) /\ UNCHANGED <<listVars, asked>>

CreateObject == MapsReady /\ Construct /\ asked' = "none" /\ UNCHANGED dispatchVars

\* The function that runs when the script calls name: FindMethod, HasRetVal,
\* then CallAsFunc or CallAsProc; "none" if nothing does.
Runs(name) ==
  LET n == Find(Methods, name)
      run == Called("CcURL", n, HasRetVal("CcURL", n))
  IN IF run = -1 THEN "none" ELSE Function(run)

\* The function the script means: the one declared with that name.
MeantFunction(name) ==
  LET k == Meant[Methods][name] IN IF k = 0 THEN "unknown" ELSE Function(k - 1)

\* What the script can call: the function it means by a name and the one that
\* name runs
Calls == {[meant |-> MeantFunction(name), runs |-> Runs(name)] : name \in Spelling}

Call(c) ==
  /\ alive /\ asked' = c.meant /\ UNCHANGED dispatchVars
  /\ \/ /\ c.runs = "easy_setopt"
        /\ \/ \E text \in Header : SetoptHttpheader(text)
           \/ \E address \in Recipient : SetoptMailRcpt(address)
           \/ OtherMethod
     \/ c.runs = "easy_cleanup" /\ easy_cleanup
     \/ c.runs = "GetHeaders" /\ GetHeaders
     \/ c.runs = "easy_perform" /\ easy_perform
     \/ c.runs \notin ListFunctions /\ OtherMethod

ReleaseObject == Destruct /\ asked' = "none" /\ UNCHANGED dispatchVars

ScriptNext ==
  \/ FirstObject \/ FillMaps
  \/ CreateObject
  \/ alive /\ \E c \in Calls : Call(c)
  \/ ReleaseObject

ScriptSpec == ScriptInit /\ [][ScriptNext]_scriptVars

-----------------------------------------------------------------------------
(* Properties *)

\* What can be asked for: the functions of the class, something unknown, or
\* nothing
Asked == {"none", "unknown"} \cup {d.fn : d \in ToSet(endmeths["CcURL"])}

\* The tables and the lists are well formed, and no node points to memory
\* that is not in use.
ScriptTypeOK == DispatchTypeOK /\ ListTypeOK /\ asked \in Asked

OwnInFront == headers # NULL /\ heap[headers].data = Pragma

Abstract ==
  INSTANCE RequestHeaders WITH
    object <- alive, Own <- Pragma, own <- OwnInFront,
    script <- IF OwnInFront THEN Tail(Data(headers)) ELSE Data(headers),
    rcpts <- Data(recipients)

\* Calling a method by name does to the headers and the recipients what the
\* script asks for by that name, and nothing else: lookup, linked lists and
\* handle options together behave as the two plain sequences of
\* RequestHeaders.  GetHeaders answers exactly the script's headers, but for
\* the first one after the object has lost its own in easy_cleanup.
ImplementsRequestHeaders == Abstract!Spec

=============================================================================
