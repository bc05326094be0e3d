---------------------------- MODULE RequestHeaders ----------------------------
(***************************************************************************)
(* What the methods of a CcURL object promise the script about the headers  *)
(* and the recipients of a request, in terms of what the script has set and *)
(* not of the lists that keep it.  Every step is a call of the method in    *)
(* asked.  ScriptObject implements it with libcurl's linked lists behind    *)
(* the lookup of a method by its name.                                      *)
(***************************************************************************)
EXTENDS Sequences

CONSTANTS
  Header, Recipient,  \* what the script sets
  Own                 \* the header the object brings along

VARIABLES
  object,   \* whether the object exists
  asked,    \* the method of the last call
  script,   \* the headers of the script
  own,      \* whether the object's own header is in front of them
  rcpts,    \* the recipients
  answer    \* what the call gave back or sent

NoAnswer == [failed |-> FALSE, rows |-> <<>>, headers |-> <<>>, recipients |-> <<>>]

Nothing == script = <<>> /\ own = FALSE /\ rcpts = <<>>

Init == object = FALSE /\ asked = "none" /\ answer = NoAnswer /\ Nothing

\* A new object has its own header, unless memory ran out.
Create ==
  /\ ~object /\ object'
  /\ asked' = "none" /\ answer' = NoAnswer
  /\ script' = <<>> /\ own' \in BOOLEAN /\ rcpts' = <<>>

Call(method) == object /\ object' /\ asked' = method

\* One more header at the end; or memory ran out, and all are gone.
SetHeader ==
  /\ Call("easy_setopt")
  /\ \/ \E h \in Header : script' = Append(script, h) /\ own' = own
     \/ script' = <<>> /\ own' = FALSE
  /\ rcpts' = rcpts /\ answer' = NoAnswer

SetRecipient ==
  /\ Call("easy_setopt")
  /\ \/ \E r \in Recipient : rcpts' = Append(rcpts, r)
     \/ rcpts' = <<>>
  /\ script' = script /\ own' = own /\ answer' = NoAnswer

Reset ==
  /\ Call("easy_cleanup")
  /\ script' = <<>> /\ own' = FALSE /\ rcpts' = <<>> /\ answer' = NoAnswer

\* The headers of the script, without the first one once the object has lost
\* its own; the call fails when there is nothing at all.
Rows == IF own \/ script = <<>> THEN script ELSE Tail(script)

List ==
  /\ Call("GetHeaders")
  /\ answer' = [NoAnswer EXCEPT !.rows = Rows, !.failed = ~own /\ script = <<>>]
  /\ script' = script /\ own' = own /\ rcpts' = rcpts

\* A request carries no header before the script has set one.
Send ==
  /\ Call("easy_perform")
  /\ answer' = [NoAnswer EXCEPT
       !.headers = IF script = <<>> THEN <<>>
                   ELSE IF own THEN <<Own>> \o script ELSE script,
       !.recipients = rcpts]
  /\ script' = script /\ own' = own /\ rcpts' = rcpts

\* A call of a method that is about neither, or easy_setopt of another option
Other ==
  /\ object /\ object'
  /\ asked' \notin {"easy_cleanup", "GetHeaders", "easy_perform"}
  /\ answer' = NoAnswer
  /\ script' = script /\ own' = own /\ rcpts' = rcpts

Destroy ==
  /\ object /\ ~object'
  /\ asked' = "none" /\ answer' = NoAnswer
  /\ script' = <<>> /\ own' = FALSE /\ rcpts' = <<>>

Next ==
  Create \/ SetHeader \/ SetRecipient \/ Reset \/ List \/ Send \/ Other \/ Destroy

Spec == Init /\ [][Next]_<<object, asked, script, own, rcpts, answer>>
=============================================================================
