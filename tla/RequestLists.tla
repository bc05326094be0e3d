----------------------------- MODULE RequestLists -----------------------------
(***************************************************************************)
(* The headers and the recipients of a CcURL object: two linked lists of    *)
(* libcurl (lib/slist.c), made of nodes that malloc gives and takes back,   *)
(* and the two options of the easy handle that point to them.  A node that  *)
(* was freed is given out again, so a pointer that outlives its list would  *)
(* show the entries of another one.  malloc may fail at any time; then      *)
(* curl_slist_append answers NULL and the code takes that for the list.     *)
(*                                                                         *)
(* easy_perform is here only the reader of the two options; EasyPerform     *)
(* models the rest of it.                                                   *)
(***************************************************************************)
EXTENDS Naturals, SequencesExt

CONSTANTS
  Header,      \* the header lines a script sets
  Recipient,   \* the addresses a script sets
  Node,        \* the memory for list nodes (bound)
  NULL,
  Pragma       \* "pragma:", which the constructor puts into the list

ASSUME DistinctNames == NULL \notin Node /\ Pragma \notin Header
ASSUME MemoryIsFinite == IsFiniteSet(Node)

VARIABLES
  heap,         \* what malloc gave out: node -> data and next
  headers, recipients,   \* the members of the object
  m_curl,       \* the two options of the current easy handle
  alive,        \* the object exists
  lost,         \* nodes of lists the object forgot when memory ran out
  answer        \* what the last call gave back or sent

listVars == <<heap, headers, recipients, m_curl, alive, lost, answer>>

Pointer == Node \cup {NULL}
Allocated == DOMAIN heap
Fresh == Node \ Allocated

NoAnswer == [failed |-> FALSE, rows |-> <<>>, headers |-> <<>>, recipients |-> <<>>]

\* The options of a handle that curl_easy_init has just returned
NewHandle == [HTTPHEADER |-> NULL, MAIL_RCPT |-> NULL]

-----------------------------------------------------------------------------
(* lib/slist.c, on the memory h *)

\* The nodes of a list in order; a walk into freed memory ends there.
Nodes(h, list) ==
  LET walk[n \in 0 .. Cardinality(Node)] ==
        [p \in Pointer |-> IF n = 0 \/ p \notin DOMAIN h THEN <<>>
                           ELSE <<p>> \o walk[n - 1][h[p].next]]
  IN walk[Cardinality(Node)][list]

Data(list) == [k \in DOMAIN Nodes(heap, list) |-> heap[Nodes(heap, list)[k]].data]

slist_get_last(h, list) == Last(Nodes(h, list))

\* Mutant: next of the new node is what malloc left there.
AppendNextUnset(h, list, data, n) ==
  LET new == (n :> [data |-> data, next |-> CHOOSE m \in Node : m # n]) @@ h IN
  IF list = NULL THEN new
  ELSE [new EXCEPT ![slist_get_last(h, list)].next = n]

\* Mutant: the new node takes the place of the rest of the list.
AppendBehindHead(h, list, data, n) ==
  LET new == (n :> [data |-> data, next |-> NULL]) @@ h IN
  IF list = NULL THEN new ELSE [new EXCEPT ![list].next = n]

\* The memory after curl_slist_append put data into the node n
Appended(h, list, data, n) ==
  LET new == [m \in DOMAIN h \cup {n} |->
                IF m = n THEN [data |-> data, next |-> NULL] ELSE h[m]] IN
  IF list = NULL THEN new
  ELSE [new EXCEPT ![slist_get_last(h, list)].next = n]

\* and the list it answers
AppendResult(list, n) == IF list = NULL THEN n ELSE list

\* Mutant: the last node stays.
FreeAllButLast(h, list) ==
  Restrict(h, DOMAIN h \ ToSet(Front(Nodes(h, list))))

curl_slist_free_all(h, list) == Restrict(h, DOMAIN h \ ToSet(Nodes(h, list)))

-----------------------------------------------------------------------------
ListInit ==
  /\ heap = <<>> /\ headers = NULL /\ recipients = NULL
  /\ m_curl = NewHandle /\ alive = FALSE /\ lost = {} /\ answer = NoAnswer

\* CcURL(): the list of headers begins with one of the object's own, which no
\* handle is told of yet.
Construct ==
  /\ ~alive /\ alive' = TRUE
  /\ m_curl' = NewHandle /\ recipients' = NULL /\ answer' = NoAnswer
  /\ \/ \E n \in Fresh : /\ heap' = Appended(heap, NULL, Pragma, n)
                         /\ headers' = n
     \/ heap' = heap /\ headers' = NULL
  /\ UNCHANGED lost

\* easy_setopt with CURLOPT_HTTPHEADER
SetoptHttpheader(text) ==
  /\ alive /\ answer' = NoAnswer
  /\ \/ \E n \in Fresh : /\ heap' = Appended(heap, headers, text, n)
                         /\ headers' = AppendResult(headers, n)
                         /\ UNCHANGED lost
     \/ /\ headers' = NULL
        /\ lost' = lost \cup ToSet(Nodes(heap, headers))
        /\ UNCHANGED heap
  /\ m_curl' = [m_curl EXCEPT !.HTTPHEADER = headers']
  /\ UNCHANGED <<recipients, alive>>

\* easy_setopt with CURLOPT_MAIL_RCPT; isPosting is in EasyPerform.
SetoptMailRcpt(address) ==
  /\ alive /\ answer' = NoAnswer
  /\ \/ \E n \in Fresh : /\ heap' = Appended(heap, recipients, address, n)
                         /\ recipients' = AppendResult(recipients, n)
                         /\ UNCHANGED lost
     \/ /\ recipients' = NULL
        /\ lost' = lost \cup ToSet(Nodes(heap, recipients))
        /\ UNCHANGED heap
  /\ m_curl' = [m_curl EXCEPT !.MAIL_RCPT = recipients']
  /\ UNCHANGED <<headers, alive>>

\* Mutant: the lists are freed and the handle is kept.
CleanupKeepsHandle ==
  /\ alive /\ answer' = NoAnswer
  /\ heap' = curl_slist_free_all(curl_slist_free_all(heap, headers), recipients)
  /\ headers' = NULL /\ recipients' = NULL
  /\ UNCHANGED <<m_curl, alive, lost>>

easy_cleanup ==
  /\ alive /\ answer' = NoAnswer
  /\ heap' = curl_slist_free_all(curl_slist_free_all(heap, headers), recipients)
  /\ headers' = NULL /\ recipients' = NULL
  /\ m_curl' = NewHandle
  /\ UNCHANGED <<alive, lost>>

\* Mutant: the loop begins with the head of the list.
GetHeadersFromHead ==
  /\ alive
  /\ answer' = [NoAnswer EXCEPT !.rows = Data(headers)]
  /\ UNCHANGED <<heap, headers, recipients, m_curl, alive, lost>>

\* GetHeaders: a table with a row for every node behind the head; without a
\* list it answers FALSE.
GetHeaders ==
  /\ alive
  /\ answer' = [NoAnswer EXCEPT
                  !.failed = headers = NULL,
                  !.rows = IF headers = NULL THEN <<>> ELSE Tail(Data(headers))]
  /\ UNCHANGED <<heap, headers, recipients, m_curl, alive, lost>>

\* The lists a transfer finds through the options of its handle
easy_perform ==
  /\ alive
  /\ answer' = [NoAnswer EXCEPT !.headers = Data(m_curl.HTTPHEADER),
                                !.recipients = Data(m_curl.MAIL_RCPT)]
  /\ UNCHANGED <<heap, headers, recipients, m_curl, alive, lost>>

\* A method, or an option of easy_setopt, that has nothing to do with the lists
OtherMethod ==
  /\ alive /\ answer' = NoAnswer
  /\ UNCHANGED <<heap, headers, recipients, m_curl, alive, lost>>

\* ~CcURL()
Destruct ==
  /\ alive /\ alive' = FALSE
  /\ heap' = curl_slist_free_all(curl_slist_free_all(heap, headers), recipients)
  /\ headers' = NULL /\ recipients' = NULL /\ m_curl' = NewHandle
  /\ answer' = NoAnswer
  /\ UNCHANGED lost

-----------------------------------------------------------------------------
(* Properties *)

ListTypeOK ==
  /\ Allocated \subseteq Node
  /\ \A n \in Allocated : heap[n].next \in Allocated \cup {NULL}
  /\ headers \in Pointer /\ recipients \in Pointer
  /\ m_curl \in [HTTPHEADER : Pointer, MAIL_RCPT : Pointer]
  /\ alive \in BOOLEAN /\ lost \subseteq Node

\* The options of the handle in use never point to a list that was freed: a
\* request sends a list of this object or none, after any sequence of
\* settings, resets and failed allocations.
OptionsPointToLists ==
  m_curl.HTTPHEADER \in {NULL, headers} /\ m_curl.MAIL_RCPT \in {NULL, recipients}

\* Every node in use is on exactly one of the two lists, or on one that was
\* forgotten when memory ran out: nothing leaks otherwise, nothing is on two
\* lists, and no list runs into a freed node or in a circle.
NodesAccounted ==
  LET h == ToSet(Nodes(heap, headers))
      r == ToSet(Nodes(heap, recipients)) IN
  /\ Allocated = h \cup r \cup lost
  /\ h \cap r = {} /\ (h \cup r) \cap lost = {}
  /\ \A list \in {headers, recipients} \ {NULL} :
        /\ list \in Allocated
        /\ heap[slist_get_last(heap, list)].next = NULL

=============================================================================
