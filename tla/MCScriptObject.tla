---------------------------- MODULE MCScriptObject ----------------------------
(* The three classes of the component.  CcURL with five of its methods, which *)
(* is enough for the hash table; CCurlMime with its one method and CCurlValue *)
(* with its three properties get the other searches.  Every name is written   *)
(* as declared and in lower case.  Hash functions: all names collide, or all  *)
(* but one, which lands in the same chain with another hash (13) or in        *)
(* another chain (1).                                                         *)
EXTENDS ScriptObject

Method(name, rus, func, np) ==
  [fn |-> name, eng |-> <<name, "mixed">>, rus |-> <<rus, "mixed">>,
   IsFunc |-> func, nParam |-> np]
Prop(name, rus, read, write) ==
  [fn |-> name, eng |-> <<name, "mixed">>, rus |-> <<rus, "mixed">>,
   IsRead |-> read, IsWrite |-> write]

MCClass == {"CcURL", "CCurlValue", "CCurlMime"}

MCendmeths ==
  [CcURL |-> <<Method("easy_cleanup", "OchistitParametry", TRUE, 0),
               Method("easy_setopt", "UstanovitParametr", TRUE, 2),
               Method("easy_perform", "Vypolnit", TRUE, 0),
               Method("GetHeaders", "PoluchitZagolovki", TRUE, 0),
               Method("AssignCurlCache", "OchistitKesh", FALSE, 0)>>,
   CCurlValue |-> <<>>,
   CCurlMime |-> <<Method("AddPart", "Dobavit", FALSE, 4)>>]

MCendprops ==
  [CcURL |-> <<Prop("Source", "Istochnik", TRUE, FALSE),
               Prop("Dest", "Priemnik", TRUE, FALSE)>>,
   CCurlValue |-> <<Prop("Type", "Tip", TRUE, TRUE),
                    Prop("Data", "Dannye", TRUE, TRUE),
                    Prop("Encoding", "Kodirovka", TRUE, TRUE)>>,
   CCurlMime |-> <<>>]

MethodWords ==
  UNION {{d.eng[1], d.rus[1]} : d \in ToSet(MCendmeths["CcURL"])} \cup {"NoSuchMethod"}

Words ==
  MethodWords \cup {"AddPart", "Dobavit"} \cup
  UNION {{d.eng[1], d.rus[1]} : d \in ToSet(MCendprops["CcURL"])
                                   \cup ToSet(MCendprops["CCurlValue"])}

MCSpelling == Words \X {"mixed", "lower"}
MCLower == [s \in MCSpelling |-> <<s[1], "lower">>]

MCHashFunction ==
  {[s \in Words \X {"lower"} |-> IF s[1] \in A THEN v ELSE 0] :
     A \in {{}, {"easy_setopt"}, {"NoSuchMethod"}},
     v \in {1, 13}}

Symmetry == Permutations(Node) \cup Permutations(Header)
=============================================================================
