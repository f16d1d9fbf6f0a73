----------------------------- MODULE MCDecisions -----------------------------
(***************************************************************************)
(* The two surfaces that ask for a decision, one at a time.  Decision Mode *)
(* with two sensitive items and up to three obligations per verdict; lists *)
(* of up to three capabilities of two types and two versions, in every     *)
(* order, and with each of the faults a list may have.  AuthZEN with bags  *)
(* made of up to ten values: three objects, a list, two known attributes   *)
(* and one of everything else, inside one another in any of hundreds of    *)
(* ways, some deeper than the bound or without an end; and envelopes that  *)
(* are complete, incomplete and malformed.                                 *)
(***************************************************************************)
EXTENDS PepHandshake, AuthZen, TLC

CONSTANTS email, ssn

Items == {email, ssn}
AllCallers == {"oneCall", "branching"}

C(type, version) == [exact |-> TRUE, type |-> type, version |-> version]
Lists ==
    {<<>>, <<C(1, 1), C(1, 2)>>, <<C(1, 2), C(1, 1)>>,
     <<C(2, 1), C(1, 2)>>, <<C(1, 2), C(2, 1)>>,
     <<C(1, 1), C(1, 1)>>, <<C(0, 1)>>, <<C(1, 0)>>,
     <<[exact |-> FALSE, type |-> 1, version |-> 1]>>, <<C(1, 1), C(1, 2), C(2, 1)>>}
Types == {1, 2}

Kinds == "bag" :> "object" @@ "inner" :> "object" @@ "innermost" :> "object" @@ "items" :> "list"
         @@ "k1" :> "known" @@ "k2" :> "known" @@ "v" :> "value" @@ "u" :> "undefined"
         @@ "a" :> "absent" @@ "x" :> "unknown"
Nodes == DOMAIN Kinds

BagChoices ==
    {"bag" :> b @@ "inner" :> i @@ "innermost" :> m @@ "items" :> l @@ "k1" :> {j} @@ "k2" :> {k} :
        b \in {{y, z} : y \in Nodes \ {"bag", "innermost", "k2"}, z \in {"inner", "k1"}}
              \cup {{}, {"a"}, {"u"}},
        i \in {{}, {"innermost"}, {"k1"}, {"a"}, {"u", "v"}},
        m \in {{}, {"items"}, {"a"}},
        l \in {{}, {"a", "v", "u"}, {"k2"}},
        j \in {"v", "inner", "k2", "u", "x"},
        k \in {"v", "a", "items", "bag"}}

\* Values that are not in the bag hold nothing, or a value.
Unused == [n \in Nodes |-> IF Kinds[n] = "known" THEN {"v"} ELSE {}]
InBag(h) == LET Grow(S) == S \cup UNION {h[n] : n \in S}
            IN  Grow(Grow(Grow(Grow(Grow(Grow(Grow({"bag"})))))))
MCInside == {h \in {c @@ Unused : c \in BagChoices} :
                \A n \in Nodes \ InBag(h) : h[n] = Unused[n]}

Plain == [subject |-> "named", action |-> "named", resource |-> "named",
          context |-> {}, properties |-> {}]
InContext(r) == [r EXCEPT !.context = {"bag"}]
InProperties(r) == [r EXCEPT !.properties = {"bag", "inner"}]

Partial == {Plain, [Plain EXCEPT !.subject = "none"], [Plain EXCEPT !.subject = "blank"],
            [Plain EXCEPT !.action = "none"], [Plain EXCEPT !.action = "attribute"],
            [Plain EXCEPT !.resource = "none"], Nothing}

WithoutBags ==
    {Evaluation :> r : r \in Partial}
    \cup {Base :> b : b \in Partial}
    \cup {Base :> b @@ 2 :> r : b \in Partial, r \in Partial}
    \cup {Base :> b @@ 2 :> Nothing @@ 3 :> r : b \in Partial, r \in Partial}
    \cup {Evaluation :> e @@ Base :> Plain : e \in Partial}
    \cup {<<>>}

WithBags ==
    {Evaluation :> InContext(Plain), Evaluation :> InProperties(Plain),
     Base :> Plain @@ 2 :> InContext(Nothing) @@ 3 :> Nothing,
     Base :> InContext(Plain) @@ 2 :> InProperties(Nothing)}

MCQuestions == [envelope : WithoutBags, inside : {Unused}]
               \cup [envelope : WithBags, inside : MCInside]

\* The surface that is not asked.
NoHandshake == HandshakeInit /\ caller = "oneCall" /\ ours = Undeclared
NoEvaluation == EvalInit

DecisionsInit ==
    \/ HandshakeInit /\ NoEvaluation
    \/ EvalInit /\ NoHandshake
DecisionsNext ==
    \/ NoEvaluation /\ HandshakeNext /\ UNCHANGED evalVars
    \/ NoHandshake /\ EvalNext /\ UNCHANGED <<vars, handshakeVars>>
DecisionsSpec ==
    DecisionsInit /\ [][DecisionsNext]_<<vars, handshakeVars, evalVars>>
=============================================================================
