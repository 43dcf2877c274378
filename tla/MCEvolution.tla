---------------------------- MODULE MCEvolution ----------------------------
(***************************************************************************)
(* A small world of spec files for Evolution: one context "sales" with one *)
(* aggregate "Order", to which every feature the gate compares can be      *)
(* added or not, and a few whole-spec variants.                            *)
(***************************************************************************)
EXTENDS Evolution, TLC

MCIdentifiers == {"sales", "ledger", "Order", "Rate", "new", "paid", "void"}

\* The items of the sequence whose feature is chosen.
Chosen(features, options) == SelectSeq(options, LAMBDA o : o[1] \in features)
Items(features, options) == LET s == Chosen(features, options) IN [k \in DOMAIN s |-> s[k][2]]

Order(F) ==
  [name |-> "Order",
   kind |-> IF "reference" \in F THEN "reference" ELSE "aggregate",
   states |-> (CASE "swap" \in F -> <<"paid", "new">>
                 [] "settled" \in F -> <<"paid">>
                 [] OTHER -> <<"new", "paid">>)
              \o Items(F, <<<<"state", "void">>>>),
   transitions |-> [s \in {x \in {"new", "paid"} : IF x = "new" THEN "settled" \notin F ELSE "state" \in F} |->
                      IF s = "paid" THEN {"void"} ELSE IF "edge" \in F THEN {"paid"} ELSE {}],
   guards |-> Items(F, <<<<"guard", [id |-> "G1", edge |-> <<"new", "paid">>,
                                      desc |-> IF "reword" \in F THEN "t2" ELSE "t1"]>>,
                         <<"twin", [id |-> "G1", edge |-> <<"paid", "void">>, desc |-> "t1"]>>>>),
   invariants |-> Items(F, <<<<"inv", [id |-> "I1", desc |-> "t1"]>>>>),
   relationship_invariants |-> Items(F, <<<<"relinv", [id |-> "R1", desc |-> "t1"]>>>>),
   formulas |-> <<>>,
   ports_out |-> Items(F, <<<<"port", "Payments">>>>)]

Rate(F) ==
  [name |-> "Rate", kind |-> "calculation", states |-> <<>>, transitions |-> <<>>, guards |-> <<>>,
   invariants |-> <<>>, relationship_invariants |-> <<>>, ports_out |-> <<>>,
   formulas |-> Items(F, <<<<"calc", [id |-> "F1", name |-> "rate"]>>,
                           <<"formula", [id |-> "F2", name |-> "fee"]>>>>)]

Table(F) ==
  [name |-> "limit", id |-> "T1", kind |-> "range", output |-> "max",
   inputs |-> IF "shape" \in F THEN <<"price", "area">> ELSE <<"price">>,
   versioned |-> "versioned" \in F]

Sales(F) ==
  [name |-> "sales",
   domains |-> <<Order(F)>> \o Items(F, <<<<"calc", Rate(F)>>>>),
   decision_tables |-> Items(F, <<<<"table", Table(F)>>>>),
   relations |-> Items(F, <<<<"call", [to |-> "sales", via |-> "event", event |-> NoEvent]>>,
                            <<"event", [to |-> "sales", via |-> "event", event |-> "Paid"]>>>>)]

Ledger == [name |-> "ledger", domains |-> <<>>, decision_tables |-> <<>>, relations |-> <<>>]

SpecWith(F) == [web |-> "none", contexts |-> <<Sales(F)>> \o Items(F, <<<<"ledger", Ledger>>>>)]

MCSpecs ==
  {SpecWith(F) : F \in SUBSET {"edge", "guard", "state"}}
  \cup {SpecWith({"settled"})}
  \cup {SpecWith({"edge"} \cup F) : F \in SUBSET {"inv", "table"}}
  \cup {SpecWith({"edge"} \cup F) : F \in {{"port"}, {"event"}, {"call"}, {"call", "event"}, {"guard", "reword"},
                             {"table", "shape"}, {"table", "versioned"}, {"calc"},
                             {"calc", "formula"}, {"ledger"}, {"reference"}, {"swap"}}}

\* One rule id guarding two edges, which nothing in spec.py forbids, and a
\* relationship invariant; then without the first guard and without it.
MCProtectedSpecs ==
  {SpecWith({"edge", "state", "guard", "twin", "relinv"}), SpecWith({"edge", "state", "twin"})}
=============================================================================
