----------------------------- MODULE MCProject -----------------------------
(***************************************************************************)
(* Small projects for Project: a sales context with one aggregate, a table *)
(* and a web adapter beside a ledger of reference data, a variant of its   *)
(* state machine, and specs whose names clash.                             *)
(***************************************************************************)
EXTENDS Project, TLC

MCIdentifiers == {"sales", "ledger", "sales_eu", "requests", "contexts", "domain", "Order", "OrderState", "Rate", "Fee",
                  "new", "paid"}

MCSnake == ("Order" :> "order") @@ ("OrderState" :> "order_state") @@ ("Rate" :> "rate") @@ ("Fee" :> "fee")

\* A Korean name has no ASCII letter, so its table is named by its id.
MCSlug == ("limit" :> "limit") @@ ("(limit in Korean)" :> "") @@ ("T-1" :> "t_1") @@ ("price" :> "price")
          @@ ("max" :> "max") @@ ("rate" :> "rate") @@ ("F1" :> "f1")

Domain(name, kind) ==
  [name |-> name, kind |-> kind, states |-> <<>>, transitions |-> <<>>, guards |-> <<>>,
   invariants |-> <<>>, relationship_invariants |-> <<>>, formulas |-> <<>>, ports_out |-> <<>>]

Aggregate(name, transitions, ports) ==
  [Domain(name, "aggregate") EXCEPT !.states = <<"new", "paid">>, !.transitions = transitions,
                                    !.ports_out = ports]

Context(name, domains, tables) ==
  [name |-> name, domains |-> domains, decision_tables |-> tables, relations |-> <<>>]

Limit(name) ==
  [name |-> name, id |-> "T-1", kind |-> "range", inputs |-> <<"price">>, output |-> "max",
   versioned |-> FALSE]

Pay == "new" :> {"paid"}
Refund == ("new" :> {"paid"}) @@ ("paid" :> {"new"})

Ledger == Context("ledger", <<Domain("Rate", "reference")>>, <<>>)
Fees == [Domain("Fee", "calculation") EXCEPT !.formulas = <<[id |-> "F1", name |-> "rate"]>>]

Shop(transitions, web) ==
  [web |-> web,
   contexts |-> <<Context("sales", <<Aggregate("Order", transitions, <<"Payments">>)>>,
                          <<Limit("limit")>>),
                  Ledger>>]

\* A context named after the beginning of another, one named after a
\* framework, and an aggregate whose module is the other one's state module.
Regions == [web |-> "none",
            contexts |-> <<Context("sales_eu", <<Aggregate("Order", Pay, <<>>)>>, <<>>),
                           Context("sales", <<Fees>>, <<Limit("(limit in Korean)")>>)>>]
Crawler == [web |-> "none", contexts |-> <<Context("requests", <<Aggregate("Order", Pay, <<>>)>>, <<>>)>>]
Twins == [web |-> "none",
          contexts |-> <<Context("sales", <<Aggregate("Order", Pay, <<"Payments">>),
                                            Aggregate("OrderState", Refund, <<"Mail">>)>>, <<>>)>>]

\* In contexts.contexts.domain the name of the other context occurs.
Mirror == [web |-> "none", contexts |-> <<Context("contexts", <<Aggregate("Order", Pay, <<>>)>>, <<>>),
                                          Context("domain", <<>>, <<>>)>>]

MCSpecs == {Shop(Pay, "drf"), Shop(Refund, "none"), Regions, Crawler, Twins, Mirror}
MCShops == {Shop(Pay, "drf")}
MCTwins == {Twins}

Sales == <<"src", "contexts", "sales">>
OrderFile == Sales \o <<"domain", "order", "py">>
StateFile == Sales \o <<"domain", "order_state", "py">>
TableFile == Sales \o <<"domain", "decision_tables", "limit", "csv">>
NewFile == Sales \o <<"domain", "discount", "py">>
NewPage == Sales \o <<"adapters", "web", "page", "py">>

MCEditable == {OrderFile, StateFile, TableFile, NewFile, NewPage}
MCOrder == {OrderFile}
MCAgents == {<<"AGENTS", "md">>, OrderFile}

Code == Plain(<<"code">>)
ImportLedger == Importing(<<"import ledger">>, {Import(<<"contexts", "ledger", "domain">>)})
ImportOrder == Importing(<<"import order">>, {Import(<<"contexts", "sales", "domain", "order">>)})
\* `from contexts import ledger`: ast names the package, Python loads the context.
ImportByName == Importing(<<"from contexts import ledger">>,
                  {[seen |-> "contexts", real |-> <<"contexts", "ledger">>]})
OpenAgain == Line("open", <<"impl", <<"again">>>>, {})
CloseAgain == Line("close", <<"end impl">>, {})

MCPalette == {Code, ImportLedger, ImportOrder, OpenAgain, CloseAgain, Unparsable}
MCByName == {Code, ImportByName}
=============================================================================
