------------------------- MODULE MCExampleInventory -------------------------
(* A small instance of ExampleInventory for TLC: the quickstart and one    *)
(* other page, a CLI of two commands and one management route.             *)
EXTENDS ExampleInventory

MCTokens ==
    [get         |-> <<"curl", "$CONTROL_API/rules">>,
     post        |-> <<"curl", "-X", "POST", "$CONTROL_API/rules">>,
     data        |-> <<"curl", "-d", "-X", "$CONTROL_API/rules">>,
     joined      |-> <<"curl", "--data={}", "$CONTROL_API/rules">>,
     gateway     |-> <<"curl", "-X", "PUT", "$GATEWAY_API/rules">>,
     other       |-> <<"curl", "--request=DELETE", "http://backend/">>,
     remove      |-> <<"curl", "--request", "DELETE", "$CONTROL_API/rules">>,
     wrong       |-> <<"curl", "-I", "$CONTROL_API/rules">>,
     list        |-> <<"loxicmd", "get", "lb", "--output", "json">>,
     preview     |-> <<"loxicmd", "get", "beta", "--output", "json">>,
     create      |-> <<"loxicmd", "create", "lb">>,
     timedCreate |-> <<"loxicmd", "--timeout", "5", "create", "lb">>]
MCOptions == {"-X", "-d", "--request", "--request=DELETE", "-I", "--data={}", "--output", "--timeout"}
MCJoinedMethod == [o \in {"--request=DELETE"} |-> "DELETE"]
MCRoute == [u \in {"$CONTROL_API/rules", "$GATEWAY_API/rules", "http://backend/"} |->
              IF u = "http://backend/" THEN NoRoute ELSE "/config/loadbalancer"]
MCOperations == {"GET", "POST", "PUT", "DELETE"} \X {"/config/loadbalancer"}
MCFlags == {"--output", "--timeout"}
MCCliContract ==
    (<<"get", "lb">> :> [available |-> {"main", "release"}, main |-> MCFlags, release |-> MCFlags,
                         enums |-> "--output" :> {"json", "wide"}])
    @@ (<<"get", "beta">> :> [available |-> {"main"}, main |-> MCFlags, release |-> {},
                              enums |-> "--output" :> {"json"}])
    @@ (<<"create", "lb">> :> [available |-> {"main", "release"}, main |-> MCFlags,
                               release |-> MCFlags, enums |-> "--output" :> {"json", "wide"}])
MCValueFlags == MCFlags
MCMentions ==
    [l \in {"list", "preview", "create", "timedCreate"} |-> {"loxicmd"}]
    @@ [l \in {"get", "post", "data", "joined", "remove", "wrong", Comment} |->
            {"curl", "control API"}]
    @@ [l \in {"gateway", "other"} |-> {"curl"}]

QuickstartPage ==
    <<"status verified", Canonical, Headings, "fence bash", "post", Oracle, "remove", "fence">>
ReadPage == <<Headings, "status verified", "fence bash", "get", MainOnly, "preview", "fence">>
FragmentPage == <<"status illustrative-only", "fence bash", "create", "fence">>
MCTemplates == {("quickstart" :> QuickstartPage) @@ ("page" :> p) : p \in {ReadPage, FragmentPage}}
=============================================================================
