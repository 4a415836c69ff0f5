------------------------------ MODULE MCAccess ------------------------------
(* The deployments for TLC: collectors that look secrets up, machines that *)
(* send tokens, two browsers at one process, one browser at two replicas    *)
(* with a shared session key, and the settings without an identity provider.*)
EXTENDS Access

CONSTANTS p1, p2, b1, b2, ann, bob

Grafana == [static |-> "grafana"]

MCTokens == {Grafana}

MCSessionRef == "session"

Blocks ==
    {[vault |-> "session", inline |-> "x"], [aws_secret |-> "db"], [file |-> "gone", env |-> "SET"],
     [env |-> "UNSET", vault |-> "session"], [env |-> "SET", vault |-> "session"],
     [inline |-> "x"], [other |-> "y"]}

MCPresent == {"SET"}

Plain ==
    [listen |-> "network", tokens |-> {}, oidc |-> FALSE, open |-> FALSE,
     public |-> {"/metrics"}, sharedKey |-> FALSE, processes |-> {p1}, threads |-> {},
     blocks |-> {}, refs |-> {}, browsers |-> {}, machines |-> FALSE, maxLogins |-> 0]

Collecting(ref) ==
    [Plain EXCEPT !.tokens = {Grafana}, !.threads = {<<p1, 1>>, <<p1, 2>>}, !.refs = {ref},
                  !.blocks = {o \in Blocks : \A b \in Managed \cap DOMAIN o : o[b] = ref}]

ForMachines == [Plain EXCEPT !.oidc = TRUE, !.machines = TRUE]

TwoBrowsers == [Plain EXCEPT !.oidc = TRUE, !.browsers = {b1, b2},
                             !.maxLogins = 2]

TwoReplicas == [Plain EXCEPT !.oidc = TRUE, !.browsers = {b1}, !.sharedKey = TRUE, !.refs = {"session"},
                             !.processes = {p1, p2}, !.tokens = {Grafana},
                             !.maxLogins = 1]

MCSites ==
    {Collecting("session"), Collecting("db"), ForMachines, TwoBrowsers, TwoReplicas, Plain,
     [Plain EXCEPT !.open = TRUE], [Plain EXCEPT !.listen = "loopback", !.public = {}]}
=============================================================================
