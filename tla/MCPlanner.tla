------------------------------ MODULE MCPlanner ------------------------------
(* Small pipelines of the planner for TLC. *)
EXTENDS PlannerProps, TLC

CONSTANTS scan,             \* a queue of service_scan
          disco,            \* service_disco
          sixdns, sixenum,  \* six_dns_disco, six_enum_disco
          netlist,          \* netlist_enum
          sixes, rescan,    \* storage_six_enum, storage_rescan
          cleanup,
          a, b, c, d,       \* hosts
          n,                \* the network of a
          p1, p2,           \* ports
          j1, j2, j3

StageKind == (scan :> "loader") @@ (disco :> "disco")
          @@ (sixdns :> "six") @@ (sixenum :> "six")
          @@ (netlist :> "netlist") @@ (sixes :> "sixenum")
          @@ (rescan :> "rescan") @@ (cleanup :> "cleanup")
PipelineKind == [s \in Stage |-> StageKind[s]]

StageNext == (scan :> <<>>) @@ (disco :> <<scan>>)
          @@ (sixdns :> <<disco>>) @@ (sixenum :> <<disco>>)
          @@ (netlist :> IF sixdns \in Stage THEN <<disco, sixdns>> ELSE <<disco>>)
          @@ (sixes :> <<sixenum>>)
          @@ (rescan :> <<disco, scan>>) @@ (cleanup :> <<>>)
PipelineNext == [s \in Stage |-> StageNext[s]]

(* home_netranges_ipv6 holds a; six_enum_disco has no filternets *)
PipelineNets == [s \in Stage |-> IF s = sixdns THEN {a} ELSE {}]
PipelineSix == [x \in Address |-> IF x = a /\ n \in Network THEN n ELSE None]
PipelineWithin == [x \in Network |-> {a, d} \cap Address]

(* the order of _setup_stages *)
OrderSix == <<scan, disco, sixdns, sixenum, sixes, rescan, cleanup>>
OrderClean == <<scan, disco, netlist, cleanup>>
OrderPlain == <<scan, disco, netlist>>

Nothing == [hosts |-> {}, open |-> {}, shut |-> {}, bare |-> {}]
Host(x) == [Nothing EXCEPT !.hosts = {x}]
Up(x) == [Host(x[1]) EXCEPT !.open = {x}]
Down(x) == [Host(x[1]) EXCEPT !.shut = {x}]
Bare(x) == [Host(x[1]) EXCEPT !.bare = {x}]
Tarpit(x) == [Up(<<x, p2>>) EXCEPT !.shut = {<<x, p1>>}]

(* one service, whose state may be missing *)
FindsPlain(s, t) ==
    CASE t \in Service -> {Up(t), Down(t)}
      [] t \in Address -> {Up(<<t, p1>>), Bare(<<t, p1>>)}
      [] OTHER -> {}
OutputsPlain == [s \in Handler |-> [t \in Target |-> FindsPlain(s, t)]]

(* a has one service or is a tarpit, its network holds d, which names a, c *)
FindsAll(s, t) ==
    CASE s = sixdns /\ t = d -> {[Nothing EXCEPT !.hosts = {a, c}]}
      [] s = sixenum /\ t = n -> {Host(d)}
      [] s = disco /\ t = a -> {Up(<<a, p1>>), Bare(<<a, p1>>), Tarpit(a)}
      [] s = scan /\ t \in Service -> {Up(t)}
      [] OTHER -> {}
OutputsAll == [s \in Handler |-> [t \in Target |-> FindsAll(s, t)]]

EnteredService == {<<a, p1>>}
EnqueuedHost == {<<disco, a>>}
EnqueuedSix == {<<scan, <<a, p1>>>>, <<sixdns, d>>}

SymmetricJobs == Permutations(Job)

=============================================================================
