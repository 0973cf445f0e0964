------------------------------ MODULE MCStorage ------------------------------
(* Small imports for TLC: hosts found with an open or a closed port. *)
EXTENDS StorageProps, TLC

CONSTANTS planner, import

On(addr, kind, service, name, full, names) ==
    [kind |-> kind, addr |-> addr, service |-> service, name |-> name,
     full |-> full, names |-> names]

It(kind, service, name, full, names) == On("h", kind, service, name, full, names)

HostItem == It("host", NoService, "h", FALSE, TRUE)
Port(open) == It("service", NoService, "22", open, FALSE)

Note == It("note", "22", "n", TRUE, FALSE)
Vuln == It("vuln", NoService, "v", TRUE, FALSE)
Discovery(open) == {HostItem, Port(open)}

Outputs == [p \in Process |->
    {{HostItem, It("note", NoService, "os", TRUE, FALSE)}, Discovery(FALSE),
     Discovery(TRUE) \cup {Note, Vuln, On("g", "host", NoService, "g", FALSE, FALSE),
                           On("g", "service", NoService, "22", TRUE, FALSE)}}]
Found == [p \in Process |-> {Discovery(TRUE)}]

(* what is typed into forms is there already, or will be *)
Forms == {[kind |-> "host", name |-> "h", full |-> FALSE],
          [kind |-> "service", name |-> "22", full |-> TRUE],
          [kind |-> "note", name |-> "hostnames", full |-> TRUE]}

Importing == [p \in Process |-> {"import"}]
Split == [p \in Process |-> IF p = planner THEN {"cleanup"} ELSE {"import"}]
=============================================================================
