---------------------------- MODULE StorageProps ----------------------------
(***************************************************************************)
(* What imports and cleanups keep of the storage.                          *)
(***************************************************************************)
EXTENDS Storage

Statements == {"delete services", "no info", "no services", "no vulns", "no notes",
               "delete bare", "one note", "hostnames", "delete named", "commit"}

(* Types; every row stands under rows that exist. *)
TypeOK ==
    /\ pc \in [Process -> Kinds \cup Statements \cup {"idle", "failed"}]
    /\ \A r, s \in rows : r.id = s.id => r = s
    /\ \A r \in rows :
           /\ r.id \in 1..(nextId - 1)
           /\ r.kind # "host" => \E h \in Of("host") : h.id = r.host
           /\ r.service # NoId => \E s \in Of("service") : s.id = r.service /\ s.host = r.host
    /\ \A p \in Process : todo[p] \subseteq batch[p] /\ runs[p] \in 0..MaxRuns

(* The lookups are called "query upsert" (core.py:297-325) and demand at    *)
(* most one row.  Of what operators have neither added nor changed, nor     *)
(* anything it stands under, no address, service, vuln or note is there     *)
(* twice: two rows that a later import takes for one, and raises            *)
(* MultipleResultsFound, are an operator's making, whose forms look for no  *)
(* row of the same key.                                                     *)
Imported(r) ==
    /\ ~r.manual
    /\ \A id \in {r.host, r.service} \ {NoId} : \E s \in rows : s.id = id /\ ~s.manual
Unique ==
    \A r, s \in rows :
        /\ r.kind = s.kind /\ r.name = s.name
        /\ r.host = s.host /\ r.service = s.service
        /\ Imported(r) /\ Imported(s)
        => r = s

(* "remove any but open:* state services" (core.py:521) and "hosts without  *)
(* any data attribute, service, vuln or note" (535), or with only a note of *)
(* hostnames (550): a cleanup during which nobody stored anything removes   *)
(* nothing else of what is stored when it commits, whatever is deleted      *)
(* beside it.                                                               *)
Garbage(r) ==
    CASE r.kind = "service" -> ~r.full
      [] r.kind = "host" -> ~r.full
      [] OTHER -> \/ \E s \in Of("service") : s.id = r.service /\ ~s.full
                  \/ r.name = "hostnames"
CleanupSpares ==
    [][\A p \in Process :
          CommitCleanup(p) /\ ~disturbed[p] => \A r \in rows \ rows' : Garbage(r)]_vars

(* An import during which nobody removed or renamed anything leaves all its *)
(* items in storage when it ends, though each phase looks its hosts and     *)
(* services up again by what an earlier phase has committed.                *)
Stored(i, state) ==
    \E h \in state :
        /\ h.kind = "host" /\ h.name = i.addr
        /\ \/ i.kind = "host"
           \/ \E r \in state : r.kind = i.kind /\ r.name = i.name /\ r.host = h.id
ImportComplete ==
    [][\A p \in Process :
          pc[p] = "note" /\ pc'[p] = "idle" /\ ~disturbed[p] =>
              \A i \in batch[p] : Stored(i, rows')]_vars

(* "Import existing data with suitable parser" (README.md:283): an import   *)
(* does not die of what another import or a cleanup does.                   *)
ImportsSucceed == \A p \in Process : pc[p] # "failed"
=============================================================================
