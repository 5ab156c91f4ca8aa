------------------------------ MODULE MCWriter ------------------------------
(* Instances of the database writer and its readers. *)
EXTENDS Reports

CONSTANTS m1, m2, i1, i2, h1

Query(ts, client, domain, qtype, status) ==
    [kind |-> "query", ts |-> ts, client |-> client, domain |-> domain,
     qtype |-> qtype, status |-> status]

(* i2 belongs to no device; the third query reaches the queue out of order. *)
MCLog == <<Query(1000, i1, "ads", "A", "blocked"),
           Query(87390, i1, "shop", "A", "cached"),
           Query(83800, i2, "shop", "AAAA", "nxdomain")>>

(* The day of the first query and the hour of the third are just complete, *)
(* then just over.                                                         *)
MCNows == {87400, 87401}
=============================================================================
