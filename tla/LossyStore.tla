----------------------------- MODULE LossyStore -----------------------------
(***************************************************************************)
(* What the resolver may rely on from its answer cache, without time, keys *)
(* or eviction: a store of upstream answers that may forget any of them at *)
(* any moment, holds at most one answer per question and terms, and gives  *)
(* a request only the last answer stored for the same question asked in    *)
(* the same terms (class, DO and CD bits), with nothing in it that belongs *)
(* to the transaction it came from (the OPT record).                       *)
(***************************************************************************)
EXTENDS Integers

CONSTANTS
    Requests,   \* requests clients may send
    Answers     \* what may be stored: a request and the upstream's answer

VARIABLES
    store,      \* the answers held
    answer      \* what the last lookup returned

vars == <<store, answer>>

Nothing == [found |-> FALSE]

(* A client that sent no OPT asked in the same terms as one that sent an   *)
(* OPT with the DO bit clear.                                              *)
SameTerms(a, b) ==
    /\ a.name = b.name
    /\ a.qtype = b.qtype
    /\ a.qclass = b.qclass
    /\ a.cd = b.cd
    /\ (a.edns = "dnssec_ok") = (b.edns = "dnssec_ok")

Reusable(v) ==
    /\ v.rcode \in {"NOERROR", "NXDOMAIN"}
    /\ \A r \in v.additionals : ~r.opt

Init == store = {} /\ answer = Nothing

Store(v) ==
    /\ Reusable(v)
    /\ \E kept \in SUBSET {w \in store : ~SameTerms(w.from, v.from)} :
           store' = kept \cup {v}
    /\ answer' = Nothing

Forget ==
    /\ store' \in SUBSET store
    /\ answer' = Nothing

Find(req) ==
    /\ \E v \in store :
          /\ SameTerms(v.from, req)
          /\ answer' = [found |-> TRUE, to |-> req, value |-> v]
    /\ UNCHANGED store

Next ==
    \/ \E v \in Answers : Store(v)
    \/ \E req \in Requests : Find(req)
    \/ Forget

Spec == Init /\ [][Next]_vars
=============================================================================
