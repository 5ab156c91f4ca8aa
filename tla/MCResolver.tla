----------------------------- MODULE MCResolver -----------------------------
(* A small instance of Resolver: one name that lists may block, the canary *)
(* and the root.  The same run checks the two parts of an exchange that    *)
(* Resolver leaves out, which share no state with it: the matcher behind   *)
(* its blocked names, and the sizes of its messages.  A behaviour is one   *)
(* of one of the three; the other two stay where they start.               *)
EXTENDS Resolver, Matching, Payload

CONSTANTS u1, u2, c1, root, canary, ads

(* Lists that overlap, two of the same file name, and an allow list. *)
Shop == <<"shop", "com">>
Ads  == <<"ads", "shop", "com">>
Deep == <<"x", "ads", "shop", "com">>

MCLocalNames == {<<"localhost">>, <<"localhost", "localdomain">>}

MCPlan == <<[list |-> "source", allow |-> FALSE], [list |-> "hosts", allow |-> FALSE],
            [list |-> "hosts", allow |-> FALSE], [list |-> "allow.list", allow |-> TRUE]>>

MCContents ==
    {<<>>,
     <<Bare(Exact(Ads))>>,
     <<Bare(Wildcard(Shop)), Bare(Exact(Shop))>>,
     <<Hosts(<<Exact(<<"localhost">>), Exact(Ads), Exact(<<"localhost", "localdomain">>)>>),
       AdblockWith(Shop)>>,
     <<Adblock(Ads), Exception(Deep)>>,
     <<Exception(Ads), Fields(<<Exact(Shop), Exact(Ads)>>)>>,
     <<Bare(Exact(<<"com">>)), Bare(Exact(<<"a|b", "com">>)),
       Bare(Exact(<<"1", "1">>)), Bare(Exact(Deep))>>}

MCBadLabels  == {"a|b"}
MCIpLiterals == {<<"1", "1">>}
MCQueries    == {<<"com">>, Shop, Ads, Deep, <<"localhost", "localdomain">>}

----------------------------------------------------------------------------
MCInit == Init /\ MatchingInit /\ PayloadInit

AtRest == Init /\ blocked = {}

MCNext ==
    \/ MatchingInit /\ PayloadInit /\ Next /\ UNCHANGED <<matchingVars, payloadVars>>
    \/ AtRest /\ PayloadInit /\ MatchingNext /\ UNCHANGED <<vars, payloadVars>>
    \/ AtRest /\ MatchingInit /\ PayloadNext /\ UNCHANGED <<vars, matchingVars>>

MCSpec == MCInit /\ [][MCNext]_<<vars, matchingVars, payloadVars>>
=============================================================================
