------------------------------- MODULE Payload -------------------------------
(***************************************************************************)
(* The sizes of one exchange through dns/mod.rs: what the client says it   *)
(* can take, what is promised upstream, the buffer the reply is read into, *)
(* the cache in between, and the cut to what the client can take.          *)
(*                                                                         *)
(* A message is its size and what became of it.  The upstream is external  *)
(* and compliant: it sends what it was told fits, or the TC stub, and over *)
(* TCP the whole.  An offer is the EDNS payload size of a request, 0 for   *)
(* a request without OPT; hickory reads and writes none below 512.         *)
(***************************************************************************)
LOCAL INSTANCE Integers

CONSTANTS
    Limits,     \* values of dns.upstream_udp_payload, which is not validated
    Offers,     \* what clients offer
    Sizes,      \* sizes of answers
    StubSize    \* header, question and OPT

(* A name has at most 255 octets: header, question and OPT fit in 512. *)
ASSUME PayloadAssumption ==
    /\ Limits \cup Offers \cup Sizes \subseteq Nat
    /\ StubSize \in 0..512

VARIABLES
    limit,      \* dns.upstream_udp_payload
    client,     \* the request: transport and offer
    whole,      \* size of the complete answer to it
    held,       \* whether the cache has that answer
    hop,        \* "off", "idle", "asked", "relay", "fit", "sent"
    msg         \* the answer in hand

payloadVars == <<limit, client, whole, held, hop, msg>>

Larger(a, b)  == IF a > b THEN a ELSE b
Smaller(a, b) == IF a < b THEN a ELSE b

(* Edns::max_payload, Edns::set_max_payload, Message::max_payload *)
Classic(n) == Larger(n, 512)

Nil == [form |-> "none", size |-> 0, opt |-> 0]

----------------------------------------------------------------------------
(* Faulty variant: the client's offer is passed on as it is. *)
ClampNothing(offer) == offer

(* clamp_upstream_payload: the offer on the wire to the upstream. *)
ClampUpstreamPayload(offer) ==
    IF offer # 0 /\ Classic(offer) > limit THEN Classic(limit) ELSE offer

(* What udp_exchange can read. *)
ReceiveBuffer == Classic(limit)

(* response_edns: no OPT for a client that sent none. *)
ResponseEdns(offer) ==
    IF offer = 0 THEN 0 ELSE Classic(Smaller(Classic(offer), limit))

(* The limit fit_udp works to. *)
FitLimit(offer) == Classic(Smaller(Classic(offer), limit))

(* The resolver is built with the configured limit. *)
SetLimit(n) ==
    /\ hop = "off"
    /\ limit' = n
    /\ hop' = "idle"
    /\ UNCHANGED <<client, whole, held, msg>>

Receive(transport, offer, size) ==
    /\ hop = "idle"
    /\ client' = [transport |-> transport, offer |-> offer]
    /\ whole' = size
    /\ held' = FALSE
    /\ hop' = "asked"
    /\ UNCHANGED <<limit, msg>>

(* base_response with the sections of a cached answer. *)
AnswerFromCache ==
    /\ hop = "asked"
    /\ held
    /\ msg' = [form |-> "whole", size |-> whole, opt |-> ResponseEdns(client.offer)]
    /\ hop' = "fit"
    /\ UNCHANGED <<limit, client, whole, held>>

(* sinkhole and error_response: base_response and at most one record. *)
AnswerLocally ==
    /\ hop = "asked"
    /\ msg' = [form |-> "local", size |-> StubSize, opt |-> ResponseEdns(client.offer)]
    /\ hop' = "fit"
    /\ UNCHANGED <<limit, client, whole, held>>

(* An upstream's OPT answers that of the request.                          *)
(* A datagram longer than the buffer is clipped by the kernel, does not    *)
(* decode, and ends as SERVFAIL.                                           *)
UdpExchange ==
    /\ hop = "asked"
    /\ LET fits == whole <= Classic(ClampUpstreamPayload(client.offer)) IN
       /\ msg' = IF ~fits THEN [form |-> "stub", size |-> StubSize, opt |-> 0]
                 ELSE IF whole <= ReceiveBuffer
                      THEN [form |-> "whole", size |-> whole, opt |-> client.offer]
                      ELSE [form |-> "servfail", size |-> StubSize, opt |-> 0]
       /\ hop' = "relay"
    /\ UNCHANGED <<limit, client, whole, held>>

(* Truncated: the same upstream is asked over TCP. *)
TcpExchange ==
    /\ hop = "relay"
    /\ msg.form = "stub"
    /\ msg' = [form |-> "whole", size |-> whole, opt |-> client.offer]
    /\ UNCHANGED <<limit, client, whole, held, hop>>

(* The answer is stored, if it is one the cache takes, and handed back. *)
HandBack(stored) ==
    /\ hop = "relay"
    /\ msg.form # "stub"
    /\ stored => msg.form = "whole"
    /\ held' = (held \/ stored)
    /\ hop' = "fit"
    /\ UNCHANGED <<limit, client, whole, msg>>

(* Faulty variant: what is too long is relayed all the same. *)
FitUdpRelays ==
    /\ hop = "fit" /\ client.transport = "udp"
    /\ hop' = "sent"
    /\ UNCHANGED <<limit, client, whole, held, msg>>

FitUdp ==
    /\ hop = "fit" /\ client.transport = "udp"
    /\ msg' = IF msg.size <= FitLimit(client.offer) THEN msg
              ELSE [msg EXCEPT !.form = "stub", !.size = StubSize]
    /\ hop' = "sent"
    /\ UNCHANGED <<limit, client, whole, held>>

(* serve_tcp writes the response with its length. *)
SendTcp ==
    /\ hop = "fit" /\ client.transport = "tcp"
    /\ hop' = "sent"
    /\ UNCHANGED <<limit, client, whole, held, msg>>

(* A client that gets TC asks the same over TCP; the cache may have lost   *)
(* the answer by then.                                                     *)
RetryOverTcp(still) ==
    /\ hop = "sent" /\ msg.form = "stub"
    /\ client' = [client EXCEPT !.transport = "tcp"]
    /\ held' = (held /\ still)
    /\ msg' = Nil
    /\ hop' = "asked"
    /\ UNCHANGED <<limit, whole>>

(* Another client asks for the same name, answered from the cache or not. *)
AskAgain(transport, offer) ==
    /\ hop = "sent"
    /\ client' = [transport |-> transport, offer |-> offer]
    /\ msg' = Nil
    /\ hop' = "asked"
    /\ UNCHANGED <<limit, whole, held>>

PayloadInit ==
    /\ limit = 0
    /\ client = [transport |-> "udp", offer |-> 0]
    /\ whole = 0
    /\ held = FALSE
    /\ hop = "off"
    /\ msg = Nil

PayloadNext ==
    \/ \E n \in Limits : SetLimit(n)
    \/ \E t \in {"udp", "tcp"}, o \in Offers :
          AskAgain(t, o) \/ \E s \in Sizes : Receive(t, o, s)
    \/ AnswerFromCache \/ AnswerLocally
    \/ UdpExchange \/ TcpExchange
    \/ \E stored \in BOOLEAN : HandBack(stored)
    \/ FitUdp \/ SendTcp
    \/ \E still \in BOOLEAN : RetryOverTcp(still)

PayloadSpec == PayloadInit /\ [][PayloadNext]_payloadVars

----------------------------------------------------------------------------
(* What the client takes and the operator sends over UDP. *)
Acceptable(size) == size <= 512 \/ (size <= client.offer /\ size <= limit)

(* "A compliant upstream's answer never gets silently clipped": whatever   *)
(* the client offers, the operator configures and the cache holds from     *)
(* another client, an answer that exists reaches the client whole, or over *)
(* UDP as a TC stub when it is longer than client and operator allow; what *)
(* is sent over UDP is within that limit, and TCP never sees TC.           *)
NothingClipped ==
    hop = "sent" =>
        /\ msg.form \in {"whole", "stub", "local"}
        /\ msg.form = "whole" => msg.size = whole
        /\ client.transport = "udp" => Acceptable(msg.size)
        /\ msg.form = "stub" => client.transport = "udp" /\ ~Acceptable(whole)
        /\ client.offer = 0 => msg.opt = 0
=============================================================================
