------------------------------ MODULE SipRelay ------------------------------
(***************************************************************************)
(* What the proxy promises a client, whatever connections, branches,       *)
(* retries and caches are behind it: a response answers a request that was *)
(* sent, of the client's own transaction, and a request that no CANCEL or  *)
(* ACK has followed gets no more final responses than it was sent times.   *)
(***************************************************************************)
EXTENDS Integers

CONSTANTS
    Request,        \* records with a txn and a method
    FollowUp        \* methods that share a transaction with an INVITE

VARIABLES
    sent,           \* how often each request was sent
    delivered,      \* responses: [to, answer, isFinal]
    finals          \* final responses delivered, per request they answer

vars == <<sent, delivered, finals>>

Init == sent = [r \in Request |-> 0] /\ delivered = {} /\ finals = [r \in Request |-> 0]

Ask(r) ==
    /\ sent' = [sent EXCEPT ![r] = @ + 1]
    /\ UNCHANGED <<delivered, finals>>

IsFollowed(r) == \E q \in Request : q.txn = r.txn /\ q.method \in FollowUp /\ sent[q] > 0

Deliver(r, answer, isFinal) ==
    /\ answer.txn = r.txn /\ sent[r] > 0 /\ sent[answer] > 0
    /\ isFinal /\ ~IsFollowed(answer) => finals[answer] < sent[answer]
    /\ delivered' = delivered \cup {[to |-> r, answer |-> answer, isFinal |-> isFinal]}
    /\ finals' = IF isFinal THEN [finals EXCEPT ![answer] = @ + 1] ELSE finals
    /\ UNCHANGED sent

Next ==
    \/ \E r \in Request : Ask(r)
    \/ \E r, answer \in Request, isFinal \in BOOLEAN : Deliver(r, answer, isFinal)

Spec == Init /\ [][Next]_vars
=============================================================================
