------------------------------ MODULE Delivery -------------------------------
(***************************************************************************)
(* Sending one card to Feishu (runtime/feishu.py): the credentials, one    *)
(* token, then the message, posted again after a timeout or a transient    *)
(* answer.  A request that timed out may arrive later.  The service        *)
(* (external) shows one message per request id.                            *)
(***************************************************************************)
EXTENDS Budgets

VARIABLES
  post,      \* the card being sent
  inflight,  \* request ids of posts that may still arrive
  shown      \* request ids the service shows a message for

NoPost == [at |-> "idle"]
Posting == post.at # "idle"

RETRIES == 2

\* After the first post, the second, and any later one.
Backoff(try) == IF try = 1 THEN 1 ELSE IF try = 2 THEN 2 ELSE 4
CredentialRead == Budget.credential_timeout + CLEANUP_ALLOWANCE_SECONDS

\* One request: a deadline over the whole exchange, name lookup and body
\* included, kept by leaving the thread that makes it behind.
UrllibHttp == Budget.notification_timeout

\* Mutant: every post has an id of its own.
uuid_per_post(tries) == tries

\* Minted once per card, before the first post.
uuid(tries) == 1

Deliver == /\ post' = [at |-> "user", tries |-> 0, clock |-> 0]
           /\ inflight' = {} /\ shown' = {}

Spent(cost, at) == post' = [post EXCEPT !.at = at, !.clock = @ + cost]
KeepMessages == UNCHANGED <<inflight, shown>>

\* _user, require_credentials and the two reads of tenant_token: any may be
\* missing, and ends the delivery.
Read(from, reads, to) ==
  /\ post.at = from
  /\ Spent(reads * CredentialRead, to) \/ Spent(reads * CredentialRead, "failed")
  /\ KeepMessages

_user == Read("user", 1, "require")
require_credentials == Read("require", 3, "secrets")
Secrets == Read("secrets", 2, "token")

\* One request, without retries.
tenant_token ==
  /\ post.at = "token"
  /\ \E to \in {"send", "failed"} : Spent(UrllibHttp, to)
  /\ KeepMessages

\* One post of the message: accepted, refused, or no usable answer, in which
\* case it may have arrived, arrive later or never, and is posted again.
_post ==
  LET id == uuid(post.tries + 1)
      try == post.tries + 1
      again == [post EXCEPT !.tries = try,
                  !.at = IF try > RETRIES THEN "failed" ELSE "send",
                  !.clock = @ + UrllibHttp
                              + IF try > RETRIES THEN 0 ELSE Backoff(try)]
  IN
  /\ post.at = "send"
  /\ \/ /\ Spent(UrllibHttp, "sent")
        /\ shown' = shown \cup {id} /\ UNCHANGED inflight
     \/ Spent(UrllibHttp, "failed") /\ KeepMessages
     \/ post' = again /\ inflight' = inflight \cup {id} /\ UNCHANGED shown
     \/ post' = again /\ KeepMessages

Arrive ==
  /\ Posting
  /\ \E id \in inflight : inflight' = inflight \ {id} /\ shown' = shown \cup {id}
  /\ UNCHANGED post

DeliveryStep ==
  \/ _user \/ require_credentials \/ Secrets \/ tenant_token \/ _post \/ Arrive
-----------------------------------------------------------------------------
(* Properties.                                                             *)

(* A delivery never takes longer than the budget has for one.              *)
DeliveryWithinBudget(plan) == Posting => post.clock <= _delivery(plan)

(* However its posts time out, are repeated and arrive, a card is seen at  *)
(* most once; and one reported as sent is seen.                            *)
OneCard ==
  /\ \A a, b \in shown : a = b
  /\ post.at = "sent" => shown # {}
=============================================================================
