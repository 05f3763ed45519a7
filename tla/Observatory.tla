---------------------------- MODULE Observatory ----------------------------
(***************************************************************************)
(* The submission queue of the Firefox extension's SSL Observatory         *)
(* (src/components/ssl-observatory.js): which certificate chains are sent, *)
(* how many at a time, and which are put off and retried.  A chain is the  *)
(* fingerprint of its leaf, under which the code keeps everything.         *)
(*                                                                         *)
(* External: pages, whose responses may show any chain at any time (that   *)
(* the Observatory is active and the chain is not whitelisted is left to   *)
(* them), and the server, which answers requests in any order, each once,  *)
(* with 200, 403 or a failure (an XHR that times out fails).  send() of an *)
(* XHR may throw, whenever it is called.                                   *)
(***************************************************************************)
EXTENDS Naturals, SequencesExt

CONSTANTS
  Chain,
  Private,          \* chains sent only if the user agreed: self-signed, private root
  MAX_OUTSTANDING,
  MAX_DELAYED

ASSUME ObservatoryConstants ==
  /\ Private \subseteq Chain
  /\ MAX_OUTSTANDING \in Nat
  /\ MAX_DELAYED \in Nat

VARIABLES
  already_submitted,             \* chains marked as submitted
  delayed_submissions,           \* [chain, bound] in the order of the object's keys
  current_outstanding_requests,
  inFlight,                      \* chains of the XHRs under way
  private_ok, cache_submitted,   \* preferences: alt_roots or self_signed, and this one
  thrown,                        \* history: how often send() has thrown
  accepted,                      \* history: chains answered for good, see Settle
  disowned                       \* history: chains in flight since before a clear

prefs   == <<private_ok, cache_submitted>>
history == <<accepted, disowned>>
queue   == [already |-> already_submitted, delayed |-> delayed_submissions,
            outstanding |-> current_outstanding_requests, flying |-> inFlight,
            thrown |-> thrown]
vars    == <<already_submitted, delayed_submissions, current_outstanding_requests,
             inFlight, thrown, prefs, history>>

Become(q) ==
  /\ already_submitted' = q.already
  /\ delayed_submissions' = q.delayed
  /\ current_outstanding_requests' = q.outstanding
  /\ inFlight' = q.flying
  /\ thrown' = q.thrown

Init ==
  /\ already_submitted = {} /\ delayed_submissions = <<>>
  /\ current_outstanding_requests = 0 /\ inFlight = <<>> /\ thrown = 0
  /\ private_ok \in BOOLEAN /\ cache_submitted \in BOOLEAN
  /\ accepted = {} /\ disowned = {}

-----------------------------------------------------------------------------
(* submitChain: the queue before the call to the queues after it, which    *)
(* tell by their count of throws whether it returned or threw.             *)

(* Fault: the chain's mark is not looked at.                               *)
ShouldSubmitUnmarked(q, c) == c \in Private => private_ok

shouldSubmit(q, c) == (c \in Private => private_ok) /\ c \notin q.already

IsDelayed(q, c) == \E i \in DOMAIN q.delayed : q.delayed[i].chain = c

(* The retry planned here calls this.submitChain, and `this` is not the    *)
(* Observatory when the loop after a success calls it (672).               *)
Delay(q, c) ==
  IF Len(q.delayed) < MAX_DELAYED /\ ~IsDelayed(q, c)
  THEN [q EXCEPT !.delayed = Append(@, [chain |-> c, bound |-> FALSE])]
  ELSE q

(* Fault: the chain is not marked until it is answered.                    *)
SendUnmarked(q, c) == [q EXCEPT !.outstanding = @ + 1, !.flying = Append(@, c)]

Send(q, c) ==
  [already |-> q.already \cup {c}, delayed |-> q.delayed,
   outstanding |-> q.outstanding + 1, flying |-> Append(q.flying, c), thrown |-> q.thrown]

(* send() throws when the chain is marked and counted, and nothing catches *)
(* it: there is no request whose answer would take either back.            *)
SendThrows(q, c) ==
  [already |-> q.already \cup {c}, delayed |-> q.delayed,
   outstanding |-> q.outstanding + 1, flying |-> q.flying, thrown |-> q.thrown + 1]

(* Fault: one more request than the limit lets through.                    *)
SubmitOverLimit(q, c) ==
  IF ~shouldSubmit(q, c) THEN {q}
  ELSE IF q.outstanding > MAX_OUTSTANDING + 1 THEN {Delay(q, c)}
  ELSE {Send(q, c)}

submitChain(q, c) ==
  IF ~shouldSubmit(q, c) THEN {q}
  ELSE IF q.outstanding > MAX_OUTSTANDING THEN {Delay(q, c)}
  ELSE {Send(q, c), SendThrows(q, c)}

-----------------------------------------------------------------------------
(* onreadystatechange.                                                     *)

Popped(q, i) ==
  [already |-> q.already, delayed |-> q.delayed,
   outstanding |-> q.outstanding - 1, flying |-> RemoveAt(q.flying, i),
   thrown |-> q.thrown]

Forget(q, c) == [q EXCEPT !.already = @ \ {c}]

CanRetry(q) == q.delayed # <<>> /\ q.delayed[1].bound

(* Fault: a retry sends what it has without asking shouldSubmit again.     *)
RetryUnasked(q) ==
  LET c == q.delayed[1].chain
  IN {[(IF q.outstanding > MAX_OUTSTANDING THEN q ELSE Send(q, c)) EXCEPT !.delayed = Tail(@)]}

(* One turn of the loop: call the entry, then delete it.                   *)
RetryFirst(q) ==
  {IF r.thrown = q.thrown THEN [r EXCEPT !.delayed = Tail(@)] ELSE r :
     r \in submitChain(q, q.delayed[1].chain)}

(* Up to two turns.  An entry that is not bound throws, as one may that    *)
(* is: it stays, and the loop is over.                                     *)
Retry(q) ==
  IF ~CanRetry(q) THEN {q}
  ELSE UNION {IF CanRetry(r) /\ r.thrown = q.thrown THEN RetryFirst(r) ELSE {r} :
                r \in RetryFirst(q)}

(* The retry planned after a failure is bound to the Observatory, but is   *)
(* planned only in place of a delayed one.                                 *)
PlanRetry(q, c) ==
  IF Len(q.delayed) < MAX_DELAYED
  THEN [q EXCEPT !.delayed = [i \in DOMAIN @ |->
         IF @[i].chain = c THEN [chain |-> c, bound |-> TRUE] ELSE @[i]]]
  ELSE q

(* After a request of c has ended with queue q.                            *)
StillDisowned(q) == disowned \cap Range(q.flying)

(* Chains whose only request was answered with 403, or with 200 while      *)
(* submitted chains are to be remembered.                                  *)
Settle(c, remembered) ==
  accepted' = IF remembered /\ c \notin disowned THEN accepted \cup {c} ELSE accepted

Succeeds(i) ==
  LET c == inFlight[i]
      q == Popped(queue, i)
  IN /\ \E r \in Retry(IF cache_submitted THEN q ELSE Forget(q, c)) : Become(r)
     /\ Settle(c, cache_submitted) /\ disowned' = StillDisowned(q)
     /\ UNCHANGED prefs

(* Fault: the counter is lowered for the other two kinds of answer only.   *)
WarnedLeaking(i) ==
  /\ Become([queue EXCEPT !.flying = RemoveAt(@, i)])
  /\ Settle(inFlight[i], TRUE) /\ disowned' = StillDisowned(Popped(queue, i))
  /\ UNCHANGED prefs

WarnedOf(i) ==
  /\ Become(Popped(queue, i))
  /\ Settle(inFlight[i], TRUE) /\ disowned' = StillDisowned(Popped(queue, i))
  /\ UNCHANGED prefs

Fails(i) ==
  LET c == inFlight[i]
      q == Popped(queue, i)
  IN /\ Become(PlanRetry(Forget(q, c), c))
     /\ disowned' = StillDisowned(q)
     /\ UNCHANGED <<prefs, accepted>>

Answered == \E i \in DOMAIN inFlight : Succeeds(i) \/ WarnedOf(i) \/ Fails(i)

-----------------------------------------------------------------------------
(* http-on-examine-response: a page shows chain c.                         *)
Examine(c) ==
  /\ \E q \in submitChain(queue, c) : Become(q)
  /\ UNCHANGED <<prefs, history>>

(* cookie-changed, "cleared".                                              *)
CookiesCleared ==
  /\ already_submitted' = {} /\ delayed_submissions' = <<>>
  /\ accepted' = {} /\ disowned' = Range(inFlight)
  /\ UNCHANGED <<current_outstanding_requests, inFlight, thrown, prefs>>

SetPrefs(ok, cache) ==
  /\ private_ok' = ok /\ cache_submitted' = cache
  /\ UNCHANGED <<already_submitted, delayed_submissions, current_outstanding_requests,
                 inFlight, thrown, history>>

Next ==
  \/ \E c \in Chain : Examine(c)
  \/ Answered
  \/ CookiesCleared
  \/ \E ok, cache \in BOOLEAN : SetPrefs(ok, cache)

(* Requests are answered: each XHR has a TIMEOUT of 60 seconds.            *)
Spec == Init /\ [][Next]_vars /\ WF_vars(Answered)

-----------------------------------------------------------------------------
TypeOK ==
  /\ already_submitted \subseteq Chain
  /\ delayed_submissions \in Seq([chain : Chain, bound : BOOLEAN])
  /\ Len(delayed_submissions) <= MAX_DELAYED
  /\ current_outstanding_requests \in Nat /\ thrown \in Nat
  /\ inFlight \in Seq(Chain)
  /\ private_ok \in BOOLEAN /\ cache_submitted \in BOOLEAN
  /\ accepted \subseteq Chain /\ disowned \subseteq Chain

(* current_outstanding_requests is the number of XHRs in progress and of   *)
(* calls of send() that threw, however the retries after a success end,    *)
(* and at most one above MAX_OUTSTANDING: nothing else leaks (579, 658,    *)
(* 711), and a leak ends in a queue that sends nothing any more.           *)
OutstandingExact ==
  /\ current_outstanding_requests = Len(inFlight) + thrown
  /\ current_outstanding_requests <= MAX_OUTSTANDING + 1

(* "Cache this here to prevent multiple submissions for all the content    *)
(* elements" (707): a chain is in flight once, unless a request of it was  *)
(* already under way when the cookies were cleared, and its requests have  *)
(* not all been answered since.                                            *)
OneRequestPerChain ==
  \A i, j \in DOMAIN inFlight : i # j /\ inFlight[i] = inFlight[j] => inFlight[i] \in disowned

(* A chain the server has answered for good is neither in flight nor       *)
(* sent again before the cookies are cleared, whatever was delayed or is   *)
(* retried and however the preferences change (563, 663).                  *)
AcceptedStaysAccepted == accepted \cap Range(inFlight) = {}

(* No request is begun for a private chain without the user's consent,     *)
(* which is asked anew for each retry (544-561, 576).                      *)
ConsentAskedAnew ==
  [][\A c \in Private :
       ~private_ok /\ c \notin Range(inFlight) => c \notin Range(inFlight')]_vars

(* Too many outstanding requests are not too many forever, unless it is    *)
(* throws that they were counted for: retries that refill the queue run    *)
(* out (579, 670-675, 711-713).                                            *)
OverLimitEnds ==
  current_outstanding_requests > MAX_OUTSTANDING
    ~> current_outstanding_requests <= MAX_OUTSTANDING \/ thrown > MAX_OUTSTANDING

(* "Retry up to two previously failed submissions" (668): a success takes  *)
(* at least one of the delayed submissions out of the queue.               *)
RetriesAfterSuccess ==
  [][(\E i \in DOMAIN inFlight : Succeeds(i)) /\ delayed_submissions # <<>>
       => Len(delayed_submissions') < Len(delayed_submissions)]_vars
=============================================================================
